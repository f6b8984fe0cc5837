# BeautyFlow: TLA+ models, checks and proofs

BeautyFlow is the backend of a multi-tenant salon application: a NestJS server
over PostgreSQL (Prisma), with a local store for provider photos and an e-mail
adapter. Every request is a handler that awaits one database statement after
another. Nothing in the repository sets an isolation level, retries a transaction
or takes an explicit lock, so what two requests may do to each other is what
PostgreSQL's default, **Read Committed**, allows: between two statements of one
handler anything may be committed by another, an `update` by id hits the row
whatever has become of it, an `updateMany` re-evaluates its `where` on rows it had
to wait for, and only unique constraints hold against everybody. This directory
models those interleavings. Paths below are relative to the repository; source
files of the application are under `src/`.

## 1. Inventory

| Component | State it keeps | Operations | Hard behaviour | Model |
|---|---|---|---|---|
| Visits (`visits/`) | `Visit`, its `VisitItem`s, stored totals, payment, payment audit | create, update, add/update/remove item, start/complete/cancel, item transitions, markPaid | checks made on a snapshot and committed by id; totals recalculated from what one transaction sees | `VisitRules`, `Visits`, `VisitLifecycle` |
| Sessions (`auth/`) | `RefreshSession` rows | login, refresh (rotation, reuse detection), logout, logout-all | two uses of one token; sweeps that work on a snapshot; crashes | `Sessions`, `TokenFamilies` |
| Memberships (`memberships/`) | `TenantMembership`, `MembershipBranch` | create, updateRole, setStatus, branch assignment | counting the other owners before writing | `Staff`, `Sessions`, `Eligibility` |
| Invitations (`invitations/`) | `AccountInvitation`, the invited `User` | issue, deliver, accept; resend, redirect, cancel (in `service-providers/`) | acceptance racing management; mail that is lost | `Invitations` |
| Service providers (`service-providers/`) | `ServiceProviderProfile`, `ProviderService` | onboard, create, setActive, qualifications, eligible | two-sided replacement; an answer put together from two queries | `Staff`, `Invitations`, `Qualifications`, `Eligibility` |
| Provider photos (`provider-photo.service.ts`) | key in the row, file in the store | upload, replace, remove | no transaction spans row and store | `ProviderPhotos` |
| Service catalog (`service-catalog/`) | categories, services, branch settings | creation, changes and activation of categories and services, branch configuration and its reset | check, write, audit and answer are separate statements; price and availability are put together from optional rows in three places | `Catalog`, `Qualifications`, `Eligibility` |
| Customers (`customers/`) | `Customer` with a normalized phone | create, update, setActive | check then write under a partial unique index | `Customers` |
| Branches (`branches/`) | `Branch` | create, update, setActive | the active flag and the time zone are read by other queries | activation in `Catalog`, `Eligibility` and `Reports`, time zone in `Reports` |
| Tenants (`tenants/`) | `Tenant`, `TenantSettings` | create with owner, status, settings | status is read by every guard | creation in `Staff`, status in `Sessions`, time zone in `Reports` |
| Guards (`authorization/`) | none | authentication, permission, branch selection | read once, before the handler | as guards of the actions; branch selection not yet |
| Reports (`reports/`) | none (reads) | dashboard, performance of the salon, its providers and its treatments | days of a time zone whose clocks change; several statements without a snapshot; time stamps taken before they are written | `DayWindows`, `Reports` |
| Audit (`audit/`) | `AuditLog` | record | inside some transactions, outside others | payments in `Visits`, prices and branch settings in `Catalog` |
| Users, infrastructure | — | own profile; connections, health, configuration, error format | — | not modelled: no state of their own |

How they interact: the guards read memberships, users and tenants before any
handler; `MembershipsService.setStatus` writes a membership and then revokes
sessions; onboarding writes a user, a membership, a profile and an invitation in
one transaction; `VisitsService` asks `ServiceProvidersService.isEligible` before
it assigns a provider; eligibility asks the catalog in one query and the
providers in the next; a visit's item copies the price that the catalog has at its
branch; reports count visits by the time stamps that `VisitsService` took and by the
time zones that branches and tenants have now. There are no queues, schedulers or callbacks: the only
concurrency is that of requests.

Correctness, per component: a visit's totals are those of its items, its
timestamps tell a possible history and a payment is recorded once; a family of
refresh tokens has one good token and is not reopened; a salon keeps an owner; an
invitation is accepted once, by the person it was issued to; a provider's row
names a photo that exists; eligible means every documented condition; phone
numbers are unique among a salon's active customers; a treatment is charged at the
price its branch shows; a report is about the days it was asked for, its lists add
up to its summary, and what was earned on a day that is over does not change.

## 2. Modules

Every model has the same shape. `req` is a function over `Requests`, the slots
for requests being served; a slot is `Idle` or holds exactly what the handler
keeps in its local variables; one action is one statement, transaction or file
operation of a handler with everything it writes. Handlers that run inside
`$transaction` and take row locks have a step between the first write and the
commit. Definitions whose comment starts "Wrong on purpose" are bugs a change to
the code could introduce; no specification uses them, and each is substituted for
the definition below it to see that a property notices.

`overlapped`, `disturbed`, `changed` and `failed` are history variables: no step depends on
them. They let one run, and one theorem, state both what holds under any
interleaving and what holds until two requests overlap, until another request
changes something, or until a certain fault.

* **`VisitRules`** – `visit-rules.ts` and the arithmetic of `recalculate`: which
  transitions of a visit and an item are legal, what makes a visit completable,
  line validation, totals, and the width of the amount columns (`MaxAmount`).
* **`Visits`** – `VisitsService`. `requireVisit` is two SELECTs, since Prisma reads
  what a query includes after the row itself: `Read` keeps the status of the visit,
  and `Check…` reads the items, which others may have changed by then, and decides.
  Handlers that look at the visit alone begin with their `Check…`. A request goes on
  to take the row lock it needs (`Stage`), and ends in `Commit…` with the
  recalculation, or `Fail`/`Abort`. Row locks are held from the item's write to
  the commit; a transaction that waits for a deleted row fails. The audit row of a
  payment is part of the state; customer and notes are not.
* **`VisitLifecycle`** – the abstract life cycle: DRAFT, IN_PROGRESS, COMPLETED,
  CANCELLED, a total that is frozen on completion, one receipt of that total.
* **`TokenFamilies`** – what refresh tokens promise: one seat per family, spent
  tokens never good again, a family once closed never reopened.
* **`Sessions`** – `AuthService` and the revocation of `setStatus`. A sweep is two
  steps, `See` (the snapshot of the statement) and `Sweep`. A token's stored hash
  never mismatches, since an id is signed once. The check for another owner that
  precedes a suspension is in `Staff`.
* **`Staff`** – `MembershipsService` and the two ways to get a provider profile;
  read, count and write are separate steps.
* **`Invitations`** – issue, resend (two ways), redirect, cancel, accept, mail,
  expiry. `Reached` is the set of rows an `updateMany` gets at: those seen and
  still open, and any subset of the later ones.
* **`ProviderPhotos`** – row and store; each call may fail (`store`, `unlink`,
  `row`), a commit's answer may be lost (`commit`), a process may stop (`crash`).
* **`Qualifications`**, **`Eligibility`** – the `ProviderService` rows from both
  sides, and the question `eligible`/`isEligible` query by query, with everything
  it reads changing in between. One branch is modelled; a different branch is
  another copy.
* **`Customers`** – check, then write against `Customer_active_phone_key`; the
  phone is its normalized form. Its slots, specification and type invariant have
  names of their own, so that `People_proofs` can extend it together with `Staff`.
* **`Catalog`** – `ServiceCatalogService`, and `resolveItem` of `VisitsService` as
  the reader of its prices. Write, audit row and answer are separate steps; what
  was read to be put into the audit row is remembered. Names and codes appear only
  as the refusal by their unique index, which may come with any write. Whether a
  provider is eligible is a choice, since `Eligibility` is about that.
* **`DayWindows`** – the days of a time zone: what clocks show, and the two
  corrections by which `zonedDateToUtc` (in `ReportsService`, and once more in
  `VisitsService` for `myWork`) finds the start of a day. A zone changes its offset
  once: real changes are months apart, and a date is found by what clocks show
  within a day or so of it.
* **`Reports`** – `ReportsService` over rows that carry when a visit was created,
  treated, cancelled, completed and paid, and whose treatment it is, if anybody's. A
  report reads the zones and the clock, then makes one statement after another
  (`Summarise`, `Query`). Instead of counts and sums it has the rows that they are
  made of: the figures of its summary, and for each further query a list.
  `topTreatments` and `providerRows` of the dashboard group their rows, put those
  with most treatments first and are cut to `Limit` lines; the latter has only rows
  that name a provider. Of lines with equally many treatments any may come first
  (in the code their names decide). The window of the salon's performance stands for
  those of provider and service performance and of `myWork`, which make one query
  each. `VisitsService` takes a time stamp when it has checked what it read, and
  writes it later; only `removeItem` takes it with the write. Reading and checking
  are one step here (their races are in `Visits`), whether a provider is eligible is
  left open, and visits are created started, as reports count a draft just as they
  do a visit in progress. Some visits may be there from the start (`Earlier`), so that
  lists have more lines than a short run can make.
* **`MC…`** – instances for TLC: values of constants and symmetry. `MCVisits`
  gives roles and profiles. `MCEligibilityWatch` and `MCQualifications` add a
  history variable for two scenarios of section 4.
* **`…_proofs`** – theorems (section 5).

Composition: `Eligibility` extends `Qualifications`; `Visits` extends
`VisitRules` and refines `VisitLifecycle`; `Sessions` refines `TokenFamilies`;
`Reports` extends `DayWindows`, and its `Treat`, `Complete`, `Pay`, … are those
actions of `Visits` of which only the time stamp and the provider matter.
The components share rows only through the reads named above, and those appear in
the reader's model as variables that any step may change (`member` and `open` in
`Sessions`, `standing` in `Invitations`, `ready` in `Eligibility`,
`open` in `Catalog`, `zone` and `open` in `Reports`).

## 3. Runs

| Run | Bounds | What it shows |
|---|---|---|
| `visits_concurrent` | 2 requests, 2 items, 2 managers, one price that fits once but not twice | amounts within their columns and a total that matches subtotal and discount, `Timeline`, `WorkNeedsStart`; a payment is recorded once and audited |
| `visits_one_item` | 2 requests, 1 item, 2 prices, 2 discounts, fairness | no edit race leaves a discount above the price; every request is answered |
| `visits_serial` | 1 request, 2 items, an owner and a provider | stored totals match the items, a completed visit is complete, `VisitsService` implements `VisitLifecycle` |
| `sessions` | 2 requests that may crash, 3 sessions, 2 families, a user who is platform administrator and member | one good token per family, lineage, `TokenFamilies` implemented under any interleaving; until requests overlap or crash, a replay ends its family, logout-all ends every session and a suspended member has none |
| `staff` | 2 requests, 3 people | roles survive racing additions; an active owner until requests overlap |
| `invitations` | 2 requests, 3 invitations, 1 membership, 2 people | one outstanding, key only on the open one, an invitation is decided once and accepted only by its user, a password is not replaced; the membership and the open invitation agree until transactions overlap |
| `photos` | 3 requests, 4 keys, every fault | the row names a file unless a removal failed or a commit's answer was lost; uploads keep their files; nothing is left behind one at a time |
| `eligibility` | 2 requests, 1 provider, 1 service, 2 categories | undisturbed questions are answered exactly, undisturbed replacements leave what was asked |
| `customers` | 2 requests, 3 customers in 2 salons, 2 numbers | unique phones among the active; until requests overlap the check suffices |
| `catalog` | 2 requests, 1 treatment, 2 categories, 1 branch, 2 prices, an override of zero | a visit is charged what its branch shows, until something is written in between; audit rows and answers tell the change they are about, until two changes overlap |
| `reports` | 2 requests (one report at a time), 3 visits of which 2 are there before (one treated by a provider and cancelled, one done by nobody), 2 providers, lists of 1 line, 1 branch that moves between a zone ahead of UTC and one behind, 2 instants, days of 2, 2 dates | windows hold the days asked for; the days of the salon's performance have its visits and payments under any interleaving; undisturbed, all lists are made of the treatments that were counted, and no line that is left out would lead; what was created and paid on a day that is over is settled under any interleaving, what was done unless two requests write at once |
| `visits_stale_totals` | 2 requests, 2 items | **violated**: the stored totals of two concurrent item writes miss an item |

Why the bounds are enough. Two requests give every interleaving of two handlers,
and every race of section 4 already appears with two; three are used where they
are cheap (photos), because a third upload can hold the key that the second
replaced. Two items are the least for which a recalculation can miss one. Three
sessions allow a token, its successor and the replay's victim; three invitations
an open one and two that race to replace it. Prices are chosen at the boundary:
one amount fits the column and two do not. Counters are absent: nothing in the
state grows except by identifiers, and the sets of identifiers (`Sessions`,
`Families`, `Invites`, `Keys`, `Ids`, `ItemIds`) are the bounds. Where they run
out, a model stops; those runs do not check deadlock. In `catalog` one
treatment is enough, since no statement reads another's row, and two categories
let it move; zero is the override that is easily taken for none. In `reports` a
day of two instants is the shortest that a change of one instant can shorten, a
tick takes the clock past the midnight of either zone, clocks change at the next
instant in one and at the next but one in the other, and windows are judged up to
a day beyond. One line is the shortest list from which one can be left out, and two
providers and two treatments are the least for which one is. A report only reads, so one at a time stands for any number. `staff` does not either:
without an owner nobody can ask for anything. Symmetry is used only for safety,
over requests and identifiers.

The type invariants of `Visits`, `Sessions`, `Staff`, `ProviderPhotos` and `Customers`,
the queue for a row (`RowLocked`) and the finality of a payment (`PaymentFinal`)
have no run: they are proved for all constants (section 5). So is everything the
runs check but `RequestsFinish`, hence also what the bounds above leave out: two
salons in `invitations`, two branches in `reports`, two treatments in `catalog`.

Fairness is assumed in `visits_one_item` only (`FairSpec`). A handler that is
being served takes its next step or fails (weak fairness of commit or failure):
Node runs it and PostgreSQL answers. A transaction that waits for a row is served
eventually (strong fairness of taking the lock): PostgreSQL queues waiters in
order. There is none for rollbacks from outside and none for new requests.

## 4. Disagreements with the repository's own statements

`visits_stale_totals` is one of the regular runs. `VisitsService.recalculate`
(`src/visits/visits.service.ts:581`) sums the items its own transaction sees and
overwrites the visit's totals without locking the visit first. Two transactions
on different items do not block each other before the visit's row, so each sums
without the other's item, although `visit-rules.spec.ts:6` speaks of
"authoritative totals". Locking the visit (or recalculating after its update)
would serialise them.

More configurations of the same models reproduce what overlapping requests or an
unlucky failure break. They are run by hand
(`tlc -config <file>.cfg <module>`), each ends in a counterexample, and the
properties of section 3 say what remains true.

| Configuration | Module, property | What happens |
|---|---|---|
| `VisitsStaleCompletion.cfg` | `MCVisits`, `CompletedWork` | `complete` is decided on a snapshot (`visits.service.ts:371`) and written by id: an item added in between is pending in a completed visit |
| `VisitsStalePayment.cfg` | `MCVisits`, `PaidOnlyCompleted` | `markPaid` does not repeat its status check in the update (`:496`): a cancelled visit is paid |
| `SessionsReuseRace.cfg` | `MCSessions`, `ReuseAlwaysEnds` | the sweep of a replay (`auth.service.ts:127`) misses a successor committed after its snapshot; README.md:78 promises the family is revoked |
| `SessionsLogoutRace.cfg` | `MCSessions`, `LogoutAlwaysEnds` | the same for logout-all (`:199`) |
| `StaffLastOwners.cfg` | `MCStaff`, `SomeOwner` | two owners leave together, each counted as the other's replacement (`memberships.service.ts:153`) |
| `StaffDemotedProvider.cfg` | `MCStaff`, `ProfileOnProvider` | a provider with a profile gets another role, against `docs/service-provider-domain.md:75` |
| `InvitationsRedirected.cfg` | `MCInvitations`, `HolderAccepted` | an invitation is accepted while it is redirected: the membership goes to the other user (`service-providers.service.ts:396`) |
| `PhotosUnlink.cfg` | `MCProviderPhotos`, `PhotoThere` | the old file cannot be removed after the commit; the catch (`provider-photo.service.ts:65`) removes the new one |
| `EligibilityNever.cfg` | `MCEligibilityWatch`, `OnceEligible` | the two queries of `eligible` name a provider who was eligible at no instant |
| `QualificationsMixed.cfg` | `MCQualifications`, `OneOfTheAnswered` | two replacements are both answered, and the provider has the rows of both |
| `CatalogClosedBranch.cfg` | `MCCatalog`, `NeverDenied` | the setting of a closed branch is written and audited, and then answered with 404 by the final read (`service-catalog.service.ts:437`) |
| `ReportsSkippedMidnight.cfg` | `MCReports`, `DaysAlways` | west of UTC, clocks that skip a midnight make the day start an hour early (`reports.service.ts:358`), against the test "uses the selected branch only and branch-local date boundaries" (`reports.service.spec.ts:95`) |
| `ReportsRemovedWork.cfg` | `MCReports`, `TreatmentsSettled` | a treatment that was completed yesterday is removed from a visit still in progress (`visits.service.ts:335`): yesterday's figures change |

## 5. Proofs

All theorems hold for every number of requests, rows, people and salons, and
between them they state every property of the passing runs except liveness.
Assumptions on constants are only that the null value is none of the identifiers
(and no integer in `Reports`, no Boolean in `Catalog`), that the mark of a password
one set oneself is neither null nor an invitation, that platform administrators are users,
that the founder is a member, that the items of a visit are finitely many, that the two
queries of a report that are about no branch have names of their own, and the
ranges of amounts, times and zones.

Two arguments return. What a request *remembers* of rows that nobody takes back
(identifiers drawn, rows found, states left) holds under any interleaving. What it
remembers of anything else is *still so* until requests overlap, or until another
request changes something: `Alone`, `Current` and `Fresh` say it in each module,
and a history variable ends the claim where the code does.

* **`Visits_proofs`.** `TypeCorrect` by an invariant that adds the shape of what
  each request remembers. `TimelineHolds` and `WorkNeedsStartHolds` need to know
  what a stale request has *seen*: a request that will complete saw the visit
  started, perhaps before it read the items (`Seen`), and a visit never becomes
  un-started. `ItemMoneyHolds` needs that a
  remembered line was validated and is written whole. `PaymentAuditedHolds` and
  `PaymentFinalHolds` follow from the update that is filtered on UNPAID.
  `RowLockedHolds` from the queue. As long as no two requests, of however many, are
  served at once (`OneAtATime`), what the one has read is still so (`Current`);
  `SerialTotals` and `SerialCompletion` say that the totals match the items and
  that a completed visit is complete, and `SerialRefinement` that `Visits`
  implements `VisitLifecycle`; those leave `Totals` unexpanded, since they rest on
  which items it was computed from.
  `TotalsAdd` says what it computes: nothing for no line, and each line adds its
  price and its discount, whichever is taken first. The sums are folds over finite
  sets, for which there is no rule that takes a predicate; the induction is on the
  size of the set, from the fact that a non-empty set of numbers has a least one
  (`Induction`, `PartsInduction`), and shows that two functions that sum step by step
  agree. `MoneySoundHolds` follows for any interleaving: a total may be out of date
  when it is stored, but it was summed from rows that were valid together, so the
  discounts do not exceed the prices, and it was found to fit (`TotalsInv`).
* **`Sessions_proofs`.** `OneLiveHolds` needs that the identifiers a request has
  drawn are stored nowhere and held by nobody else, and that a request remembers
  the family its session has. `LineageHolds` extends it along `next`.
  `FamiliesImplemented` maps a family's seat to its live session and its spent
  tokens to the revoked ones; each action of the service is a step of
  `TokenFamilies` or leaves it unchanged. Until requests overlap or stop halfway
  (`Serial`), a sweep has seen all that it is after, whoever is about to get a session is
  a member, and a live session is that of a member or of one whose suspension is on
  its way to the sweep (`Covered`); hence `SuspendedOutHolds` and `SweepsEndHolds`.
* **`Invitations_proofs`.** `TypeCorrect` needs what requests remember of accounts
  and memberships that they found, none of which is taken back, and that rows not
  inserted are blank. `KeyIffOpenHolds` and `OneOutstandingHolds` are inductive
  together: the unique key refuses a second open invitation, and every way to close
  one frees the key. `DecidedOnceHolds` is about steps: each `updateMany` reaches only
  invitations still open, and a password is set only by the commit that uses the
  token up. Until transactions overlap (`Serial`), an open or accepted invitation is
  addressed to the holder of its membership, nobody has an open one after accepting,
  and an acceptance that sets a password still finds none: `AcceptedStaysHolds`,
  `OpenForHolderHolds`, `PasswordKeptHolds`.
* **`ProviderPhotos_proofs`.** The key of an upload on its way to the row is
  known to nobody else (`Private`); hence `UploadKeptHolds`, whatever fails. As
  long as no removal failed and no throwing transaction committed, what is about
  to be removed is not what the row names, hence `KeyHasFileHolds`. One request at
  a time, the store holds the row's file and the one that the request under way is
  about to name or to remove (`Accounted`), so nothing is left in the end
  (`NothingLeftHolds`).
* **`People_proofs`**, staff. `TypeCorrect` needs that whoever is to be written to was
  found, and that members stay members; `RoleKeptHolds` is the action property.
  `ActiveOwnerHolds`: until two requests overlap, the one being served still sees
  what it read (`Alone`, `Counted`), so the owner it counted is there when it
  writes. Customers: `PhoneUniqueHolds` from the index alone, whatever was checked;
  `CheckSufficesHolds`: until requests overlap, the check asks all that the index does.
* **`Catalog_proofs`.** `TypeCorrect` rests on rows never being removed, so
  whatever a request found is there when it writes. `QuoteShownHolds`: as long as
  nothing is written during a quote, what it has read is what its branch offers
  (`Fresh`), and the three places that put a price together agree on it.
  `TrailTrueHolds` and `AnswerTrueHolds`: until two changes overlap, what a change
  has read or written is still so (`Current`).
* **`Eligibility_proofs`**, for `Qualifications` too. A step of another request
  either disturbs a question or leaves alone the tables and what it remembers. An
  undisturbed question has no answer before it looks for providers, and looks for
  them only while the treatment is available (`QuestionRight`), so the two
  queries together are one (`AnswerExactHolds`). What an undisturbed change deletes
  and inserts, on the rows that are there, comes to what was asked, from either
  side (`ChangeRight`, `AsAskedHolds`).
* **`Reports_proofs`.** `MidnightFound` is arithmetic: if clocks show the start of a
  date once, either offset leads both corrections to the same side of the change,
  so the second lands on it, and dates do not go back after it. `DaysExactHolds`
  carries it to the windows of every report; its invariant is that windows are
  made of known zones and whole dates. `TypeCorrect` says that whoever writes holds a
  time stamp no later than now and has found its visit. `RevenueSettledHolds`: the
  day is over when it is reported, every stamp still held is later than its end, and
  a payment is written to an unpaid visit only. `WorkSettledHolds` needs besides that the visit
  is as it was checked until it is written (`CheckedInv`), hence the exception for
  two that write at once. `AddsUpHolds` has two
  parts (`ReportsInv`). When a visit was created or paid is never taken back, and
  windows stay as they are, so the days that are asked for after the summary have at
  least what it has (`KeptCommit`). Unless a visit is written in between, what a
  report already has is what it would get now, the windows of branches make up those
  of all, and of what is cut to `Limit` lines no line left out has more treatments
  than one that stays (`FirstLeads`).

Only model-checked: that requests finish (`RequestsFinish`, liveness under
fairness), and that the counterexamples of section 4 exist.

## 6. What is left out, and what comes next

Left out for good: texts (names, notes, messages), password hashing and rate
limits, e-mail content, pagination and sorting, health checks and configuration.

### Not modelled

* Branch selection (`branch-context.guard.ts`): which branch a request is admitted
  to is decided once, before the handler, from assignments that `Eligibility` has.
* Audit rows other than those of payments, prices and branch settings. Updates of
  visits, memberships and branches write theirs after, and outside, the change.
* Creation of branches, their names and codes, and a tenant's settings other than
  its time zone. A branch's zone is validated (`@IsTimeZone`), a tenant's is any
  string, and `Intl` throws for one it does not know; the model has valid zones.
* Amounts in reports. Revenue is the sum of totals that visits have now: an item
  written on a stale check after the payment (section 4) changes it with the total.
* A branch that is closed is left out of "all branches", with its past: `Scopes` in
  `Reports` says so, and no property asks otherwise.
* Users and infrastructure keep no state of their own.

### What comes next

1. Abstract specifications of invitations (issued, accepted or revoked, once) and of
   the provider's photo (a row and its file), and proofs that the services implement them.
2. What an abandoned upload leaves: at most the files of the requests that crashed.
