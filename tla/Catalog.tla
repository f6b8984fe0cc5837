------------------------------- MODULE Catalog -------------------------------
(***************************************************************************)
(* The treatments of one salon: ServiceCatalogService                      *)
(* (service-catalog.service.ts), with the price that VisitsService charges *)
(* for them (resolveItem) and the active flag of the branches.             *)
(*                                                                         *)
(* A handler checks that the rows exist, writes, adds an audit row and     *)
(* answers, one statement after the other and without a transaction.       *)
(* Names and codes are left out but for what they do: a unique index may   *)
(* turn any write of a category or a service away (Refuse).  No code path  *)
(* sets deletedAt, so a row that exists goes on existing.                  *)
(***************************************************************************)
EXTENDS FiniteSets

CONSTANTS
    Categories,  \* the ServiceCategory rows there may be
    Services,    \* the CatalogService rows there may be
    Branches,
    Prices,      \* default prices
    Overrides,   \* the prices that a branch may ask instead
    Requests,    \* slots for requests being served at the same time
    None         \* SQL NULL, and no row

ASSUME NoneAssumption ==
    /\ None \notin Categories \cup Services \cup Branches \cup Prices \cup Overrides
    /\ None \notin BOOLEAN

VARIABLES
    category,  \* the isActive of each category, None without a row
    service,   \* the row of each service
    setting,   \* the BranchService row of each branch and service
    open,      \* the branches whose isActive is set
    req,       \* what each request being served remembers
    changed,   \* history: the quotes during which something else was written
    overlapped \* history: whether two changes have ever been made at once

vars == <<category, service, setting, open, req, changed, overlapped>>

-----------------------------------------------------------------------------
NoService == [category |-> None, price |-> None, active |-> FALSE]
NoSetting == [available |-> TRUE, override |-> None, row |-> FALSE]

ServiceRows == [category : Categories, price : Prices, active : BOOLEAN] \cup {NoService}
SettingRows == [available : BOOLEAN, override : Overrides \cup {None}, row : {TRUE}]
                   \cup {NoSetting}

Places == Branches \X Services

\* was, had: the price and the setting that were read to be put in the audit row.
Idle == [op |-> "none", step |-> "idle", category |-> None, service |-> None,
         branch |-> None, price |-> None, on |-> FALSE, was |-> None,
         had |-> NoSetting, provider |-> "none"]

Ops   == {"none", "addCategory", "updateCategory", "switchCategory", "addService", "updateService",
          "switchService", "configure", "reset", "quote"}
Steps == {"idle", "write", "audit", "answer", "available", "provider", "charge"}

Memories ==
    [op : Ops, step : Steps, category : Categories \cup {None},
     service : Services \cup {None}, branch : Branches \cup {None},
     price : Prices \cup Overrides \cup {None}, on : BOOLEAN,
     was : Prices \cup {None}, had : SettingRows,
     provider : {"none", "given", "default"}]

Init ==
    /\ category = [k \in Categories |-> None]
    /\ service = [s \in Services |-> NoService]
    /\ setting = [p \in Places |-> NoSetting]
    /\ open = Branches
    /\ req = [r \in Requests |-> Idle]
    /\ changed = {}
    /\ overlapped = FALSE

-----------------------------------------------------------------------------
(* What a branch shows, and what a visit at it is charged.                 *)
Known(s) == service[s] # NoService

Active(s) == service[s].active /\ category[service[s].category]

\* serializeService.
EffectivePrice(b, s) ==
    IF setting[<<b, s>>].override # None THEN setting[<<b, s>>].override ELSE service[s].price
EffectivelyAvailable(b, s) == Active(s) /\ setting[<<b, s>>].available

\* Wrong on purpose: a price of zero is taken for no price.
QuotedPriceTruthy(b, s) ==
    IF setting[<<b, s>>].override \in {None, 0} THEN service[s].price
    ELSE setting[<<b, s>>].override

\* resolveItem: the service must be active in an active category, unless the
\* branch has taken it off its list.
QuotedPrice(b, s) ==
    IF setting[<<b, s>>].override = None THEN service[s].price ELSE setting[<<b, s>>].override
Offered(b, s) == Active(s) /\ ~ (setting[<<b, s>>].row /\ ~ setting[<<b, s>>].available)

-----------------------------------------------------------------------------
Remember(r, q) == req' = [req EXCEPT ![r] = q]
GoTo(r, step)  == req' = [req EXCEPT ![r].step = step]
Finish(r)      == req' = [req EXCEPT ![r] = Idle]
Rows           == <<category, service, setting, open>>

Begin(r, q) ==
    /\ req[r] = Idle
    /\ Remember(r, [q EXCEPT !.step = "write"])
    /\ UNCHANGED Rows

Writing(r, op) == req[r].step = "write" /\ req[r].op = op

(* createCategory, updateCategory and setCategoryActive.                   *)
AddCategory(r) == Begin(r, [Idle EXCEPT !.op = "addCategory"])

WriteNewCategory(r, k) ==
    /\ Writing(r, "addCategory")
    /\ category[k] = None
    /\ category' = [category EXCEPT ![k] = TRUE]
    /\ GoTo(r, "audit")
    /\ UNCHANGED <<service, setting, open>>

SwitchCategory(r, k, on) ==
    /\ category[k] # None
    /\ Begin(r, [Idle EXCEPT !.op = "switchCategory", !.category = k, !.on = on])

\* A new name leaves isActive as it is by the time of the write.
UpdateCategory(r, k) ==
    /\ category[k] # None
    /\ Begin(r, [Idle EXCEPT !.op = "updateCategory", !.category = k])

WriteCategory(r) ==
    /\ Writing(r, "updateCategory") \/ Writing(r, "switchCategory")
    /\ category' = [category EXCEPT ![req[r].category] =
                       IF req[r].op = "updateCategory" THEN @ ELSE req[r].on]
    /\ GoTo(r, "audit")
    /\ UNCHANGED <<service, setting, open>>

(* createService, updateService and setServiceActive.  The category of a   *)
(* service need only exist.                                                *)
AddService(r, k, price) ==
    /\ category[k] # None
    /\ Begin(r, [Idle EXCEPT !.op = "addService", !.category = k, !.price = price])

WriteNewService(r, s) ==
    LET q == req[r] IN
    /\ Writing(r, "addService")
    /\ ~ Known(s)
    /\ service' = [service EXCEPT ![s] = [category |-> q.category, price |-> q.price,
                                          active |-> TRUE]]
    /\ Remember(r, [q EXCEPT !.step = "audit", !.service = s])
    /\ UNCHANGED <<category, setting, open>>

\* Wrong on purpose: the new category is not looked up.
UpdateServiceBlind(r, s, k, price) ==
    /\ Known(s)
    /\ Begin(r, [Idle EXCEPT !.op = "updateService", !.service = s, !.category = k,
                             !.price = price, !.was = service[s].price])

\* The request may name a new category, a new price, or both.
UpdateService(r, s, k, price) ==
    /\ Known(s)
    /\ k # None => category[k] # None
    /\ Begin(r, [Idle EXCEPT !.op = "updateService", !.service = s, !.category = k,
                             !.price = price, !.was = service[s].price])

SwitchService(r, s, on) ==
    /\ Known(s)
    /\ Begin(r, [Idle EXCEPT !.op = "switchService", !.service = s, !.on = on])

\* The row that a write leaves: fields that the request does not name stay.
ServiceAfter(q) ==
    LET row == service[q.service] IN
    IF q.op = "switchService" THEN [row EXCEPT !.active = q.on]
    ELSE [row EXCEPT !.category = IF q.category = None THEN @ ELSE q.category,
                     !.price = IF q.price = None THEN @ ELSE q.price]

WriteService(r) ==
    /\ Writing(r, "updateService") \/ Writing(r, "switchService")
    /\ service' = [service EXCEPT ![req[r].service] = ServiceAfter(req[r])]
    /\ GoTo(r, "audit")
    /\ UNCHANGED <<category, setting, open>>

(* configureBranch and resetBranch: the branch need not be active.         *)
\* Wrong on purpose: what was there before is not read.
ConfigureBlind(r, b, s, on, override) ==
    /\ Known(s)
    /\ Begin(r, [Idle EXCEPT !.op = "configure", !.service = s, !.branch = b,
                             !.on = on, !.price = override])

Configure(r, b, s, on, override) ==
    /\ Known(s)
    /\ Begin(r, [Idle EXCEPT !.op = "configure", !.service = s, !.branch = b,
                             !.on = on, !.price = override, !.had = setting[<<b, s>>]])

Reset(r, b, s) ==
    /\ Known(s)
    /\ Begin(r, [Idle EXCEPT !.op = "reset", !.service = s, !.branch = b])

SettingAfter(q) ==
    IF q.op = "reset" THEN NoSetting
    ELSE [available |-> q.on, override |-> q.price, row |-> TRUE]

\* Wrong on purpose: an override that is not given is left as it was.
WriteSettingPart(r) ==
    LET q == req[r] IN
    /\ Writing(r, "configure") \/ Writing(r, "reset")
    /\ setting' = [setting EXCEPT ![<<q.branch, q.service>>] =
                     IF q.op = "configure" /\ q.price = None
                     THEN [@ EXCEPT !.available = q.on, !.row = TRUE] ELSE SettingAfter(q)]
    /\ GoTo(r, "audit")
    /\ UNCHANGED <<category, service, open>>

WriteSetting(r) ==
    LET q == req[r] IN
    /\ Writing(r, "configure") \/ Writing(r, "reset")
    /\ setting' = [setting EXCEPT ![<<q.branch, q.service>>] = SettingAfter(q)]
    /\ GoTo(r, "audit")
    /\ UNCHANGED <<category, service, open>>

\* P2002: the name is taken among the active, or the code in the salon.
Refuse(r) ==
    /\ req[r].step = "write" /\ req[r].op \notin {"configure", "reset"}
    /\ Finish(r)
    /\ UNCHANGED Rows

-----------------------------------------------------------------------------
(* The audit row, which names prices and settings when they were given,    *)
(* and the answer: of a branch setting, from getService, which finds no    *)
(* branch unless it is active.                                             *)
NamesPrice(q) == q.op \in {"addService", "updateService"} /\ q.price # None
OfSetting(q)  == q.op \in {"configure", "reset"}

Audit(r) ==
    /\ req[r].step = "audit"
    /\ IF OfSetting(req[r]) THEN GoTo(r, "answer") ELSE Finish(r)
    /\ UNCHANGED Rows

Answer(r) ==
    /\ req[r].step = "answer"
    /\ Finish(r)
    /\ UNCHANGED Rows

(* resolveItem, for an item without a provider, for a given one, or for    *)
(* the default one of the visit, who is left out unless eligible.          *)
Quote(r, b, s, provider) ==
    /\ req[r] = Idle
    /\ Known(s) /\ Offered(b, s)
    /\ Remember(r, [Idle EXCEPT !.op = "quote", !.service = s, !.branch = b,
                                !.price = QuotedPrice(b, s), !.provider = provider,
                                !.step = IF provider = "none" THEN "charge" ELSE "available"])
    /\ UNCHANGED Rows

\* isEligible says no: VISIT_PROVIDER_NOT_ELIGIBLE ends the request.
Decline(r) ==
    IF req[r].provider = "default"
    THEN Remember(r, [req[r] EXCEPT !.step = "charge", !.provider = "none"])
    ELSE Finish(r)

\* isEligible's first query is about the treatment, not about its price.
AskAvailable(r) ==
    LET q == req[r] IN
    /\ q.step = "available"
    /\ IF EffectivelyAvailable(q.branch, q.service) THEN GoTo(r, "provider") ELSE Decline(r)
    /\ UNCHANGED Rows

\* Its second is about the provider, who is not modelled.  A default provider
\* who is eligible is asked about once more.
AskProvider(r) ==
    LET q == req[r] IN
    /\ q.step = "provider"
    /\ \/ /\ q.branch \in open /\ Active(q.service)
          /\ IF q.provider = "default"
             THEN Remember(r, [q EXCEPT !.step = "available", !.provider = "given"])
             ELSE GoTo(r, "charge")
       \/ Decline(r)
    /\ UNCHANGED Rows

\* The item is inserted with the price that was read first.
Charge(r) ==
    /\ req[r].step = "charge"
    /\ Finish(r)
    /\ UNCHANGED Rows

-----------------------------------------------------------------------------
(* Around it: BranchesService.setActive, and a process that stops.         *)
SwitchBranch(b) ==
    /\ open' = IF b \in open THEN open \ {b} ELSE open \cup {b}
    /\ UNCHANGED <<category, service, setting, req>>

Stop(r) ==
    /\ req[r] # Idle
    /\ Finish(r)
    /\ UNCHANGED Rows

Listing(r) ==
    \/ AddCategory(r)
    \/ \E k \in Categories : WriteNewCategory(r, k)
    \/ \E k \in Categories, on \in BOOLEAN : UpdateCategory(r, k) \/ SwitchCategory(r, k, on)
    \/ WriteCategory(r)
    \/ \E k \in Categories, p \in Prices : AddService(r, k, p)
    \/ \E s \in Services : WriteNewService(r, s)
    \/ \E s \in Services, k \in Categories \cup {None}, p \in Prices \cup {None} :
          UpdateService(r, s, k, p)
    \/ \E s \in Services, on \in BOOLEAN : SwitchService(r, s, on)
    \/ WriteService(r)
    \/ Refuse(r)

Setting(r) ==
    \/ \E b \in Branches, s \in Services :
          \/ \E on \in BOOLEAN, p \in Overrides \cup {None} : Configure(r, b, s, on, p)
          \/ Reset(r, b, s)
    \/ WriteSetting(r)
    \/ Answer(r)

Quoting(r) ==
    \/ \E b \in Branches, s \in Services, p \in {"none", "given", "default"} : Quote(r, b, s, p)
    \/ AskAvailable(r)
    \/ AskProvider(r)
    \/ Charge(r)

Changing(r) == req[r].op \notin {"none", "quote"}

\* The histories only watch; no step depends on them.
Watch ==
    /\ changed' = {r \in Requests : req'[r].op = "quote" /\ (r \in changed \/ Rows' # Rows)}
    /\ overlapped' = (overlapped \/ \E r, o \in Requests :
                                      r # o /\ Changing(r)' /\ Changing(o)')

Next ==
    /\ \/ \E r \in Requests : Listing(r) \/ Setting(r) \/ Audit(r) \/ Quoting(r) \/ Stop(r)
       \/ \E b \in Branches : SwitchBranch(b)
    /\ Watch

Spec == Init /\ [][Next]_vars

-----------------------------------------------------------------------------
\* The rows and the requests are well-formed; a service has a category that
\* exists, and a setting a service.
TypeOK ==
    /\ category \in [Categories -> BOOLEAN \cup {None}]
    /\ service \in [Services -> ServiceRows]
    /\ setting \in [Places -> SettingRows]
    /\ open \subseteq Branches
    /\ req \in [Requests -> Memories]
    /\ changed \subseteq {r \in Requests : req[r].op = "quote"}
    /\ overlapped \in BOOLEAN
    /\ \A s \in Services : Known(s) => category[service[s].category] # None
    /\ \A b \in Branches, s \in Services : setting[<<b, s>>].row => Known(s)

\* A treatment is charged at the price that the branch shows for it, and only
\* while it shows it as available, through all the queries of a quote, unless
\* something was written in between (visits.service.ts:534-563 and
\* service-catalog.service.ts:497-513, which put the same facts together).
QuoteShown ==
    \A r \in Requests :
        req[r].step = "charge" /\ r \notin changed =>
            LET b == req[r].branch
                s == req[r].service
            IN  EffectivelyAvailable(b, s) /\ req[r].price = EffectivePrice(b, s)

\* An audit row tells the change it is about: the price or the setting that it
\* says was there before is the one the write replaced, and what it says is
\* there now is still stored when it is added.  Until two changes overlap
\* (service-catalog.service.ts:310-336 and 393-436).
TrailTrue ==
    [][overlapped \/ \A r \in Requests :
          LET q == req[r] IN
          /\ WriteService(r) /\ NamesPrice(q) => q.was = service[q.service].price
          /\ WriteSetting(r) /\ q.op = "configure" => q.had = setting[<<q.branch, q.service>>]
          /\ Audit(r) /\ NamesPrice(q) => q.price = service[q.service].price
          /\ Audit(r) /\ OfSetting(q) => setting[<<q.branch, q.service>>] = SettingAfter(q)]_vars

\* A branch setting is answered with what was asked for: the override or the
\* default price, on the list only if active and not taken off it, and after
\* a reset as if there had never been a setting; unless the branch is closed,
\* when the answer is that there is no such branch although everything was
\* written.  Until two changes overlap (service-catalog.service.ts:437, 461).
AnswerTrue ==
    [][overlapped \/ \A r \in Requests :
          LET q == req[r] IN
          Answer(r) /\ q.branch \in open =>
            /\ EffectivePrice(q.branch, q.service) =
                  IF q.op = "configure" /\ q.price # None THEN q.price
                  ELSE service[q.service].price
            /\ EffectivelyAvailable(q.branch, q.service) <=>
                  Active(q.service) /\ (q.op = "configure" => q.on)]_vars

(* What a closed branch breaks.                                            *)

\* A change of a branch setting that was made is answered with it.
NeverDenied ==
    \A r \in Requests : req[r].step = "answer" => req[r].branch \in open
=============================================================================
