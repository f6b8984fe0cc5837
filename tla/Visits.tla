------------------------------- MODULE Visits -------------------------------
(***************************************************************************)
(* VisitsService (visits/visits.service.ts) over one visit and its items,  *)
(* as concurrent HTTP requests drive it.                                   *)
(*                                                                         *)
(* A handler reads the visit and then its items (the two SELECTs of        *)
(* requireVisit), decides on what it has read, and then writes in a        *)
(* transaction at PostgreSQL's default isolation, Read Committed: between  *)
(* any two of these, other requests commit.  Read is the first SELECT, and *)
(* Check* the second with every guard of the handler; handlers that use    *)
(* only the visit begin with theirs.  It leaves in req[r] what the handler *)
(* still remembers.  The transaction is either                             *)
(*   Commit*            one step, when it writes one row; or               *)
(*   Stage, CommitItem  two steps, when recalculate follows the item's     *)
(*                      write: Stage takes the item's row lock and sums    *)
(*                      the committed items with the own write on top,     *)
(*                      CommitItem publishes the row and the totals.       *)
(* Fail is the transaction's own error and Abort a crash or a timeout:     *)
(* both roll back.  A request that is refused, or that finds its target    *)
(* status already there, changes nothing and is not a step.                *)
(***************************************************************************)
EXTENDS VisitRules, Sequences

CONSTANTS
    Requests,   \* slots for requests being served at the same time
    ItemIds,    \* identifiers a visit item may be created with
    Actors,     \* authenticated users
    Role,       \* the tenant role of each actor
    Profile,    \* the active provider profile of each actor, or None
    Providers,  \* service provider profiles
    Prices,     \* prices an item can be charged
    Discounts,  \* discounts an item can be given
    MaxAmount,  \* the largest amount a DECIMAL(12,2) column holds
    None        \* SQL NULL

ASSUME ConstantsAssumption ==
    /\ IsFiniteSet(ItemIds)
    /\ None \notin Requests \cup ItemIds \cup Actors \cup Providers
    /\ Role \in [Actors -> {"SALON_OWNER", "RECEPTIONIST", "SERVICE_PROVIDER"}]
    /\ Profile \in [Actors -> Providers \cup {None}]
    /\ Prices \subseteq Nat /\ Discounts \subseteq Nat /\ 0 \in Discounts
    /\ MaxAmount \in Nat

VARIABLES
    visit,     \* the Visit row, without its totals
    bill,      \* the Visit row's subtotal, discountAmount and total
    items,     \* the VisitItem rows
    req,       \* what each request being served remembers
    sums,      \* the totals each request has read or computed
    payments   \* the VISIT_MARKED_PAID rows of the audit log

vars == <<visit, bill, items, req, sums, payments>>

-----------------------------------------------------------------------------
Managers == {a \in Actors : Role[a] # "SERVICE_PROVIDER"}
Owners   == {a \in Actors : Role[a] = "SALON_OWNER"}

NullableProviders == Providers \cup {None}

\* The money and the provider of an item as a request gives them.
Lines == {l \in [price : Prices, discount : Discounts, provider : NullableProviders] :
            ValidMoney(l)}

Blank == [price |-> 0, discount |-> 0, provider |-> None]

NoItem == [status |-> "ABSENT", price |-> 0, discount |-> 0, provider |-> None]

NoVisit == [status |-> "NONE", payment |-> "UNPAID", paidBy |-> None,
            started |-> FALSE, completed |-> FALSE, cancelled |-> FALSE,
            defaultProvider |-> None]

Idle == [op |-> "none", staged |-> FALSE, actor |-> None, item |-> None,
         line |-> Blank, reassign |-> FALSE, draft |-> FALSE, seen |-> "NONE"]

\* The operations whose transaction recalculates the totals.
\* (RecalculatingEdits is wrong on purpose: a cancelled item stays on the bill.)
RecalculatingEdits == {"addItem", "updateItem", "removeItem"}

Recalculating == {"addItem", "updateItem", "removeItem", "cancelItem"}
ItemOps       == Recalculating \cup ItemMoves
Ops           == ItemOps \cup VisitMoves \cup {"update", "markPaid"}

Init ==
    /\ visit = NoVisit
    /\ bill = ZeroTotals
    /\ items = [i \in ItemIds |-> NoItem]
    /\ req = [r \in Requests |-> Idle]
    /\ sums = [r \in Requests |-> ZeroTotals]
    /\ payments = <<>>

-----------------------------------------------------------------------------
(* Pieces of the handlers.                                                 *)

NewItem(line) == [status |-> "PENDING", price |-> line.price,
                  discount |-> line.discount, provider |-> line.provider]

\* resolveItem: the provider asked for, else the visit's default provider if
\* it is eligible for the treatment, else none.
Resolve(line, default, eligible) ==
    [line EXCEPT !.provider = IF @ # None THEN @
                              ELSE IF default \in eligible THEN default ELSE None]

\* What addItem and create accept: only an owner gives a price or a discount
\* (otherwise the price is the catalog's), and a provider asked for is
\* eligible.  Catalog and eligibility belong to other components: any price
\* and any set of eligible providers may come back.
Acceptable(actor, line, eligible) ==
    /\ actor \in Owners \/ line.discount = 0
    /\ line.provider \in eligible \cup {None}

\* Wrong on purpose: only the price is written, against the discount of another.
EditedPrice(row, q) == [row EXCEPT !.price = q.line.price]

\* updateItem writes the money always, the provider only when asked to.
Edited(row, q) ==
    [row EXCEPT !.price = q.line.price, !.discount = q.line.discount,
                !.provider = IF q.reassign THEN q.line.provider ELSE @]

\* Wrong on purpose: removeItem never deletes.
DeletesNever(q) == FALSE /\ q.draft

\* removeItem deletes an item of a visit it saw as a draft, cancels another.
Deletes(q) == q.op = "removeItem" /\ q.draft

\* The item row as the transaction of q writes it.
Written(q, row) ==
    IF q.op = "addItem" THEN NewItem(q.line)
    ELSE IF q.op = "updateItem" THEN Edited(row, q)
    ELSE IF Deletes(q) THEN [NoItem EXCEPT !.status = "DELETED"]
    ELSE [row EXCEPT !.status = ItemTarget(q.op)]

ItemsWith(q) == [items EXCEPT ![q.item] = Written(q, @)]

Fits(totals) == totals.subtotal <= MaxAmount

\* No transaction under way holds the lock of the request's item row.
LockFree(r) == \A s \in Requests \ {r} : ~ (req[s].staged /\ req[s].item = req[r].item)

\* update and delete by id find the row; addItem inserts one.
RowThere(q) == q.op = "addItem" \/ q.item \in Present(items)

Remember(r, q) == req' = [req EXCEPT ![r] = q]

Finish(r) == req' = [req EXCEPT ![r] = Idle] /\ sums' = [sums EXCEPT ![r] = ZeroTotals]

-----------------------------------------------------------------------------
(* create: one insert of the visit with its items.                         *)
Create(actor, status, default, lines, eligible) ==
    LET rows == [i \in ItemIds |->
                    IF i \in DOMAIN lines
                    THEN NewItem(Resolve(lines[i], default, eligible[i]))
                    ELSE NoItem]
        totals == Totals(BillLines(rows))
    IN  /\ visit.status = "NONE"
        /\ DOMAIN lines # {}
        /\ \A i \in DOMAIN lines : Acceptable(actor, lines[i], eligible[i])
        /\ Fits(totals)
        /\ visit' = [NoVisit EXCEPT !.status = status,
                                    !.started = (status = "IN_PROGRESS"),
                                    !.defaultProvider = default]
        /\ items' = rows
        /\ bill' = totals
        /\ UNCHANGED <<req, sums, payments>>

(* The reads: each handler up to its transaction.                          *)
Keep(r, q) == Remember(r, q) /\ UNCHANGED <<visit, bill, items, payments>>

\* Beginning with what is read of the visit,
Begin(r, q) == req[r] = Idle /\ Keep(r, q)

\* or going on with what is read of the items.
GoOn(r, q) == req[r].op = "read" /\ Keep(r, q)

\* requireVisit, its first SELECT: the status is kept while the items are read.
\* Of a visit that is closed these handlers do nothing.
Read(r) ==
    /\ visit.status \in Editable
    /\ Begin(r, [Idle EXCEPT !.op = "read", !.seen = visit.status])
    /\ UNCHANGED sums

CheckAddItem(r, actor, i, line, eligible) ==
    /\ visit.status \in Editable
    /\ items[i].status = "ABSENT" /\ \A s \in Requests : req[s].item # i
    /\ Acceptable(actor, line, eligible)
    /\ Begin(r, [Idle EXCEPT !.op = "addItem", !.actor = actor, !.item = i,
                             !.line = Resolve(line, visit.defaultProvider, eligible)])
    /\ UNCHANGED sums

\* A field the caller leaves out keeps the value that was read.
CheckUpdateItem(r, actor, i, line, reassign) ==
    /\ i \in Present(items)
    /\ \/ actor \in Owners
       \/ line.price = items[i].price /\ line.discount = items[i].discount
    /\ ~ reassign => line.provider = None
    /\ GoOn(r, [Idle EXCEPT !.op = "updateItem", !.actor = actor, !.item = i,
                            !.line = line, !.reassign = reassign])
    /\ UNCHANGED sums

\* Wrong on purpose: the visit need not be editable.
CheckRemoveItemAnytime(r, actor, i) ==
    /\ i \in Present(items)
    /\ Begin(r, [Idle EXCEPT !.op = "removeItem", !.actor = actor, !.item = i,
                             !.draft = (visit.status = "DRAFT")])
    /\ UNCHANGED sums

CheckRemoveItem(r, actor, i) ==
    /\ i \in Present(items)
    /\ GoOn(r, [Idle EXCEPT !.op = "removeItem", !.actor = actor, !.item = i,
                            !.draft = (req[r].seen = "DRAFT")])
    /\ UNCHANGED sums

\* Wrong on purpose: validateVisitCompletion is not called.
CheckVisitMoveUnvalidated(r, actor, op) ==
    /\ req[r].seen \in VisitFrom(op)
    /\ GoOn(r, [Idle EXCEPT !.op = op, !.actor = actor])
    /\ UNCHANGED sums

CheckVisitMove(r, actor, op) ==
    /\ req[r].seen \in VisitFrom(op)
    /\ op = "complete" => CanComplete(items)
    /\ GoOn(r, [Idle EXCEPT !.op = op, !.actor = actor])
    /\ UNCHANGED sums

\* A service provider starts and completes only the items assigned to them,
\* and has no permission to cancel one.
MayMoveItem(actor, op, row) ==
    Role[actor] = "SERVICE_PROVIDER" =>
        /\ op # "cancelItem"
        /\ Profile[actor] # None /\ row.provider = Profile[actor]

CheckItemMove(r, actor, op, i) ==
    /\ req[r].seen = "IN_PROGRESS"
    /\ i \in Present(items)
    /\ items[i].status \in ItemFrom(op)
    /\ MayMoveItem(actor, op, items[i])
    /\ GoOn(r, [Idle EXCEPT !.op = op, !.actor = actor, !.item = i])
    /\ UNCHANGED sums

CheckUpdate(r, actor, default) ==
    /\ visit.status \in Editable
    /\ Begin(r, [Idle EXCEPT !.op = "update", !.actor = actor, !.line.provider = default])
    /\ UNCHANGED sums

CheckMarkPaid(r, actor) ==
    /\ visit.status = "COMPLETED"
    /\ visit.payment = "UNPAID"
    /\ Begin(r, [Idle EXCEPT !.op = "markPaid", !.actor = actor])
    /\ sums' = [sums EXCEPT ![r] = bill]

Check(r) ==
    \/ Read(r)
    \/ \E a \in Managers, i \in ItemIds, line \in Lines, eligible \in SUBSET Providers :
            CheckAddItem(r, a, i, line, eligible)
    \/ \E a \in Managers, i \in ItemIds, line \in Lines, reassign \in BOOLEAN :
            CheckUpdateItem(r, a, i, line, reassign)
    \/ \E a \in Managers, i \in ItemIds : CheckRemoveItem(r, a, i)
    \/ \E a \in Managers, op \in VisitMoves : CheckVisitMove(r, a, op)
    \/ \E a \in Actors, op \in ItemMoves, i \in ItemIds : CheckItemMove(r, a, op, i)
    \/ \E a \in Managers, default \in NullableProviders : CheckUpdate(r, a, default)
    \/ \E a \in Managers : CheckMarkPaid(r, a)

-----------------------------------------------------------------------------
(* The transactions.                                                       *)

\* The item's write, then recalculate's read of the committed items and of
\* that write.
Stage(r) ==
    LET totals == Totals(BillLines(ItemsWith(req[r])))
    IN  /\ req[r].op \in Recalculating /\ ~ req[r].staged
        /\ LockFree(r) /\ RowThere(req[r]) /\ Fits(totals)
        /\ Remember(r, [req[r] EXCEPT !.staged = TRUE])
        /\ sums' = [sums EXCEPT ![r] = totals]
        /\ UNCHANGED <<visit, bill, items, payments>>

CommitItem(r) ==
    /\ req[r].staged
    /\ items' = ItemsWith(req[r])
    /\ bill' = sums[r]
    /\ Finish(r)
    /\ UNCHANGED <<visit, payments>>

CommitItemMove(r) ==
    /\ req[r].op \in ItemMoves \ Recalculating
    /\ LockFree(r) /\ RowThere(req[r])
    /\ items' = ItemsWith(req[r])
    /\ Finish(r)
    /\ UNCHANGED <<visit, bill, payments>>

\* Wrong on purpose: complete does not set completedAt.
CommitVisitMoveUnstamped(r) ==
    /\ req[r].op \in VisitMoves
    /\ visit' = [visit EXCEPT !.status = VisitTarget(req[r].op),
                              !.started = @ \/ req[r].op = "start",
                              !.cancelled = @ \/ req[r].op = "cancel"]
    /\ Finish(r)
    /\ UNCHANGED <<bill, items, payments>>

\* The update names the visit by its id only: it repeats no guard.
CommitVisitMove(r) ==
    LET op == req[r].op
    IN  /\ op \in VisitMoves
        /\ visit' = [visit EXCEPT !.status = VisitTarget(op),
                                  !.started = @ \/ op = "start",
                                  !.completed = @ \/ op = "complete",
                                  !.cancelled = @ \/ op = "cancel"]
        /\ Finish(r)
        /\ UNCHANGED <<bill, items, payments>>

CommitUpdate(r) ==
    /\ req[r].op = "update"
    /\ visit' = [visit EXCEPT !.defaultProvider = req[r].line.provider]
    /\ Finish(r)
    /\ UNCHANGED <<bill, items, payments>>

\* Wrong on purpose: the update names the visit by its id only.
CommitMarkPaidAgain(r) ==
    /\ req[r].op = "markPaid"
    /\ visit' = [visit EXCEPT !.payment = "PAID", !.paidBy = req[r].actor]
    /\ payments' = Append(payments, [by |-> req[r].actor, total |-> sums[r].total])
    /\ Finish(r)
    /\ UNCHANGED <<bill, items>>

\* updateMany filters on UNPAID, and counts the rows it changed.
CommitMarkPaid(r) ==
    /\ req[r].op = "markPaid"
    /\ visit.payment = "UNPAID"
    /\ visit' = [visit EXCEPT !.payment = "PAID", !.paidBy = req[r].actor]
    /\ payments' = Append(payments, [by |-> req[r].actor, total |-> sums[r].total])
    /\ Finish(r)
    /\ UNCHANGED <<bill, items>>

\* Wrong on purpose: an update that finds no row keeps waiting for it.
FailUnlessGone(r) ==
    /\ \/ /\ req[r].op \in Recalculating /\ ~ req[r].staged
          /\ LockFree(r) /\ RowThere(req[r])
          /\ ~ Fits(Totals(BillLines(ItemsWith(req[r]))))
       \/ req[r].op = "markPaid" /\ visit.payment = "PAID"
       \/ req[r].op = "read"
    /\ Finish(r)
    /\ UNCHANGED <<visit, bill, items, payments>>

\* The item row is gone, the totals overflow their columns, or the visit has
\* been paid meanwhile: the transaction throws and rolls back.  Or what was read
\* does not allow what was asked.
Fail(r) ==
    /\ \/ req[r].op \in ItemOps /\ ~ RowThere(req[r])
       \/ /\ req[r].op \in Recalculating /\ ~ req[r].staged
          /\ LockFree(r) /\ RowThere(req[r])
          /\ ~ Fits(Totals(BillLines(ItemsWith(req[r]))))
       \/ req[r].op = "markPaid" /\ visit.payment = "PAID"
       \/ req[r].op = "read"
    /\ Finish(r)
    /\ UNCHANGED <<visit, bill, items, payments>>

\* The connection is lost, the transaction times out, the process dies.
Abort(r) ==
    /\ req[r] # Idle
    /\ Finish(r)
    /\ UNCHANGED <<visit, bill, items, payments>>

Commit(r) ==
    \/ CommitItem(r)
    \/ CommitItemMove(r)
    \/ CommitVisitMove(r)
    \/ CommitUpdate(r)
    \/ CommitMarkPaid(r)

CreateVisit ==
    \E actor \in Managers, status \in Editable, default \in NullableProviders,
       chosen \in SUBSET ItemIds :
        \E lines \in [chosen -> Lines], eligible \in [chosen -> SUBSET Providers] :
            Create(actor, status, default, lines, eligible)

Next ==
    \/ CreateVisit
    \/ \E r \in Requests :
          Check(r) \/ Stage(r) \/ Commit(r) \/ Fail(r) \/ Abort(r)

Spec == Init /\ [][Next]_vars

\* A handler that has begun runs on, and PostgreSQL queues the transactions
\* that wait for a row lock.  Nobody has to send a request, or to crash.
Fairness ==
    \A r \in Requests : SF_vars(Stage(r)) /\ SF_vars(CommitItemMove(r))
                        /\ WF_vars(Commit(r) \/ Fail(r))

FairSpec == Spec /\ Fairness

-----------------------------------------------------------------------------
(* What holds however requests interleave.                                 *)

VisitRows == [status : VisitStatus \cup {"NONE"}, payment : {"UNPAID", "PAID"},
              paidBy : Actors \cup {None},
              started : BOOLEAN, completed : BOOLEAN, cancelled : BOOLEAN,
              defaultProvider : NullableProviders]

LineRows == [price : Prices \cup {0}, discount : Discounts, provider : NullableProviders]

ItemRows == [status : ItemStatus \cup {"ABSENT", "DELETED"}, price : Prices \cup {0},
             discount : Discounts, provider : NullableProviders]

RequestRows == [op : Ops \cup {"none", "read"}, staged : BOOLEAN, actor : Actors \cup {None},
                item : ItemIds \cup {None}, line : LineRows,
                reassign : BOOLEAN, draft : BOOLEAN, seen : Editable \cup {"NONE"}]

\* The rows and the requests have their types.  The totals are left to
\* MoneySound: that a sum of naturals is one needs induction.
TypeOK ==
    /\ visit \in VisitRows
    /\ items \in [ItemIds -> ItemRows]
    /\ req \in [Requests -> RequestRows]

\* No interleaving of item writes leaves an item discounted below zero:
\* updateItem writes the price with the discount it validated it against.
ItemMoney == \A i \in Present(items) : ValidMoney(items[i])

\* Nor does one leave a negative total, totals that contradict each other or
\* overflow their columns: recalculate only ever sums rows that were validated,
\* even when the sum it stores is out of date.
MoneySound ==
    /\ ItemMoney
    /\ bill.total = bill.subtotal - bill.discountAmount
    /\ bill.total >= 0 /\ bill.discountAmount >= 0
    /\ Fits(bill)

\* The timestamps tell a possible history whatever stale transitions were
\* committed: work started before it was completed, and was completed before
\* it was paid; a status never stands without its own timestamp.
Timeline ==
    /\ visit.status = "IN_PROGRESS" => visit.started
    /\ visit.status = "COMPLETED" => visit.completed
    /\ visit.status = "CANCELLED" => visit.cancelled
    /\ visit.completed => visit.started
    /\ visit.payment = "PAID" => visit.completed

\* Nobody has worked on a treatment, or cancelled one, of a visit that was
\* never started: in a draft, removeItem deletes the row instead.
WorkNeedsStart ==
    \A i \in ItemIds :
        items[i].status \in {"IN_PROGRESS", "COMPLETED", "CANCELLED"} => visit.started

\* The audit log holds exactly one payment of a paid visit, by the user that
\* the visit names as having recorded it, and none of an unpaid one.
PaymentAudited ==
    IF visit.payment = "PAID"
    THEN Len(payments) = 1 /\ payments[1].by = visit.paidBy
    ELSE payments = <<>> /\ visit.paidBy = None

\* A payment, once recorded, is never undone, repeated or given to another
\* user, however many users press the button.
PaymentFinal ==
    [][visit.payment = "PAID" =>
         visit'.payment = "PAID" /\ visit'.paidBy = visit.paidBy /\ payments' = payments]_vars

\* Two transactions never both hold the row of one item, so the totals of the
\* later one include what the earlier one wrote to that item.
RowLocked ==
    \A r, s \in Requests :
        r # s /\ req[r].staged /\ req[s].staged => req[r].item # req[s].item

\* Every request that begins is answered.
RequestsFinish == \A r \in Requests : req[r] # Idle ~> req[r] = Idle

-----------------------------------------------------------------------------
(* What the handlers guarantee one at a time, and the tests and messages of *)
(* the code claim; concurrent requests break them (see the findings).      *)

Quiet == \A r \in Requests : req[r] = Idle

\* The stored totals are those of the items that are not cancelled
\* (recalculate; visit-rules.spec.ts "calculates authoritative totals").
TotalsMatch == visit.status # "NONE" => bill = Totals(BillLines(items))

\* The same, judged only when no request is being served.
TotalsMatchAtRest == Quiet => TotalsMatch

\* A completed visit has a treatment, and all that are not cancelled were
\* completed (validateVisitCompletion "Complete all active treatments first").
CompletedWork == visit.status = "COMPLETED" => CanComplete(items)

\* A visit becomes paid only while it is completed (markPaid "Only completed
\* visits can be marked as paid").
PaidOnlyCompleted ==
    [][visit.payment = "UNPAID" /\ visit'.payment = "PAID" => visit.status = "COMPLETED"]_vars

-----------------------------------------------------------------------------
(* The life cycle a salon expects, for one request at a time.              *)

Receipt == IF payments = <<>> THEN None ELSE payments[1].total

MoneyRows == [price : Prices \cup {0}, discount : Discounts]

BillTotals == UNION {{Totals(lines).total : lines \in [billed -> MoneyRows]} :
                       billed \in SUBSET ItemIds}

Lifecycle == INSTANCE VisitLifecycle WITH
    Amounts <- BillTotals, NoReceipt <- None,
    status <- visit.status, total <- bill.total, receipt <- Receipt

\* VisitsService implements the life cycle: no edit after completion, no
\* transition but the four, one payment of what the completed visit costs.
LifecycleSpec == Lifecycle!Spec
=============================================================================
