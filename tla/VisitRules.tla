----------------------------- MODULE VisitRules -----------------------------
(***************************************************************************)
(* The pure rules of a salon visit: visits/visit-rules.ts, and the tables  *)
(* of status changes that VisitsService checks before it writes.           *)
(*                                                                         *)
(* An item of a visit is a record [status, price, discount, provider].     *)
(* The status "ABSENT" is a row that was never inserted and "DELETED" one  *)
(* that was deleted: an item identifier (a UUID) is never used twice.      *)
(***************************************************************************)
EXTENDS Integers, FiniteSetsExt

Editable == {"DRAFT", "IN_PROGRESS"}

VisitStatus == Editable \cup {"COMPLETED", "CANCELLED"}

ItemStatus == {"PENDING", "IN_PROGRESS", "COMPLETED", "CANCELLED"}

Present(items) == {i \in DOMAIN items : items[i].status \in ItemStatus}

Active(items) == {i \in Present(items) : items[i].status # "CANCELLED"}

\* What recalculate selects: the money of every item that is not cancelled.
BillLines(items) ==
    [i \in Active(items) |-> [price    |-> items[i].price,
                              discount |-> items[i].discount]]

\* Wrong on purpose: the total forgets the discount.
TotalsUndiscounted(lines) ==
    LET subtotal == MapThenSumSet(LAMBDA i : lines[i].price, DOMAIN lines)
        discount == MapThenSumSet(LAMBDA i : lines[i].discount, DOMAIN lines)
    IN  [subtotal |-> subtotal, discountAmount |-> discount, total |-> subtotal]

\* calculateVisitTotals
Totals(lines) ==
    LET subtotal == MapThenSumSet(LAMBDA i : lines[i].price, DOMAIN lines)
        discount == MapThenSumSet(LAMBDA i : lines[i].discount, DOMAIN lines)
    IN  [subtotal       |-> subtotal,
         discountAmount |-> discount,
         total          |-> subtotal - discount]

ZeroTotals == [subtotal |-> 0, discountAmount |-> 0, total |-> 0]

\* validateItemMoney
ValidMoney(line) == 0 <= line.discount /\ line.discount <= line.price

\* validateVisitCompletion
CanComplete(items) ==
    /\ Active(items) # {}
    /\ \A i \in Active(items) : items[i].status = "COMPLETED"

\* transitionVisit: the statuses an operation starts from, and where it leads.
VisitMoves == {"start", "complete", "cancel"}

VisitFrom(op) == IF op = "start" THEN {"DRAFT"}
                 ELSE IF op = "complete" THEN {"IN_PROGRESS"}
                 ELSE Editable

VisitTarget(op) == IF op = "start" THEN "IN_PROGRESS"
                   ELSE IF op = "complete" THEN "COMPLETED"
                   ELSE "CANCELLED"

\* transitionItem: the same for one item.
ItemMoves == {"startItem", "completeItem", "cancelItem"}

ItemFrom(op) == IF op = "startItem" THEN {"PENDING"} ELSE {"PENDING", "IN_PROGRESS"}

\* removeItem, once the visit is started, leads where cancelItem does.
ItemTarget(op) == IF op = "startItem" THEN "IN_PROGRESS"
                  ELSE IF op = "completeItem" THEN "COMPLETED"
                  ELSE "CANCELLED"
=============================================================================
