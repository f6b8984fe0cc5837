--------------------------- MODULE VisitLifecycle ---------------------------
(***************************************************************************)
(* What a salon expects of a visit, with nothing of how it is stored: it   *)
(* is edited until it is completed or cancelled, then its total stands;    *)
(* it is completed once started; a completed visit is paid at most once,   *)
(* and the receipt shows the total.                                        *)
(***************************************************************************)
EXTENDS Naturals

CONSTANTS Amounts,    \* what a visit can cost
          NoReceipt   \* no payment has been recorded

VARIABLES status, total, receipt

lifecycleVars == <<status, total, receipt>>

Init == status = "NONE" /\ total = 0 /\ receipt = NoReceipt

Open ==
    /\ status = "NONE"
    /\ status' \in {"DRAFT", "IN_PROGRESS"}
    /\ total' \in Amounts
    /\ UNCHANGED receipt

Edit ==
    /\ status \in {"DRAFT", "IN_PROGRESS"}
    /\ total' \in Amounts
    /\ UNCHANGED <<status, receipt>>

Start == status = "DRAFT" /\ status' = "IN_PROGRESS" /\ UNCHANGED <<total, receipt>>

Complete == status = "IN_PROGRESS" /\ status' = "COMPLETED" /\ UNCHANGED <<total, receipt>>

Cancel ==
    /\ status \in {"DRAFT", "IN_PROGRESS"}
    /\ status' = "CANCELLED"
    /\ UNCHANGED <<total, receipt>>

Pay ==
    /\ status = "COMPLETED" /\ receipt = NoReceipt
    /\ receipt' = total
    /\ UNCHANGED <<status, total>>

Next == Open \/ Edit \/ Start \/ Complete \/ Cancel \/ Pay

Spec == Init /\ [][Next]_lifecycleVars
=============================================================================
