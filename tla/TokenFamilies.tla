---------------------------- MODULE TokenFamilies ----------------------------
(***************************************************************************)
(* What a login promises: it opens a family of refresh tokens in which one *)
(* token at a time is good, a rotation passes that on to a new token, and  *)
(* a family that was closed is never opened again.                         *)
(***************************************************************************)
CONSTANTS Families, Tokens, NoToken

VARIABLES
    seat,   \* the good token of each family that is open
    spent   \* the tokens of each family that are good no more

familyVars == <<seat, spent>>

Init ==
    /\ seat = [f \in Families |-> NoToken]
    /\ spent = [f \in Families |-> {}]

Unused(t) == \A f \in Families : t # seat[f] /\ t \notin spent[f]

\* A login: a family that never held a token gets one.
Open(f, t) ==
    /\ seat[f] = NoToken /\ spent[f] = {}
    /\ Unused(t)
    /\ seat' = [seat EXCEPT ![f] = t]
    /\ UNCHANGED spent

\* A rotation: the good token is spent on a new one.
Pass(f, t) ==
    /\ seat[f] # NoToken
    /\ Unused(t)
    /\ seat' = [seat EXCEPT ![f] = t]
    /\ spent' = [spent EXCEPT ![f] = @ \cup {seat[f]}]

\* A logout, a suspension or a replay found out: some families are over.
Close(F) ==
    /\ seat' = [f \in Families |-> IF f \in F THEN NoToken ELSE seat[f]]
    /\ spent' = [f \in Families |->
                    IF f \in F THEN spent[f] \cup ({seat[f]} \ {NoToken}) ELSE spent[f]]

Next ==
    \/ \E f \in Families, t \in Tokens : Open(f, t) \/ Pass(f, t)
    \/ \E F \in SUBSET Families : Close(F)

Spec == Init /\ [][Next]_familyVars
=============================================================================
