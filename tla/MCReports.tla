------------------------------ MODULE MCReports ------------------------------
(* Days of two ticks, in zones on both sides of UTC.                       *)
EXTENDS Reports, TLC

\* Ahead of UTC, the clocks go forward a tick after midnight; behind it, they go
\* forward at midnight.
East == [before |-> 1, after |-> 2, at |-> 2]
West == [before |-> -1, after |-> 0, at |-> 3]
MCEast == {East}
MCZones == {East, West}
MCDates == {-1, 0}

\* Three visits, of which the last two are over when it begins: both were cancelled
\* after the same treatment had been completed, once by p2 and once by nobody.
CONSTANTS v1, v2, v3, b1, p1, p2

MCNameOf == (v1 :> "cut") @@ (v2 :> "wash") @@ (v3 :> "wash")
OverBy(p) == [NoVisit EXCEPT !.branch = b1, !.status = "CANCELLED", !.item = "COMPLETED",
                             !.created = 0, !.treated = 0, !.provider = p]
MCEarlier == (v1 :> NoVisit) @@ (v2 :> OverBy(p2)) @@ (v3 :> OverBy(None))

Symmetry == Permutations(Requests)
=============================================================================
