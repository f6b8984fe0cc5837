------------------------------ MODULE MCVisits ------------------------------
(* Visits on small instances: the values of its constants, and symmetry.   *)
EXTENDS Visits, TLC

CONSTANTS r1, r2, i1, i2, owner, desk, stylist, anna, bela

OwnerAlone == [a \in {owner} |-> "SALON_OWNER"]
Staff == (owner :> "SALON_OWNER") @@ (desk :> "RECEPTIONIST") @@ (stylist :> "SERVICE_PROVIDER")
OwnerAndStylist == (owner :> "SALON_OWNER") @@ (stylist :> "SERVICE_PROVIDER")
OwnerAndDesk == (owner :> "SALON_OWNER") @@ (desk :> "RECEPTIONIST")

NoProfiles == [a \in Actors |-> None]
StylistIsAnna == [a \in Actors |-> IF a = stylist THEN anna ELSE None]

Interchangeable == Permutations(Requests) \cup Permutations(ItemIds)
=============================================================================
