---------------------------- MODULE MCInvitations ----------------------------
(* Invitations with few enough rows for TLC, in one salon.                 *)
EXTENDS Invitations, TLC

CONSTANT glow

OneSalon == [s \in Seats |-> glow]

Symmetry == Permutations(Invites) \cup Permutations(Users) \cup Permutations(Requests)
=============================================================================
