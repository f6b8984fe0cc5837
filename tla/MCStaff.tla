------------------------------ MODULE MCStaff ------------------------------
(* Staff with few enough people for TLC.                                   *)
EXTENDS Staff, TLC

Symmetry == Permutations(Members \ {Founder}) \cup Permutations(Requests)
=============================================================================
