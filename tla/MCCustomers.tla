----------------------------- MODULE MCCustomers -----------------------------
(* Customers of two salons, few enough for TLC.                             *)
EXTENDS Customers, TLC

CONSTANTS glow, zen, c1, c2, c3

TwoSalons == [c \in Ids |-> IF c = c3 THEN zen ELSE glow]

Symmetry == Permutations(Phones) \cup Permutations(Slots) \cup Permutations({c1, c2})
=============================================================================
