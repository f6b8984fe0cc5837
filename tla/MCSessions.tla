----------------------------- MODULE MCSessions -----------------------------
(* Sessions with few enough identifiers for TLC.                           *)
EXTENDS Sessions, TLC

Symmetry == Permutations(Sessions) \cup Permutations(Families)
                \cup Permutations(Requests) \cup Permutations(Tenants)
=============================================================================
