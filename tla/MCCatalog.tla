------------------------------ MODULE MCCatalog ------------------------------
(* The catalog with few enough rows for TLC.                               *)
EXTENDS Catalog, TLC

Symmetry == Permutations(Categories) \cup Permutations(Requests)
=============================================================================
