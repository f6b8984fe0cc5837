---------------------------- MODULE MCEligibility ----------------------------
(* Eligibility with few enough providers and services for TLC.              *)
EXTENDS Eligibility, TLC

Symmetry == Permutations(Providers) \cup Permutations(Categories) \cup Permutations(Requests)
=============================================================================
