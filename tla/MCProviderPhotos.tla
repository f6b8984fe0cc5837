-------------------------- MODULE MCProviderPhotos --------------------------
(* ProviderPhotos with few enough keys for TLC.                            *)
EXTENDS ProviderPhotos, TLC

Symmetry == Permutations(Keys) \cup Permutations(Requests)
=============================================================================
