----------------------------- MODULE MCApiClient -----------------------------
(* Model values and symmetry for checking ApiClient with TLC.              *)
EXTENDS ApiClient, TLC

CONSTANTS c1, c2, c3

MCCalls  == {c1, c2, c3}
Symmetry == Permutations(MCCalls)
=============================================================================
