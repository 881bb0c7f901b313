---------------------------- MODULE MCVllmScraper ----------------------------
(* One endpoint with up to two interchangeable engines. *)
EXTENDS VllmScraper, TLC
CONSTANTS p1, e1, e2
Symmetry == Permutations(Engine)
=============================================================================
