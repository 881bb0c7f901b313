-------------------------- MODULE MCInferenceScanner --------------------------
(* Two session IDs, two models, a cache of one scan. *)
EXTENDS InferenceScanner, TLC
CONSTANTS m1, m2
Symmetry == Permutations(Model)
=============================================================================
