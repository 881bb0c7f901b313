------------------------- MODULE MCSamplerLifecycle -------------------------
(* Two processes that want overlapping devices, one of them twice. *)
EXTENDS SamplerLifecycle, TLC

CONSTANTS p1, p2, d1, d2

MCRequested == (p1 :> <<d1, d2, d1>>) @@ (p2 :> <<d2>>)
=============================================================================
