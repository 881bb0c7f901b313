--------------------------- MODULE MCSamplerEngine ---------------------------
(* Two passes, one warm-up rotation, a ring of two. *)
EXTENDS SamplerEngine
=============================================================================
