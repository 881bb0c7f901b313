----------------------------- MODULE MCReporter -----------------------------
(* Four snapshots in all orders of observing, ticking, posting and answering. *)
EXTENDS Reporter
=============================================================================
