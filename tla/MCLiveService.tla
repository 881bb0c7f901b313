---------------------------- MODULE MCLiveService ----------------------------
(* LiveService for model checking. *)
EXTENDS LiveService
=============================================================================
