------------------------------ MODULE MCStartup ------------------------------
(***************************************************************************)
(* Two processes that start as often as they like, on a machine whose      *)
(* system has the stub libraries of a GPU manager, with two releases.      *)
(***************************************************************************)
EXTENDS Startup, TLC

MCVersion == <<"v1", "v2">>
MCSystem == {[host |-> "stub", target |-> "whole"]}

\* Nothing reads the ID of a start that is past Load, and IdentitySticks only that
\* of one in sole: states that differ in the others' are taken for one.
Told(p) == IF loading[p] = "done" /\ p \notin sole THEN "none" ELSE clientID[p]
View == <<file, loading, found, [p \in Proc |-> Told(p)], sole, cuptiVars, startVars>>

Symmetry == Permutations(Proc)
=============================================================================
