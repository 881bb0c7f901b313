------------------------------ MODULE LiveFeed ------------------------------
(***************************************************************************)
(* What the live service promises to one viewer, whatever the speed of the *)
(* other viewers: the events of one global sequence, the first of which    *)
(* names the monitored devices (init).  A viewer is shown init first and   *)
(* once, then a subsequence of what follows, in order and without repeats; *)
(* it may miss events, and a feed that ended shows nothing more.           *)
(***************************************************************************)
EXTENDS Integers

CONSTANT Viewer

VARIABLES
  published,   \* number of events published so far; event 1 is init
  seen,        \* the last event each viewer was shown, 0 before the first
  shown,       \* how many events each viewer was shown
  ended        \* viewers whose feed is over

vars == <<published, seen, shown, ended>>

Init ==
  /\ published = 0
  /\ seen = [v \in Viewer |-> 0]
  /\ shown = [v \in Viewer |-> 0]
  /\ ended = {}

Publish ==
  /\ published' = published + 1
  /\ UNCHANGED <<seen, shown, ended>>

Show(v) ==
  /\ v \notin ended
  /\ \E e \in (seen[v] + 1) .. published :
       /\ seen[v] = 0 => e = 1
       /\ seen' = [seen EXCEPT ![v] = e]
  /\ shown' = [shown EXCEPT ![v] = @ + 1]
  /\ UNCHANGED <<published, ended>>

End(v) ==
  /\ ended' = ended \union {v}
  /\ UNCHANGED <<published, seen, shown>>

Next == Publish \/ \E v \in Viewer : Show(v) \/ End(v)

Spec == Init /\ [][Next]_vars
=============================================================================
