----------------------------- MODULE ReportFeed -----------------------------
(***************************************************************************)
(* What the reporter promises the backend: the snapshots a host observes   *)
(* are cut into windows, in order; each window is posted at most once or   *)
(* is lost as a whole, and the ceilings on show answer a window that       *)
(* arrived, never an older one than before.                                *)
(***************************************************************************)
EXTENDS Integers, Sequences

VARIABLES
  seen,        \* snapshots observed
  settled,     \* snapshots whose window has been posted or is lost
  posted,      \* the windows posted, each as <<first, last>>
  arrived,     \* the numbers of those the backend has received
  shown        \* the number of the window whose ceilings are on show, or 0

feedVars == <<seen, settled, posted, arrived, shown>>

FeedInit == seen = 0 /\ settled = 0 /\ posted = <<>> /\ arrived = {} /\ shown = 0

Observed ==
  /\ seen' = seen + 1
  /\ UNCHANGED <<settled, posted, arrived, shown>>

Lost ==
  /\ settled' \in settled + 1 .. seen
  /\ UNCHANGED <<seen, posted, arrived, shown>>

Posts ==
  /\ settled' \in settled + 1 .. seen
  /\ posted' = Append(posted, <<settled + 1, settled'>>)
  /\ UNCHANGED <<seen, arrived, shown>>

Arrives ==
  /\ \E i \in (1 .. Len(posted)) \ arrived : arrived' = arrived \union {i}
  /\ UNCHANGED <<seen, settled, posted, shown>>

Shows ==
  /\ shown' \in arrived
  /\ shown' > shown
  /\ UNCHANGED <<seen, settled, posted, arrived>>

FeedNext == Observed \/ Lost \/ Posts \/ Arrives \/ Shows
FeedSpec == FeedInit /\ [][FeedNext]_feedVars
=============================================================================
