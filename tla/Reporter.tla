------------------------------ MODULE Reporter ------------------------------
(***************************************************************************)
(* reporter.go: the collector's goroutine observes snapshots into a        *)
(* buffer, the reporter's goroutine takes the buffer at each tick, scans   *)
(* and scrapes, posts the window to the backend and hands the ceilings in  *)
(* the answer to OnCeiling; main stops it.  A snapshot is its number.      *)
(*                                                                         *)
(* The inflight flag is set exactly while phase is "scanning" or           *)
(* "posting"; tick is only called from "waiting", so none is ever skipped. *)
(***************************************************************************)
EXTENDS Integers, Sequences

CONSTANT MaxSnapshots   \* bound on the snapshots observed

ASSUME ReporterAssumption == MaxSnapshots \in Nat

VARIABLES
  phase,       \* where the reporter's goroutine stands
  observed,    \* snapshots observed so far
  windowBuf,   \* Reporter.windowBuf
  window,      \* the window of the current tick
  requests,    \* the windows handed to the HTTP client, by request number
  received,    \* the requests the backend has received
  answers,     \* the requests the backend has answered with ceilings
  ceilings,    \* the request whose answer OnCeiling was last called with, or 0
  handled,     \* history: the snapshots of the windows posted or given up, in order
  stopping,    \* "no", or "stop called" once main has called Stop
  cancelled    \* the contexts cancelled: "own" (cancelFunc) and "parent"

backend == <<received, answers>>
shutdown == <<stopping, cancelled>>
vars == <<phase, observed, windowBuf, window, requests, backend, ceilings, handled, shutdown>>

Init ==
  /\ phase = "created"
  /\ observed = 0 /\ windowBuf = <<>> /\ window = <<>> /\ handled = <<>>
  /\ requests = <<>> /\ received = {} /\ answers = {} /\ ceilings = 0
  /\ stopping = "no" /\ cancelled = {}
-----------------------------------------------------------------------------
Observe ==
  /\ observed < MaxSnapshots
  /\ observed' = observed + 1
  /\ windowBuf' = Append(windowBuf, observed + 1)
  /\ UNCHANGED <<phase, window, requests, backend, ceilings, handled, shutdown>>

\* Start sets cancelFunc, then waits out the jitter.
Start ==
  /\ phase = "created"
  /\ phase' = "jitter"
  /\ UNCHANGED <<observed, windowBuf, window, requests, backend, ceilings, handled, shutdown>>

JitterEnds ==
  /\ phase = "jitter"
  /\ phase' = "waiting"
  /\ UNCHANGED <<observed, windowBuf, window, requests, backend, ceilings, handled, shutdown>>

\* Both selects of Start return on a cancelled context.
Return ==
  /\ phase \in {"jitter", "waiting"}
  /\ cancelled # {}
  /\ phase' = "stopped"
  /\ UNCHANGED <<observed, windowBuf, window, requests, backend, ceilings, handled, shutdown>>

\* Mutant: the tick does not return on an empty buffer.
Tick_Empty ==
  /\ phase = "waiting"
  /\ window' = windowBuf
  /\ windowBuf' = <<>>
  /\ phase' = "scanning"
  /\ UNCHANGED <<observed, requests, backend, ceilings, handled, shutdown>>

\* A tick takes the whole buffer; a tick that finds it empty does nothing.
\* The select may choose the tick though the context is cancelled.
Tick ==
  /\ phase = "waiting" /\ windowBuf # <<>>
  /\ window' = windowBuf
  /\ windowBuf' = <<>>
  /\ phase' = "scanning"
  /\ UNCHANGED <<observed, requests, backend, ceilings, handled, shutdown>>

\* Mutant: the window of a failed scan goes back into the buffer, behind what
\* was observed meanwhile.
ScanFails_Restores ==
  /\ phase = "scanning"
  /\ windowBuf' = windowBuf \o window
  /\ window' = <<>>
  /\ phase' = "waiting"
  /\ UNCHANGED <<observed, requests, backend, ceilings, handled, shutdown>>

\* A failed scan gives the window up; so does a window without any GPU.
ScanFails ==
  /\ phase = "scanning"
  /\ handled' = handled \o window
  /\ window' = <<>>
  /\ phase' = "waiting"
  /\ UNCHANGED <<observed, windowBuf, requests, backend, ceilings, shutdown>>

\* Aggregation and scrapeWorkloads, then postMetrics hands the payload to the
\* HTTP client, which may find the context cancelled.
StartPost ==
  /\ phase = "scanning"
  /\ requests' = Append(requests, window)
  /\ handled' = handled \o window
  /\ window' = <<>>
  /\ phase' = "posting"
  /\ UNCHANGED <<observed, windowBuf, backend, ceilings, shutdown>>

\* Mutant: a failed post is tried again with a new request.
PostFails_Retries ==
  /\ phase = "posting"
  /\ requests' = Append(requests, requests[Len(requests)])
  /\ UNCHANGED <<phase, observed, windowBuf, window, backend, ceilings, handled, shutdown>>

\* The post fails, times out, is cancelled, or its answer is not a 200 or not
\* JSON.
PostFails ==
  /\ phase = "posting"
  /\ phase' = "waiting"
  /\ UNCHANGED <<observed, windowBuf, window, requests, backend, ceilings, handled, shutdown>>

\* The answer to the current request comes in time: OnCeiling.
TakeAnswer ==
  /\ phase = "posting" /\ Len(requests) \in answers
  /\ ceilings' = Len(requests)
  /\ phase' = "waiting"
  /\ UNCHANGED <<observed, windowBuf, window, requests, backend, handled, shutdown>>
-----------------------------------------------------------------------------
(***************************************************************************)
(* The backend: a request arrives and is answered, or not, at any time,    *)
(* perhaps long after the client has given it up.                          *)
(***************************************************************************)
Receive(i) ==
  /\ i \in DOMAIN requests \ received
  /\ received' = received \union {i}
  /\ UNCHANGED <<phase, observed, windowBuf, window, requests, answers, ceilings, handled,
                 shutdown>>

Answer(i) ==
  /\ i \in received \ answers
  /\ answers' = answers \union {i}
  /\ UNCHANGED <<phase, observed, windowBuf, window, requests, received, ceilings, handled,
                 shutdown>>
-----------------------------------------------------------------------------
(***************************************************************************)
(* The end of the process.                                                 *)
(***************************************************************************)

\* Stop cancels nothing when the goroutine has not set cancelFunc yet.
Stop ==
  /\ stopping = "no"
  /\ stopping' = "stop called"
  /\ cancelled' = IF phase = "created" THEN cancelled ELSE cancelled \union {"own"}
  /\ UNCHANGED <<phase, observed, windowBuf, window, requests, backend, ceilings, handled>>

\* Mutant: only a signal or the user cancels, main does not.
CancelParent_NotDeferred ==
  /\ "parent" \notin cancelled /\ stopping = "no"
  /\ cancelled' = cancelled \union {"parent"}
  /\ UNCHANGED <<phase, observed, windowBuf, window, requests, backend, ceilings, handled,
                 stopping>>

\* A signal, the user, or, after Stop, runServer's deferred cancel.
CancelParent ==
  /\ "parent" \notin cancelled
  /\ cancelled' = cancelled \union {"parent"}
  /\ UNCHANGED <<phase, observed, windowBuf, window, requests, backend, ceilings, handled,
                 stopping>>
-----------------------------------------------------------------------------
Goroutine ==
  \/ Start \/ JitterEnds \/ Return \/ Tick \/ ScanFails \/ StartPost \/ PostFails \/ TakeAnswer

Backend == \E i \in DOMAIN requests : Receive(i) \/ Answer(i)

Next == Goroutine \/ Observe \/ Backend \/ Stop \/ CancelParent

Spec == Init /\ [][Next]_vars

\* The goroutine is scheduled and every call it makes returns: scan, scrapes
\* and post are bounded by timeouts.  A select whose context stays cancelled
\* takes that branch sooner or later.  Main's deferred cancel follows Stop.
FairSpec ==
  /\ Spec
  /\ WF_vars(Goroutine) /\ SF_vars(Return)
  /\ WF_vars(stopping = "stop called" /\ CancelParent)
-----------------------------------------------------------------------------
Upto(n) == [i \in 1 .. n |-> i]

TypeOK ==
  /\ phase \in {"created", "jitter", "waiting", "scanning", "posting", "stopped"}
  /\ observed \in 0 .. MaxSnapshots
  /\ windowBuf \in Seq(Nat) /\ window \in Seq(Nat) /\ handled \in Seq(Nat)
  /\ requests \in Seq(Seq(Nat))
  /\ answers \subseteq received /\ received \subseteq DOMAIN requests
  /\ ceilings \in {0} \union answers
  /\ stopping \in {"no", "stop called"} /\ cancelled \subseteq {"own", "parent"}
  /\ phase = "scanning" <=> window # <<>>

\* Every snapshot observed is in exactly one place, in order: in a window
\* posted or given up, in the window of this tick, or in the buffer.
Conserved == handled \o window \o windowBuf = Upto(observed)

\* A snapshot does not stay behind: a tick settles it, unless the reporter ends.
Settles ==
  \A n \in 1 .. MaxSnapshots : observed >= n ~> Len(handled) >= n \/ phase = "stopped"

\* After Stop the goroutine ends, even if Stop came too early to cancel it.
StopEnds == stopping = "stop called" ~> phase = "stopped"

\* Progresses: snapshots are settled while the reporter runs, and Stop ends it.
Progresses == Settles /\ StopEnds

\* The reporter keeps the promise of ReportFeed.
Feed == INSTANCE ReportFeed WITH
  seen <- observed,
  settled <- Len(handled),
  posted <- [i \in DOMAIN requests |-> <<requests[i][1], requests[i][Len(requests[i])]>>],
  arrived <- received,
  shown <- ceilings
FeedSpec == Feed!FeedSpec
=============================================================================
