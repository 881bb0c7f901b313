----------------------------- MODULE LiveService -----------------------------
(***************************************************************************)
(* The live service: one hub (service.Service) that fans events out to     *)
(* websocket connections, each with its own handler goroutine and buffered *)
(* channel, the two goroutines of the server that broadcast (RunCollector  *)
(* and the metrics reporter), and the Stream call at the far end of every  *)
(* connection.                                                             *)
(*                                                                         *)
(* An event is its position in `log', the sequence of all broadcasts;      *)
(* log[e] is its kind.  Every critical section of Service.mu is one step.  *)
(* A broadcast sends to the channels one by one while a handler may        *)
(* receive from its own; the sends are independent of each other, so the   *)
(* whole loop is one step here.  Go's select and its buffered channel are  *)
(* modelled by their semantics.                                            *)
(***************************************************************************)
EXTENDS Integers, Sequences, FiniteSets

CONSTANTS
  Conn,          \* connections, each dialled at most once
  QueueCap,      \* capacity of a handler's channel (32 in the code)
  WireCap,       \* events the socket buffers hold before a write stalls
  MaxSnapshots   \* bound: snapshots the collector delivers

ASSUME LiveAssumption ==
  /\ QueueCap \in Nat \ {0}
  /\ WireCap \in Nat \ {0}
  /\ MaxSnapshots \in Nat

Kind == {"init", "metrics", "ceilings"}

VARIABLES
  log,          \* kinds of all events broadcast so far (history)
  lastInit,     \* Service.lastInit: 0 for nil, else the init event
  registered,   \* keys of Service.clients
  queue,        \* contents of each handler's channel
  handler,      \* where each handleLive goroutine stands
  holding,      \* the event a handler is writing, 0 for none
  open,         \* connections whose websocket is up
  sent,         \* events written to each connection (history)
  read,         \* how many of them Stream has handed to its callback
  stream,       \* where each Stream call stands, or what it returned
  runCollector, \* where RunCollector stands
  snapshots,    \* snapshots received so far
  window,       \* length of the reporter's window of snapshots
  reporter,     \* where the reporter goroutine stands
  joined,       \* Len(log) when a connection registered (history)
  overflowed    \* connections for which a broadcast was dropped (history)

hub == <<log, lastInit, registered, queue>>
conns == <<handler, holding, open, sent, read, stream>>
producers == <<runCollector, snapshots, window, reporter>>
history == <<joined, overflowed>>
vars == <<hub, conns, producers, history>>

Init ==
  /\ log = <<>>
  /\ lastInit = 0
  /\ registered = {}
  /\ queue = [c \in Conn |-> <<>>]
  /\ handler = [c \in Conn |-> "none"]
  /\ holding = [c \in Conn |-> 0]
  /\ open = {}
  /\ sent = [c \in Conn |-> <<>>]
  /\ read = [c \in Conn |-> 0]
  /\ stream = [c \in Conn |-> "idle"]
  /\ runCollector = "starting"
  /\ snapshots = 0
  /\ window = 0
  /\ reporter = "idle"
  /\ joined = [c \in Conn |-> 0]
  /\ overflowed = {}
-----------------------------------------------------------------------------
(***************************************************************************)
(* Broadcasting, under Service.mu.                                         *)
(***************************************************************************)

\* Connections whose channel has no room: the non-blocking send skips them.
Full == {c \in registered : Len(queue[c]) >= QueueCap}

\* Mutant: the channel grows instead of dropping.
BroadcastLocked_Unbounded(kind) ==
  /\ log' = Append(log, kind)
  /\ queue' = [c \in Conn |->
                 IF c \in registered THEN Append(queue[c], Len(log) + 1) ELSE queue[c]]
  /\ UNCHANGED <<registered, joined, overflowed>>

BroadcastLocked(kind) ==
  /\ log' = Append(log, kind)
  /\ queue' = [c \in Conn |->
                 IF c \in registered \ Full
                 THEN Append(queue[c], Len(log) + 1)
                 ELSE queue[c]]
  /\ overflowed' = overflowed \union Full
  /\ UNCHANGED <<registered, joined>>

\* Mutant: init is stored for later clients but not sent to earlier ones.
SetDeviceIDs_StoreOnly ==
  /\ lastInit' = Len(log) + 1
  /\ log' = Append(log, "init")
  /\ UNCHANGED <<registered, queue, joined, overflowed>>

SetDeviceIDs ==
  /\ lastInit' = Len(log) + 1
  /\ BroadcastLocked("init")

Broadcast(kind) ==
  /\ BroadcastLocked(kind)
  /\ UNCHANGED lastInit

\* RunCollector names the devices before it starts the collector.
AnnounceDevices ==
  /\ runCollector = "starting"
  /\ SetDeviceIDs
  /\ runCollector' = "receiving"
  /\ UNCHANGED <<conns, snapshots, window, reporter>>

\* A snapshot arrives and `observe' appends it to the reporter's window.
ObserveSnapshot ==
  /\ runCollector = "receiving"
  /\ snapshots < MaxSnapshots
  /\ snapshots' = snapshots + 1
  /\ runCollector' = "observed"
  /\ window' = window + 1
  /\ UNCHANGED <<hub, conns, reporter, history>>

BroadcastSnapshot ==
  /\ runCollector = "observed"
  /\ Broadcast("metrics")
  /\ runCollector' = "receiving"
  /\ UNCHANGED <<conns, snapshots, window, reporter>>

\* The context is cancelled and the collector closes the channel.
CollectorClosed ==
  /\ runCollector = "receiving"
  /\ runCollector' = "done"
  /\ UNCHANGED <<hub, conns, snapshots, window, reporter, history>>

\* The reporter swaps its window out; an empty one ends the tick.
ReporterTick ==
  /\ reporter = "idle"
  /\ window > 0
  /\ window' = 0
  /\ reporter' = "posting"
  /\ UNCHANGED <<hub, conns, runCollector, snapshots, history>>

\* The post succeeded: OnCeiling broadcasts the answer.
BroadcastCeilings ==
  /\ reporter = "posting"
  /\ Broadcast("ceilings")
  /\ reporter' = "idle"
  /\ UNCHANGED <<conns, runCollector, snapshots, window>>

\* The scan or the post failed: nothing is broadcast.
ReportFails ==
  /\ reporter = "posting"
  /\ reporter' = "idle"
  /\ UNCHANGED <<hub, conns, runCollector, snapshots, window, history>>
-----------------------------------------------------------------------------
(***************************************************************************)
(* Connections: dialling and the handler goroutine.                        *)
(***************************************************************************)

\* A client dials and the handler accepts the upgrade.
Dial(c) ==
  /\ stream[c] = "idle"
  /\ stream' = [stream EXCEPT ![c] = "reading"]
  /\ open' = open \union {c}
  /\ handler' = [handler EXCEPT ![c] = "accepted"]
  /\ UNCHANGED <<hub, holding, sent, read, producers, history>>

\* Mutant: a new client is not sent the stored init event.
AddClient_NoReplay(c) ==
  /\ handler[c] = "accepted"
  /\ registered' = registered \union {c}
  /\ handler' = [handler EXCEPT ![c] = "select"]
  /\ joined' = [joined EXCEPT ![c] = Len(log)]
  /\ UNCHANGED <<log, lastInit, queue, holding, open, sent, read, stream, producers, overflowed>>

\* addClient registers the channel and copies lastInit in one critical
\* section; a copy is the first event the handler writes.
AddClient(c) ==
  /\ handler[c] = "accepted"
  /\ registered' = registered \union {c}
  /\ holding' = [holding EXCEPT ![c] = lastInit]
  /\ handler' = [handler EXCEPT ![c] = IF lastInit = 0 THEN "select" ELSE "write"]
  /\ joined' = [joined EXCEPT ![c] = Len(log)]
  /\ UNCHANGED <<log, lastInit, queue, open, sent, read, stream, producers, overflowed>>

\* Mutant: the event stays in the channel.
TakeEvent_Keeps(c) ==
  /\ handler[c] = "select"
  /\ queue[c] # <<>>
  /\ holding' = [holding EXCEPT ![c] = Head(queue[c])]
  /\ handler' = [handler EXCEPT ![c] = "write"]
  /\ UNCHANGED <<log, lastInit, registered, queue, open, sent, read, stream, producers, history>>

\* The loop's select takes an event from the channel ...
TakeEvent(c) ==
  /\ handler[c] = "select"
  /\ queue[c] # <<>>
  /\ holding' = [holding EXCEPT ![c] = Head(queue[c])]
  /\ queue' = [queue EXCEPT ![c] = Tail(@)]
  /\ handler' = [handler EXCEPT ![c] = "write"]
  /\ UNCHANGED <<log, lastInit, registered, open, sent, read, stream, producers, history>>

\* Mutant: the select does not watch the connection's context.
NoticeClosed_Blind(c) ==
  /\ handler[c] = "select"
  /\ c \notin open
  /\ UNCHANGED vars

\* ... or finds the connection's context done.
NoticeClosed(c) ==
  /\ handler[c] = "select"
  /\ c \notin open
  /\ handler' = [handler EXCEPT ![c] = "leaving"]
  /\ UNCHANGED <<hub, holding, open, sent, read, stream, producers, history>>

\* Events on the wire that Stream has not read.
Unread(c) == Len(sent[c]) - read[c]

\* writeEvent succeeds while the socket buffers have room.
WriteSucceeds(c) ==
  /\ handler[c] = "write"
  /\ Unread(c) < WireCap
  /\ sent' = [sent EXCEPT ![c] = Append(@, holding[c])]
  /\ holding' = [holding EXCEPT ![c] = 0]
  /\ handler' = [handler EXCEPT ![c] = "select"]
  /\ UNCHANGED <<hub, open, read, stream, producers, history>>

\* writeEvent fails: the connection is gone, or the peer did not drain its
\* buffers for the five seconds of the write timeout.
WriteFails(c) ==
  /\ handler[c] = "write"
  /\ c \notin open \/ Unread(c) >= WireCap
  /\ holding' = [holding EXCEPT ![c] = 0]
  /\ handler' = [handler EXCEPT ![c] = "leaving"]
  /\ UNCHANGED <<hub, open, sent, read, stream, producers, history>>

\* The deferred calls run in reverse order: removeClient, then CloseNow.
RemoveClient(c) ==
  /\ handler[c] = "leaving"
  /\ registered' = registered \ {c}
  /\ handler' = [handler EXCEPT ![c] = "removed"]
  /\ UNCHANGED <<log, lastInit, queue, holding, open, sent, read, stream, producers, history>>

CloseNow(c) ==
  /\ handler[c] = "removed"
  /\ open' = open \ {c}
  /\ handler' = [handler EXCEPT ![c] = "returned"]
  /\ UNCHANGED <<hub, holding, sent, read, stream, producers, history>>
-----------------------------------------------------------------------------
(***************************************************************************)
(* The client's Stream call.                                               *)
(***************************************************************************)

\* Stream reads one event and hands it to its callback.
ReadEvent(c) ==
  /\ stream[c] = "reading"
  /\ Unread(c) > 0
  /\ read' = [read EXCEPT ![c] = @ + 1]
  /\ UNCHANGED <<hub, handler, holding, open, sent, stream, producers, history>>

\* The read fails because the server closed: unread events may be lost.
StreamFails(c) ==
  /\ stream[c] = "reading"
  /\ c \notin open
  /\ stream' = [stream EXCEPT ![c] = "error"]
  /\ UNCHANGED <<hub, handler, holding, open, sent, read, producers, history>>

\* The viewer quits, or the probe of ServerAvailable closes at once.
CancelStream(c) ==
  /\ stream[c] = "reading"
  /\ stream' = [stream EXCEPT ![c] = "nil"]
  /\ open' = open \ {c}
  /\ UNCHANGED <<hub, handler, holding, sent, read, producers, history>>
-----------------------------------------------------------------------------
Produce ==
  \/ AnnounceDevices \/ ObserveSnapshot \/ BroadcastSnapshot \/ CollectorClosed
  \/ ReporterTick \/ BroadcastCeilings \/ ReportFails

Handle(c) ==
  \/ AddClient(c) \/ TakeEvent(c) \/ NoticeClosed(c)
  \/ WriteSucceeds(c) \/ WriteFails(c) \/ RemoveClient(c) \/ CloseNow(c)

StreamStep(c) == ReadEvent(c) \/ StreamFails(c)

Next ==
  \/ Produce
  \/ \E c \in Conn : Dial(c) \/ Handle(c) \/ StreamStep(c) \/ CancelStream(c)

Spec == Init /\ [][Next]_vars

\* Goroutines run when they can: every handler and every Stream call.  Users
\* dial and quit as they please, and snapshots come when they come.
FairSpec == Spec /\ \A c \in Conn : WF_vars(Handle(c)) /\ WF_vars(StreamStep(c))
-----------------------------------------------------------------------------
TypeOK ==
  /\ log \in Seq(Kind)
  /\ lastInit \in Nat
  /\ registered \subseteq Conn
  /\ queue \in [Conn -> Seq(Nat)]
  /\ \A c \in Conn : Len(queue[c]) <= QueueCap
  /\ handler \in [Conn -> {"none", "accepted", "select", "write", "leaving", "removed", "returned"}]
  /\ holding \in [Conn -> Nat]
  /\ open \subseteq Conn
  /\ sent \in [Conn -> Seq(Nat)]
  /\ read \in [Conn -> Nat]
  /\ stream \in [Conn -> {"idle", "reading", "nil", "error"}]
  /\ runCollector \in {"starting", "receiving", "observed", "done"}
  /\ snapshots \in 0 .. MaxSnapshots
  /\ window \in Nat
  /\ reporter \in {"idle", "posting"}
  /\ joined \in [Conn -> Nat]
  /\ overflowed \subseteq Conn

\* What a connection is given, in order: written, being written, and queued.
Pipeline(c) ==
  sent[c] \o (IF holding[c] = 0 THEN <<>> ELSE <<holding[c]>>) \o queue[c]

\* A connection is told the devices before anything else and exactly once,
\* whether it registered before or after SetDeviceIDs and although neither
\* the collector nor the reporter knows about it: a viewer draws nothing
\* for a device it was not told of.
InitFirst ==
  \A c \in Conn : \A i \in 1 .. Len(sent[c]) :
    log[sent[c][i]] = "init" <=> i = 1

\* No connection is written an event twice or an older event after a newer
\* one, through overflow, the copy of lastInit and the two broadcasters.
InOrder ==
  \A c \in Conn : \A i, j \in 1 .. Len(sent[c]) :
    i < j => sent[c][i] < sent[c][j]

\* The only event a live handler ever misses is one broadcast while its
\* channel was full: registration and the copy of lastInit leave no gap.
NoSilentLoss ==
  \A c \in registered :
    handler[c] # "leaving" /\ c \notin overflowed =>
      Pipeline(c) = (IF joined[c] = 0 THEN <<>> ELSE <<1>>)
                      \o [i \in 1 .. Len(log) - joined[c] |-> joined[c] + i]

\* The service implements the feed promised to each viewer.
Feed == INSTANCE LiveFeed WITH
  Viewer <- Conn,
  published <- Len(log),
  seen <- [c \in Conn |-> IF read[c] = 0 THEN 0 ELSE sent[c][read[c]]],
  shown <- read,
  ended <- {c \in Conn : stream[c] \in {"nil", "error"}}

FeedSpec == Feed!Spec

\* A connection that closed leaves the hub, so that its channel and client
\* ID are forgotten, even when its handler was stuck in a write.
GoneIsForgotten == \A c \in Conn : stream[c] \in {"nil", "error"} ~> c \notin registered

\* A viewer that stays connected is shown, in the end, everything that was
\* queued for it.
CaughtUp ==
  \A c \in Conn :
    <>[](c \in registered) => <>[](queue[c] = <<>> /\ read[c] = Len(sent[c]))

\* ViewersServed: each viewer is either shown everything in the end or, once it
\* has gone, forgotten.
ViewersServed == GoneIsForgotten /\ CaughtUp
=============================================================================
