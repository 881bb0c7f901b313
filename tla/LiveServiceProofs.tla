-------------------------- MODULE LiveServiceProofs --------------------------
(***************************************************************************)
(* Theorems about LiveService, for any set of connections, any channel and *)
(* socket capacity and any number of snapshots.                            *)
(***************************************************************************)
EXTENDS LiveService, SequenceTheorems, TLAPS

(***************************************************************************)
(* Sequences of events, which are numbers: their elements and order.       *)
(***************************************************************************)
Ids(q) == {q[i] : i \in 1 .. Len(q)}

Sorted(q) == \A i, j \in 1 .. Len(q) : i < j => q[i] < q[j]

Below(S, T) == \A x \in S, y \in T : x < y

(* Concatenation may be read from either end. *)
LEMMA Regroup ==
  ASSUME NEW a \in Seq(Nat), NEW b \in Seq(Nat), NEW t \in Seq(Nat)
  PROVE  (a \o b) \o t = a \o (b \o t)
OBVIOUS

(* What appending one event makes of a sequence. *)
LEMMA AppendOne ==
  ASSUME NEW a \in Seq(Nat), NEW e \in Nat
  PROVE  /\ Append(a, e) = a \o <<e>> /\ Append(a, e) \in Seq(Nat)
         /\ Len(Append(a, e)) = Len(a) + 1 /\ Append(a, e) # <<>>
<1>1. Append(a, e) \in Seq(Nat) /\ Len(Append(a, e)) = Len(a) + 1
  OBVIOUS
<1>2. Append(a, e) # <<>>
  BY <1>1
<1>q. QED BY <1>1, <1>2, AppendIsConcat

(* Appending a greater event to a sorted sequence keeps it sorted. *)
LEMMA AppendSorted ==
  ASSUME NEW q \in Seq(Nat), NEW e \in Nat
  PROVE  /\ Ids(Append(q, e)) = Ids(q) \union {e}
         /\ Sorted(q) /\ Below(Ids(q), {e}) => Sorted(Append(q, e))
<1> DEFINE r == Append(q, e)
<1>1. /\ Len(q) \in Nat /\ Len(r) = Len(q) + 1
      /\ \A i \in 1 .. Len(q) : r[i] = q[i]
      /\ r[Len(q) + 1] = e
  OBVIOUS
<1> HIDE DEF r
<1>2. Ids(r) = Ids(q) \union {e}
  <2>1. ASSUME NEW x \in Ids(r) PROVE x \in Ids(q) \union {e}
    BY <1>1, <2>1 DEF Ids
  <2>2. ASSUME NEW x \in Ids(q) PROVE x \in Ids(r)
    BY <1>1, <2>2 DEF Ids
  <2>3. e \in Ids(r)
    BY <1>1 DEF Ids
  <2>q. QED BY <2>1, <2>2, <2>3
<1>3. ASSUME Sorted(q), Below(Ids(q), {e}) PROVE Sorted(r)
  <2> SUFFICES ASSUME NEW i \in 1 .. Len(r), NEW j \in 1 .. Len(r), i < j
               PROVE  r[i] < r[j]
    BY DEF Sorted
  <2>1. i \in 1 .. Len(q) /\ r[i] = q[i] /\ q[i] \in Ids(q)
    BY <1>1 DEF Ids
  <2>2. CASE j \in 1 .. Len(q)
    BY <1>1, <1>3, <2>1, <2>2 DEF Sorted
  <2>3. CASE j = Len(q) + 1
    BY <1>1, <1>3, <2>1, <2>3 DEF Below
  <2>q. QED BY <1>1, <2>2, <2>3
<1>q. QED BY <1>2, <1>3 DEF r

(* The head of a sorted sequence is below the elements of its tail. *)
LEMMA TailSorted ==
  ASSUME NEW q \in Seq(Nat), q # <<>>
  PROVE  /\ Head(q) \in Ids(q) /\ Head(q) = q[1]
         /\ Ids(Tail(q)) \subseteq Ids(q)
         /\ Sorted(q) => Sorted(Tail(q)) /\ Below({Head(q)}, Ids(Tail(q)))
<1> DEFINE r == Tail(q)
<1>1. /\ Len(q) \in Nat /\ Len(q) > 0 /\ Len(r) = Len(q) - 1
      /\ \A i \in 1 .. Len(r) : r[i] = q[i + 1]
      /\ Head(q) = q[1]
  OBVIOUS
<1> HIDE DEF r
<1>2. Head(q) \in Ids(q)
  BY <1>1 DEF Ids
<1>3. Ids(r) \subseteq Ids(q)
  <2>1. \A i \in 1 .. Len(r) : i + 1 \in 1 .. Len(q)
    BY <1>1
  <2>q. QED BY <1>1, <2>1 DEF Ids
<1>4. ASSUME Sorted(q) PROVE Sorted(r)
  <2> SUFFICES ASSUME NEW i \in 1 .. Len(r), NEW j \in 1 .. Len(r), i < j PROVE r[i] < r[j]
    BY DEF Sorted
  <2>1. /\ i + 1 \in 1 .. Len(q) /\ j + 1 \in 1 .. Len(q) /\ i + 1 < j + 1
        /\ r[i] = q[i + 1] /\ r[j] = q[j + 1]
    BY <1>1
  <2>q. QED BY <1>4, <2>1 DEF Sorted
<1>5. ASSUME Sorted(q) PROVE Below({q[1]}, Ids(r))
  <2> SUFFICES ASSUME NEW i \in 1 .. Len(r) PROVE q[1] < r[i]
    BY DEF Below, Ids
  <2>1. 1 \in 1 .. Len(q) /\ i + 1 \in 1 .. Len(q) /\ 1 < i + 1 /\ r[i] = q[i + 1]
    BY <1>1
  <2>q. QED BY <1>5, <2>1 DEF Sorted
<1>q. QED BY <1>1, <1>2, <1>3, <1>4, <1>5 DEF r

(***************************************************************************)
(* The inductive invariant.  LogInv is what the two broadcasters owe to    *)
(* each other: RunCollector names the devices before it lets the reporter  *)
(* see a snapshot.  OrderInv and FirstInv say what stands between a        *)
(* connection's written events and its channel.                            *)
(***************************************************************************)
LogInv ==
  /\ \A i \in 1 .. Len(log) : log[i] = "init" <=> i = 1
  /\ lastInit = IF log = <<>> THEN 0 ELSE 1
  /\ runCollector = "starting" <=> log = <<>>
  /\ log = <<>> => window = 0 /\ reporter = "idle"

OrderInv(c) ==
  /\ Sorted(sent[c]) /\ Sorted(queue[c])
  /\ Ids(sent[c]) \union Ids(queue[c]) \subseteq 1 .. Len(log)
  /\ holding[c] <= Len(log)
  /\ Below(Ids(sent[c]), Ids(queue[c]))
  /\ holding[c] # 0 =>
       Below(Ids(sent[c]), {holding[c]}) /\ Below({holding[c]}, Ids(queue[c]))

FirstInv(c) ==
  /\ c \in registered <=> handler[c] \in {"select", "write", "leaving"}
  /\ handler[c] \in {"none", "accepted"} =>
       sent[c] = <<>> /\ queue[c] = <<>> /\ holding[c] = 0
  /\ handler[c] = "write" <=> holding[c] # 0
  /\ handler[c] = "write" /\ sent[c] = <<>> => holding[c] = 1
  /\ handler[c] = "select" /\ sent[c] = <<>> /\ log # <<>> =>
       queue[c] # <<>> /\ queue[c][1] = 1
  /\ sent[c] # <<>> => sent[c][1] = 1
  /\ read[c] <= Len(sent[c])

DialInv(c) == stream[c] = "idle" => handler[c] = "none"

IInv ==
  /\ TypeOK
  /\ LogInv
  /\ \A c \in Conn : OrderInv(c) /\ FirstInv(c) /\ DialInv(c)

-----------------------------------------------------------------------------
(***************************************************************************)
(* Type correctness.                                                       *)
(***************************************************************************)

(* What a broadcast of any kind does to the hub, for any set of channels. *)
LEMMA BroadcastEffect ==
  ASSUME TypeOK, NEW kind \in Kind, BroadcastLocked(kind)
  PROVE  /\ log' \in Seq(Kind)
         /\ Len(log') = Len(log) + 1
         /\ \A i \in 1 .. Len(log) : log'[i] = log[i]
         /\ log'[Len(log) + 1] = kind
         /\ queue' \in [Conn -> Seq(Nat)]
         /\ \A c \in Conn : Len(queue'[c]) <= QueueCap
         /\ overflowed' \subseteq Conn
         /\ UNCHANGED <<registered, joined>>
<1>1. /\ log' \in Seq(Kind)
      /\ Len(log') = Len(log) + 1
  BY DEF TypeOK, BroadcastLocked
<1>2. /\ \A i \in 1 .. Len(log) : log'[i] = log[i]
      /\ log'[Len(log) + 1] = kind
  BY DEF TypeOK, BroadcastLocked
<1>3. queue' \in [Conn -> Seq(Nat)]
  BY DEF TypeOK, BroadcastLocked
<1>4. \A c \in Conn : Len(queue'[c]) <= QueueCap
  BY LiveAssumption DEF TypeOK, BroadcastLocked, Full
<1>5. overflowed' \subseteq Conn /\ UNCHANGED <<registered, joined>>
  BY DEF TypeOK, BroadcastLocked, Full
<1>q. QED BY <1>1, <1>2, <1>3, <1>4, <1>5

LEMMA InitTypeOK == Init => TypeOK
  BY LiveAssumption DEF Init, TypeOK

LEMMA NextTypeOK == TypeOK /\ [Next]_vars => TypeOK'
<1> SUFFICES ASSUME TypeOK, [Next]_vars PROVE TypeOK'
  OBVIOUS
<1>1. CASE AnnounceDevices
  <2>1. BroadcastLocked("init") /\ "init" \in Kind
    BY <1>1 DEF AnnounceDevices, SetDeviceIDs, Kind
  <2>q. QED BY <1>1, <2>1, BroadcastEffect
          DEF TypeOK, AnnounceDevices, SetDeviceIDs, conns
<1>2. CASE ObserveSnapshot
  BY <1>2, LiveAssumption DEF TypeOK, ObserveSnapshot, hub, conns, history
<1>3. CASE BroadcastSnapshot
  <2>1. BroadcastLocked("metrics") /\ "metrics" \in Kind
    BY <1>3 DEF BroadcastSnapshot, Broadcast, Kind
  <2>q. QED BY <1>3, <2>1, BroadcastEffect
          DEF TypeOK, BroadcastSnapshot, Broadcast, conns
<1>4. CASE CollectorClosed
  BY <1>4 DEF TypeOK, CollectorClosed, hub, conns, history
<1>5. CASE ReporterTick
  BY <1>5 DEF TypeOK, ReporterTick, hub, conns, history
<1>6. CASE BroadcastCeilings
  <2>1. BroadcastLocked("ceilings") /\ "ceilings" \in Kind
    BY <1>6 DEF BroadcastCeilings, Broadcast, Kind
  <2>q. QED BY <1>6, <2>1, BroadcastEffect
          DEF TypeOK, BroadcastCeilings, Broadcast, conns
<1>7. CASE ReportFails
  BY <1>7 DEF TypeOK, ReportFails, hub, conns, history
<1>8. ASSUME NEW c \in Conn, Dial(c) PROVE TypeOK'
  BY <1>8 DEF TypeOK, Dial, hub, producers, history
<1>9. ASSUME NEW c \in Conn, AddClient(c) PROVE TypeOK'
  BY <1>9 DEF TypeOK, AddClient, producers
<1>10. ASSUME NEW c \in Conn, TakeEvent(c) PROVE TypeOK'
  <2>1. /\ queue[c] \in Seq(Nat) /\ queue[c] # <<>>
        /\ Len(queue[c]) <= QueueCap
    BY <1>10 DEF TypeOK, TakeEvent
  <2>2. /\ Head(queue[c]) \in Nat
        /\ Tail(queue[c]) \in Seq(Nat)
        /\ Len(Tail(queue[c])) <= QueueCap
    BY <2>1, LiveAssumption
  <2>q. QED BY <1>10, <2>2 DEF TypeOK, TakeEvent, producers, history
<1>11. ASSUME NEW c \in Conn, NoticeClosed(c) PROVE TypeOK'
  BY <1>11 DEF TypeOK, NoticeClosed, hub, producers, history
<1>12. ASSUME NEW c \in Conn, WriteSucceeds(c) PROVE TypeOK'
  BY <1>12 DEF TypeOK, WriteSucceeds, hub, producers, history
<1>13. ASSUME NEW c \in Conn, WriteFails(c) PROVE TypeOK'
  BY <1>13 DEF TypeOK, WriteFails, hub, producers, history
<1>14. ASSUME NEW c \in Conn, RemoveClient(c) PROVE TypeOK'
  BY <1>14 DEF TypeOK, RemoveClient, producers, history
<1>15. ASSUME NEW c \in Conn, CloseNow(c) PROVE TypeOK'
  BY <1>15 DEF TypeOK, CloseNow, hub, producers, history
<1>16. ASSUME NEW c \in Conn, ReadEvent(c) PROVE TypeOK'
  BY <1>16 DEF TypeOK, ReadEvent, hub, producers, history
<1>17. ASSUME NEW c \in Conn, StreamFails(c) PROVE TypeOK'
  BY <1>17 DEF TypeOK, StreamFails, hub, producers, history
<1>18. ASSUME NEW c \in Conn, CancelStream(c) PROVE TypeOK'
  BY <1>18 DEF TypeOK, CancelStream, hub, producers, history
<1>19. CASE UNCHANGED vars
  BY <1>19 DEF TypeOK, vars, hub, conns, producers, history
<1>q. QED
  BY <1>1, <1>2, <1>3, <1>4, <1>5, <1>6, <1>7, <1>8, <1>9, <1>10, <1>11, <1>12,
     <1>13, <1>14, <1>15, <1>16, <1>17, <1>18, <1>19
  DEF Next, Produce, Handle, StreamStep

(* Every reachable state is well typed: above all, no channel ever holds   *)
(* more than its capacity (broadcastLocked drops instead of growing it).   *)
THEOREM TypeCorrect == Spec => []TypeOK
  BY InitTypeOK, NextTypeOK, PTL DEF Spec
-----------------------------------------------------------------------------
(***************************************************************************)
(* The inductive invariant.                                                *)
(***************************************************************************)
LEMMA InitIInv == Init => IInv
<1> SUFFICES ASSUME Init PROVE IInv
  OBVIOUS
<1>1. TypeOK
  BY InitTypeOK
<1>2. LogInv
  BY DEF Init, LogInv
<1>3. \A c \in Conn : OrderInv(c)
  BY DEF Init, OrderInv, Ids, Sorted, Below
<1>4. \A c \in Conn : FirstInv(c)
  BY DEF Init, FirstInv
<1>5. \A c \in Conn : DialInv(c)
  BY DEF Init, DialInv
<1>q. QED BY <1>1, <1>2, <1>3, <1>4, <1>5 DEF IInv

(* A handler runs only for a connection that was dialled. *)
LEMMA NextDialInv ==
  ASSUME IInv, [Next]_vars, NEW c \in Conn
  PROVE  DialInv(c)'
<1>1. TypeOK /\ DialInv(c)
  BY DEF IInv
<1>2. CASE Produce \/ UNCHANGED vars
  BY <1>1, <1>2 DEF Produce, AnnounceDevices, ObserveSnapshot, BroadcastSnapshot,
       CollectorClosed, ReporterTick, BroadcastCeilings, ReportFails, conns, vars, DialInv
<1>3. ASSUME NEW d \in Conn, Dial(d) \/ StreamStep(d) \/ CancelStream(d) PROVE DialInv(c)'
  BY <1>1, <1>3 DEF Dial, StreamStep, ReadEvent, StreamFails, CancelStream, DialInv, TypeOK
<1>4. ASSUME NEW d \in Conn, Handle(d) PROVE DialInv(c)'
  <2>1. handler[d] # "none" /\ stream' = stream
        /\ \E s \in {"select", "write", "leaving", "removed", "returned"} :
             handler' = [handler EXCEPT ![d] = s]
    BY <1>4 DEF Handle, AddClient, TakeEvent, NoticeClosed, WriteSucceeds,
         WriteFails, RemoveClient, CloseNow
  <2>q. QED BY <1>1, <2>1 DEF DialInv, TypeOK
<1>q. QED BY <1>2, <1>3, <1>4 DEF Next

(* A broadcast appends to the channels that have room the newest event of  *)
(* all, so no channel gets out of order.                                   *)
LEMMA BroadcastOrder ==
  ASSUME IInv, NEW kind \in Kind, BroadcastLocked(kind), UNCHANGED conns,
         NEW c \in Conn
  PROVE  OrderInv(c)'
<1>1. /\ TypeOK /\ OrderInv(c)
      /\ Len(log') = Len(log) + 1
      /\ Len(log) \in Nat
  <2>1. TypeOK /\ OrderInv(c)
    BY DEF IInv
  <2>2. Len(log') = Len(log) + 1
    BY <2>1, BroadcastEffect
  <2>3. Len(log) \in Nat
    BY <2>1 DEF TypeOK
  <2>q. QED BY <2>1, <2>2, <2>3
<1>2. /\ sent'[c] = sent[c] /\ holding'[c] = holding[c]
      /\ queue[c] \in Seq(Nat) /\ sent[c] \in Seq(Nat) /\ holding[c] \in Nat
  BY <1>1 DEF conns, TypeOK
<1>3. queue'[c] = queue[c] \/ queue'[c] = Append(queue[c], Len(log) + 1)
  BY <1>1 DEF BroadcastLocked, TypeOK
<1>4. CASE queue'[c] = queue[c]
  BY <1>1, <1>2, <1>4 DEF OrderInv
<1>5. CASE queue'[c] = Append(queue[c], Len(log) + 1)
  <2>1. /\ Below(Ids(sent[c]) \union Ids(queue[c]), {Len(log) + 1})
        /\ Below({holding[c]}, {Len(log) + 1})
    BY <1>1, <1>2 DEF OrderInv, Below
  <2>2. /\ Ids(queue'[c]) = Ids(queue[c]) \union {Len(log) + 1}
        /\ Sorted(queue'[c])
    BY <1>1, <1>2, <1>5, <2>1, AppendSorted DEF OrderInv, Below
  <2>q. QED BY <1>1, <1>2, <2>1, <2>2 DEF OrderInv, Below
<1>q. QED BY <1>3, <1>4, <1>5

(* The first broadcast finds every registered channel empty, and so with   *)
(* room: no connection can lose the init event.                            *)
LEMMA BroadcastFirst ==
  ASSUME IInv, NEW kind \in Kind, BroadcastLocked(kind), UNCHANGED conns,
         NEW c \in Conn
  PROVE  FirstInv(c)'
<1>1. /\ TypeOK /\ OrderInv(c) /\ FirstInv(c)
      /\ queue[c] \in Seq(Nat) /\ log \in Seq(Kind)
      /\ UNCHANGED registered
  BY BroadcastEffect DEF IInv, TypeOK
<1>2. UNCHANGED <<sent[c], holding[c], handler[c], read[c]>>
  BY <1>1 DEF conns, TypeOK
<1>3. queue'[c] = queue[c] \/ queue'[c] = Append(queue[c], Len(log) + 1)
  BY <1>1 DEF BroadcastLocked, TypeOK
<1>4. c \notin registered => queue'[c] = queue[c]
  BY <1>1 DEF BroadcastLocked, TypeOK
<1>5. ASSUME handler[c] = "select", sent[c] = <<>>
      PROVE  queue'[c] # <<>> /\ queue'[c][1] = 1
  <2>1. CASE log # <<>>
    <3>1. queue[c] # <<>> /\ queue[c][1] = 1
      BY <1>1, <1>5, <2>1 DEF FirstInv
    <3>q. QED BY <1>1, <1>3, <3>1
  <2>2. CASE log = <<>>
    <3>1. Len(queue[c]) = 0
      <4>1. Ids(queue[c]) \subseteq {}
        BY <1>1, <2>2 DEF OrderInv
      <4>2. Len(queue[c]) \in Nat /\ \A i \in 1 .. Len(queue[c]) : queue[c][i] \in Ids(queue[c])
        BY <1>1 DEF Ids
      <4>q. QED BY <4>1, <4>2
    <3>2. c \in registered \ Full
      BY <1>1, <1>5, <3>1, LiveAssumption DEF FirstInv, Full
    <3>3. queue'[c] = Append(queue[c], 1)
      BY <1>1, <2>2, <3>2 DEF BroadcastLocked
    <3>4. queue[c] = <<>>
      BY <1>1, <3>1
    <3>q. QED BY <3>3, <3>4
  <2>q. QED BY <2>1, <2>2
<1>q. QED BY <1>1, <1>2, <1>4, <1>5 DEF FirstInv

(* The actions of the producers. *)
LEMMA ProduceIInv ==
  ASSUME IInv, Produce, TypeOK', \A c \in Conn : DialInv(c)'
  PROVE  IInv'
<1>1. CASE AnnounceDevices
  <2>1. BroadcastLocked("init") /\ "init" \in Kind /\ UNCHANGED conns
    BY <1>1 DEF AnnounceDevices, SetDeviceIDs, Kind
  <2>2. log = <<>>
    BY <1>1 DEF IInv, LogInv, AnnounceDevices
  <2>3. Len(log') = 1 /\ log'[1] = "init" /\ lastInit' = 1
    BY <1>1, <2>1, <2>2, BroadcastEffect DEF IInv, AnnounceDevices, SetDeviceIDs
  <2>4. LogInv'
    BY <1>1, <2>3 DEF LogInv, AnnounceDevices
  <2>q. QED BY <2>1, <2>4, BroadcastOrder, BroadcastFirst DEF IInv
<1>2. CASE BroadcastSnapshot \/ BroadcastCeilings
  <2>1. PICK kind \in Kind \ {"init"} :
          BroadcastLocked(kind) /\ UNCHANGED <<conns, lastInit, window>>
    BY <1>2 DEF BroadcastSnapshot, BroadcastCeilings, Broadcast, Kind
  <2>2. log # <<>> /\ runCollector' # "starting"
    BY <1>2 DEF IInv, LogInv, BroadcastSnapshot, BroadcastCeilings
  <2>3. /\ log' # <<>>
        /\ \A i \in 1 .. Len(log') : log'[i] = "init" <=> i = 1
    <3>1. /\ log \in Seq(Kind) /\ Len(log') = Len(log) + 1
          /\ \A i \in 1 .. Len(log) : log'[i] = log[i]
          /\ log'[Len(log) + 1] # "init"
          /\ \A i \in 1 .. Len(log) : log[i] = "init" <=> i = 1
      BY <2>1, BroadcastEffect DEF IInv, TypeOK, LogInv
    <3>2. Len(log) \in Nat /\ Len(log) > 0
      BY <2>2, <3>1
    <3>3. \A i \in 1 .. Len(log') : i \in 1 .. Len(log) \/ (i = Len(log) + 1 /\ i # 1)
      BY <3>1, <3>2
    <3>q. QED BY <3>1, <3>2, <3>3
  <2>4. LogInv'
    BY <2>1, <2>2, <2>3 DEF IInv, LogInv
  <2>q. QED BY <2>1, <2>4, BroadcastOrder, BroadcastFirst DEF IInv
<1>3. CASE ObserveSnapshot \/ CollectorClosed \/ ReporterTick \/ ReportFails
  <2>1. UNCHANGED <<hub, conns>>
    BY <1>3 DEF ObserveSnapshot, CollectorClosed, ReporterTick, ReportFails
  <2>2. LogInv'
    BY <1>3, <2>1 DEF IInv, LogInv, hub, TypeOK,
         ObserveSnapshot, CollectorClosed, ReporterTick, ReportFails
  <2>3. \A c \in Conn : OrderInv(c)' /\ FirstInv(c)'
    BY <2>1 DEF IInv, OrderInv, FirstInv, hub, conns
  <2>q. QED BY <2>2, <2>3 DEF IInv
<1>q. QED BY <1>1, <1>2, <1>3 DEF Produce

(* The actions of a handler and of Stream: each leaves the log and every   *)
(* other connection alone.                                                 *)
LEMMA OthersUntouched ==
  ASSUME TypeOK, NEW c \in Conn,
         Dial(c) \/ Handle(c) \/ StreamStep(c) \/ CancelStream(c)
  PROVE  /\ UNCHANGED <<log, lastInit, producers>>
         /\ \A d \in Conn \ {c} :
              /\ queue'[d] = queue[d] /\ handler'[d] = handler[d]
              /\ holding'[d] = holding[d] /\ sent'[d] = sent[d]
              /\ read'[d] = read[d] /\ (d \in registered' <=> d \in registered)
  BY DEF TypeOK, Dial, Handle, StreamStep, CancelStream, AddClient, TakeEvent,
       NoticeClosed, WriteSucceeds, WriteFails, RemoveClient, CloseNow,
       ReadEvent, StreamFails, hub, conns

LEMMA ConnectionOrder ==
  ASSUME IInv, NEW c \in Conn,
         Dial(c) \/ Handle(c) \/ StreamStep(c) \/ CancelStream(c)
  PROVE  OrderInv(c)'
<1>1. TypeOK /\ OrderInv(c) /\ FirstInv(c) /\ LogInv /\ log' = log
  BY OthersUntouched DEF IInv
<1>2. /\ queue[c] \in Seq(Nat) /\ sent[c] \in Seq(Nat) /\ holding[c] \in Nat
  BY <1>1 DEF TypeOK
<1>3. CASE AddClient(c)
  <2>1. sent[c] = <<>> /\ queue[c] = <<>> /\ sent'[c] = <<>> /\ queue'[c] = <<>>
    BY <1>1, <1>3 DEF FirstInv, AddClient
  <2>2. holding'[c] = lastInit /\ lastInit <= Len(log)
    BY <1>1, <1>3 DEF TypeOK, LogInv, AddClient
  <2>q. QED BY <1>1, <2>1, <2>2 DEF OrderInv, Ids, Sorted, Below
<1>4. CASE TakeEvent(c)
  <2>1. /\ queue[c] # <<>> /\ queue'[c] = Tail(queue[c])
        /\ holding'[c] = Head(queue[c]) /\ sent'[c] = sent[c]
    BY <1>1, <1>4 DEF TypeOK, TakeEvent
  <2>2. /\ Head(queue[c]) \in Ids(queue[c])
        /\ Ids(Tail(queue[c])) \subseteq Ids(queue[c])
        /\ Sorted(Tail(queue[c]))
        /\ Below({Head(queue[c])}, Ids(Tail(queue[c])))
    BY <1>1, <1>2, <2>1, TailSorted DEF OrderInv
  <2>q. QED BY <1>1, <2>1, <2>2 DEF OrderInv, Below, TypeOK
<1>5. CASE WriteSucceeds(c)
  <2>1. /\ sent'[c] = Append(sent[c], holding[c]) /\ holding'[c] = 0
        /\ queue'[c] = queue[c] /\ holding[c] # 0
    BY <1>1, <1>5 DEF TypeOK, FirstInv, WriteSucceeds, hub
  <2>2. Ids(sent'[c]) = Ids(sent[c]) \union {holding[c]} /\ Sorted(sent'[c])
    BY <1>1, <1>2, <2>1, AppendSorted DEF OrderInv
  <2>3. holding[c] \in 1 .. Len(log)
    BY <1>1, <1>2, <2>1 DEF OrderInv, TypeOK
  <2>q. QED BY <1>1, <2>1, <2>2, <2>3 DEF OrderInv, Below
<1>6. CASE WriteFails(c)
  <2>1. sent'[c] = sent[c] /\ queue'[c] = queue[c] /\ holding'[c] = 0
    BY <1>1, <1>6 DEF TypeOK, WriteFails, hub
  <2>q. QED BY <1>1, <2>1 DEF OrderInv, TypeOK
<1>7. CASE ~(AddClient(c) \/ TakeEvent(c) \/ WriteSucceeds(c) \/ WriteFails(c))
  <2>1. UNCHANGED <<queue, sent, holding>>
    BY <1>7 DEF Dial, Handle, StreamStep, CancelStream, NoticeClosed,
         RemoveClient, CloseNow, ReadEvent, StreamFails, hub
  <2>q. QED BY <1>1, <2>1 DEF OrderInv
<1>q. QED BY <1>3, <1>4, <1>5, <1>6, <1>7

LEMMA ConnectionFirst ==
  ASSUME IInv, NEW c \in Conn,
         Dial(c) \/ Handle(c) \/ StreamStep(c) \/ CancelStream(c)
  PROVE  FirstInv(c)'
<1>1. /\ TypeOK /\ OrderInv(c) /\ FirstInv(c) /\ LogInv /\ log' = log
      /\ stream[c] = "idle" => handler[c] = "none"
  BY OthersUntouched DEF IInv, DialInv
<1>2. /\ queue[c] \in Seq(Nat) /\ sent[c] \in Seq(Nat)
      /\ holding[c] \in Nat /\ read[c] \in Nat
  BY <1>1 DEF TypeOK
<1>3. CASE AddClient(c)
  <2>1. sent'[c] = <<>> /\ queue'[c] = <<>> /\ holding'[c] = lastInit /\ read'[c] = read[c]
    BY <1>1, <1>3 DEF TypeOK, FirstInv, AddClient
  <2>2. c \in registered' /\ sent[c] = <<>>
        /\ handler'[c] = IF lastInit = 0 THEN "select" ELSE "write"
    BY <1>1, <1>3 DEF TypeOK, FirstInv, AddClient
  <2>q. QED BY <1>1, <1>2, <2>1, <2>2 DEF FirstInv, LogInv
<1>4. CASE TakeEvent(c)
  <2>1. /\ holding'[c] = queue[c][1] /\ sent'[c] = sent[c] /\ read'[c] = read[c]
        /\ handler[c] = "select" /\ handler'[c] = "write"
        /\ queue[c] # <<>> /\ registered' = registered
    BY <1>1, <1>2, <1>4 DEF TypeOK, TakeEvent
  <2>2. queue[c][1] \in 1 .. Len(log) /\ log # <<>>
    <3>1. queue[c] \in Seq(Nat) /\ queue[c] # <<>>
      BY <1>2, <2>1
    <3>2. queue[c][1] \in Ids(queue[c])
      BY ONLY <3>1, TailSorted
    <3>3. queue[c][1] \in 1 .. Len(log)
      BY <1>1, <3>2 DEF OrderInv
    <3>q. QED BY <1>1, <3>3 DEF TypeOK
  <2>q. QED BY <1>1, <2>1, <2>2 DEF FirstInv
<1>5. CASE WriteSucceeds(c)
  <2>1. /\ sent'[c] = Append(sent[c], holding[c]) /\ holding'[c] = 0
        /\ handler[c] = "write" /\ handler'[c] = "select"
        /\ read'[c] = read[c] /\ registered' = registered
    BY <1>1, <1>5 DEF TypeOK, WriteSucceeds, hub
  <2>2. sent'[c] # <<>> /\ sent'[c][1] = 1 /\ Len(sent'[c]) = Len(sent[c]) + 1
    <3>1. Len(sent'[c]) = Len(sent[c]) + 1 /\ sent'[c] # <<>>
      <4>1. sent[c] \in Seq(Nat) /\ holding[c] \in Nat
        BY <1>1 DEF TypeOK
      <4>q. QED BY <2>1, <4>1, AppendOne
    <3>2. CASE sent[c] = <<>>
      <4>1. holding[c] = 1
        BY <1>1, <2>1, <3>2 DEF FirstInv
      <4>2. sent'[c] = Append(<<>>, 1)
        BY <2>1, <3>2, <4>1
      <4>q. QED BY <3>1, <4>2
    <3>3. CASE sent[c] # <<>>
      <4>1. sent[c][1] = 1 /\ 1 \in 1 .. Len(sent[c]) /\ sent[c] \in Seq(Nat)
        BY <1>1, <3>3 DEF FirstInv, TypeOK
      <4>q. QED BY <2>1, <4>1
    <3>q. QED BY <3>1, <3>2, <3>3
  <2>3. read'[c] <= Len(sent'[c])
    <3>1. read[c] \in Nat /\ Len(sent[c]) \in Nat /\ read[c] <= Len(sent[c])
      BY <1>1 DEF TypeOK, FirstInv
    <3>q. QED BY <2>1, <2>2, <3>1
  <2>4. c \in registered' /\ handler'[c] = "select" /\ holding'[c] = 0
    BY <1>1, <2>1 DEF FirstInv
  <2>q. QED BY <2>2, <2>3, <2>4 DEF FirstInv
<1>6. CASE ReadEvent(c)
  <2>1. /\ Len(sent[c]) > read[c] /\ read'[c] = read[c] + 1
        /\ UNCHANGED <<queue, sent, holding, handler, registered>>
    BY <1>1, <1>2, <1>6 DEF TypeOK, ReadEvent, Unread, hub
  <2>q. QED BY <1>1, <1>2, <2>1 DEF FirstInv
<1>7. CASE \/ Dial(c) \/ NoticeClosed(c) \/ WriteFails(c) \/ RemoveClient(c)
           \/ CloseNow(c) \/ StreamFails(c) \/ CancelStream(c)
  <2>1. UNCHANGED <<queue, sent, read>>
    BY <1>7 DEF Dial, CancelStream, NoticeClosed, WriteFails,
         RemoveClient, CloseNow, StreamFails, hub
  <2>2. CASE Dial(c)
    BY <1>1, <2>1, <2>2 DEF FirstInv, TypeOK, Dial, hub
  <2>3. CASE NoticeClosed(c) \/ WriteFails(c)
    BY <1>1, <2>1, <2>3 DEF FirstInv, TypeOK, NoticeClosed, WriteFails, hub
  <2>4. CASE RemoveClient(c) \/ CloseNow(c)
    BY <1>1, <2>1, <2>4 DEF FirstInv, TypeOK, RemoveClient, CloseNow, hub
  <2>5. CASE StreamFails(c) \/ CancelStream(c)
    BY <1>1, <2>1, <2>5 DEF FirstInv, StreamFails, CancelStream, hub
  <2>q. QED BY <1>7, <2>2, <2>3, <2>4, <2>5
<1>q. QED BY <1>3, <1>4, <1>5, <1>6, <1>7 DEF Handle, StreamStep

LEMMA NextIInv == IInv /\ [Next]_vars => IInv'
<1> SUFFICES ASSUME IInv, [Next]_vars PROVE IInv'
  OBVIOUS
<1>0. TypeOK'
  BY NextTypeOK DEF IInv
<1>d. \A c \in Conn : DialInv(c)'
  BY NextDialInv
<1>1. CASE Produce
  BY <1>0, <1>d, <1>1, ProduceIInv
<1>2. ASSUME NEW c \in Conn,
             Dial(c) \/ Handle(c) \/ StreamStep(c) \/ CancelStream(c)
      PROVE  IInv'
  <2>1. TypeOK /\ LogInv'
    BY <1>2, OthersUntouched DEF IInv, LogInv, producers
  <2>2. ASSUME NEW d \in Conn, d # c PROVE OrderInv(d)' /\ FirstInv(d)'
    <3>1. OrderInv(d) /\ FirstInv(d)
      BY DEF IInv
    <3>q. QED BY <1>2, <2>1, <2>2, <3>1, OthersUntouched DEF OrderInv, FirstInv
  <2>q. QED BY <1>0, <1>d, <1>2, <2>1, <2>2, ConnectionOrder, ConnectionFirst DEF IInv
<1>3. CASE UNCHANGED vars
  BY <1>0, <1>d, <1>3 DEF IInv, LogInv, OrderInv, FirstInv, vars, hub, conns, producers, history
<1>q. QED BY <1>1, <1>2, <1>3 DEF Next

LEMMA Inductive == Spec => []IInv
  BY InitIInv, NextIInv, PTL DEF Spec
-----------------------------------------------------------------------------
(* Whatever the interleaving of registrations, broadcasts, drops and       *)
(* writes: init is the first event written to a connection, and no later   *)
(* one is init again.                                                      *)
THEOREM InitComesFirst == Spec => []InitFirst
<1>1. IInv => InitFirst
  <2> SUFFICES ASSUME IInv, NEW c \in Conn, NEW i \in 1 .. Len(sent[c])
               PROVE  log[sent[c][i]] = "init" <=> i = 1
    BY DEF InitFirst
  <2>1. /\ sent[c] \in Seq(Nat) /\ sent[c][i] \in Ids(sent[c])
        /\ sent[c] # <<>> /\ 1 \in 1 .. Len(sent[c])
    BY DEF IInv, TypeOK, Ids
  <2>2. sent[c][1] = 1 /\ sent[c][i] \in 1 .. Len(log)
    BY <2>1 DEF IInv, FirstInv, OrderInv
  <2>3. i # 1 => sent[c][1] < sent[c][i]
    <3>1. Sorted(sent[c])
      BY DEF IInv, OrderInv
    <3>2. Len(sent[c]) \in Nat
      BY <2>1
    <3>3. i # 1 => 1 < i
      BY <3>2
    <3>q. QED BY <2>1, <3>1, <3>3 DEF Sorted
  <2>4. log[sent[c][i]] = "init" <=> sent[c][i] = 1
    BY <2>2 DEF IInv, LogInv
  <2>5. sent[c][i] \in Nat /\ sent[c][1] \in Nat
    BY <2>1 DEF IInv, TypeOK
  <2>6. CASE i = 1
    BY <2>2, <2>4, <2>6
  <2>7. CASE i # 1
    BY <2>2, <2>3, <2>4, <2>5, <2>7
  <2>q. QED BY <2>6, <2>7
<1>q. QED BY Inductive, <1>1, PTL

(* No connection is written an event twice or out of the order in which    *)
(* the events were broadcast.                                              *)
THEOREM WrittenInOrder == Spec => []InOrder
<1>1. IInv => InOrder
  BY DEF IInv, OrderInv, Sorted, InOrder
<1>q. QED BY Inductive, <1>1, PTL
-----------------------------------------------------------------------------
(***************************************************************************)
(* The service implements LiveFeed.                                        *)
(***************************************************************************)
Seen(c) == IF read[c] = 0 THEN 0 ELSE sent[c][read[c]]

(* An event a viewer reads is newer than the last one it saw; the first is 1. *)
LEMMA SeenAdvances ==
  ASSUME IInv, NEW c \in Conn, ReadEvent(c)
  PROVE  Seen(c)' \in (Seen(c) + 1) .. Len(log) /\ (Seen(c) = 0 => Seen(c)' = 1)
<1>1. /\ TypeOK /\ OrderInv(c) /\ FirstInv(c)
      /\ sent[c] \in Seq(Nat) /\ read[c] \in Nat /\ Len(sent[c]) \in Nat
      /\ read[c] <= Len(sent[c])
  <2>1. TypeOK /\ OrderInv(c) /\ FirstInv(c)
    BY DEF IInv
  <2>2. sent[c] \in Seq(Nat) /\ read[c] \in Nat
    BY <2>1 DEF TypeOK
  <2>3. read[c] <= Len(sent[c])
    BY <2>1 DEF FirstInv
  <2>q. QED BY <2>1, <2>2, <2>3
<1>2. sent' = sent /\ read'[c] = read[c] + 1 /\ read[c] + 1 \in 1 .. Len(sent[c])
  BY <1>1 DEF ReadEvent, TypeOK, Unread
<1>3. sent[c][read[c] + 1] \in Ids(sent[c])
  BY <1>2 DEF Ids
<1>4. Seen(c)' = sent[c][read[c] + 1] /\ Seen(c)' \in 1 .. Len(log)
  BY <1>1, <1>2, <1>3 DEF Seen, OrderInv
<1>5. CASE read[c] = 0
  <2>1. Seen(c) = 0 /\ sent[c][1] = 1 /\ sent[c] # <<>>
    BY <1>1, <1>2, <1>5 DEF Seen, FirstInv
  <2>q. QED BY <1>4, <1>5, <2>1
<1>6. CASE read[c] # 0
  <2>1. Seen(c) = sent[c][read[c]] /\ read[c] \in 1 .. Len(sent[c])
    BY <1>1, <1>6 DEF Seen
  <2>2. Seen(c) < Seen(c)'
    BY <1>1, <1>2, <1>4, <2>1 DEF OrderInv, Sorted
  <2>3. Seen(c) \in 1 .. Len(log)
    BY <1>1, <2>1 DEF OrderInv, Ids
  <2>q. QED BY <1>1, <1>4, <2>2, <2>3
<1>q. QED BY <1>5, <1>6

(* Nothing else changes what a viewer saw last. *)
LEMMA SeenKept ==
  ASSUME IInv, [Next]_vars, NEW c \in Conn, ~ReadEvent(c)
  PROVE  Seen(c)' = Seen(c)
<1>1. /\ TypeOK /\ sent[c] \in Seq(Nat) /\ read[c] \in Nat /\ read[c] <= Len(sent[c])
  BY DEF IInv, TypeOK, FirstInv
<1>2. CASE WriteSucceeds(c)
  <2>1. sent'[c] = Append(sent[c], holding[c]) /\ read' = read
    BY <1>1, <1>2 DEF WriteSucceeds, TypeOK
  <2>2. holding[c] \in Nat
    BY <1>1 DEF TypeOK
  <2>3. \A i \in 1 .. Len(sent[c]) : sent'[c][i] = sent[c][i]
    BY <1>1, <2>1, <2>2
  <2>q. QED BY <1>1, <2>1, <2>3 DEF Seen
<1>3. ASSUME NEW d \in Conn, d # c,
             Dial(d) \/ Handle(d) \/ StreamStep(d) \/ CancelStream(d)
      PROVE  Seen(c)' = Seen(c)
  BY <1>1, <1>3, OthersUntouched DEF Seen
<1>4. CASE Produce \/ UNCHANGED vars
  BY <1>4 DEF Produce, AnnounceDevices, ObserveSnapshot, BroadcastSnapshot, CollectorClosed,
       ReporterTick, BroadcastCeilings, ReportFails, conns, vars, Seen
<1>5. CASE \/ Dial(c) \/ AddClient(c) \/ TakeEvent(c) \/ NoticeClosed(c) \/ WriteFails(c)
           \/ RemoveClient(c) \/ CloseNow(c) \/ StreamFails(c) \/ CancelStream(c)
  BY <1>5 DEF Dial, AddClient, TakeEvent, NoticeClosed, WriteFails, RemoveClient,
       CloseNow, StreamFails, CancelStream, Seen
<1>q. QED BY <1>2, <1>3, <1>4, <1>5 DEF Next, Handle, StreamStep

(* Only one connection's viewer is shown anything in a step. *)
LEMMA SeenOthers ==
  ASSUME IInv, NEW c \in Conn, ReadEvent(c)
  PROVE  /\ \A d \in Conn \ {c} : Seen(d)' = Seen(d)
         /\ Len(log)' = Len(log) /\ UNCHANGED stream /\ stream[c] = "reading"
  BY OthersUntouched DEF IInv, Seen, ReadEvent, StreamStep, hub

(* Every viewer of the service gets the feed that LiveFeed promises: init  *)
(* first, then a subsequence of the broadcasts in order, and nothing after *)
(* its Stream call returned.                                               *)
THEOREM ImplementsFeed == Spec => FeedSpec
<1> DEFINE seen == [c \in Conn |-> Seen(c)]
           ended == {c \in Conn : stream[c] \in {"nil", "error"}}
<1>1. Init => Feed!Init
  BY DEF Init, Feed!Init
<1>2. IInv /\ [Next]_vars => [Feed!Next]_Feed!vars
  <2> SUFFICES ASSUME IInv, [Next]_vars PROVE [Feed!Next]_Feed!vars
    OBVIOUS
  <2>1. ASSUME NEW c \in Conn, ReadEvent(c)
        PROVE  Feed!Show(c)
    <3>1. /\ \A d \in Conn \ {c} : Seen(d)' = Seen(d)
          /\ Len(log)' = Len(log) /\ stream' = stream /\ stream[c] = "reading"
      BY <2>1, SeenOthers
    <3>2. read' = [read EXCEPT ![c] = @ + 1]
      BY <2>1 DEF ReadEvent
    <3>3. Seen(c)' \in (Seen(c) + 1) .. Len(log) /\ (Seen(c) = 0 => Seen(c)' = 1)
      BY <2>1, SeenAdvances
    <3>4. seen' = [seen EXCEPT ![c] = Seen(c)']
      BY <3>1
    <3>q. QED BY <3>1, <3>2, <3>3, <3>4 DEF Feed!Show, Seen
  <2>2. ASSUME \A c \in Conn : ~ReadEvent(c)
        PROVE  UNCHANGED seen
    BY <2>2, SeenKept
  <2>3. CASE Produce
    <3>1. UNCHANGED <<seen, read, ended>>
      BY <2>3, <2>2 DEF Produce, AnnounceDevices, ObserveSnapshot, BroadcastSnapshot,
           CollectorClosed, ReporterTick, BroadcastCeilings, ReportFails, conns, Seen
    <3>2. UNCHANGED log \/ \E kind \in Kind : BroadcastLocked(kind)
      BY <2>3 DEF Produce, AnnounceDevices, ObserveSnapshot, BroadcastSnapshot,
           CollectorClosed, ReporterTick, BroadcastCeilings, ReportFails,
           SetDeviceIDs, Broadcast, Kind, hub
    <3>3. Len(log)' = Len(log) \/ Len(log)' = Len(log) + 1
      BY <3>2, BroadcastEffect DEF IInv
    <3>q. QED BY <3>1, <3>3 DEF Feed!Next, Feed!Publish, Feed!vars, Seen
  <2>4. ASSUME NEW c \in Conn, Dial(c) \/ Handle(c) \/ StreamStep(c) \/ CancelStream(c),
               ~ReadEvent(c), UNCHANGED seen
        PROVE  Feed!End(c) \/ UNCHANGED Feed!vars
    <3>1. Len(log)' = Len(log) /\ read' = read
      BY <2>4, OthersUntouched DEF IInv, StreamStep, Dial, Handle, AddClient, TakeEvent,
           NoticeClosed, WriteSucceeds, WriteFails, RemoveClient, CloseNow, StreamFails,
           CancelStream
    <3>2. CASE StreamFails(c) \/ CancelStream(c)
      <4>1. PICK r \in {"nil", "error"} : stream' = [stream EXCEPT ![c] = r]
        BY <3>2 DEF StreamFails, CancelStream
      <4>2. DOMAIN stream = Conn
        BY DEF IInv, TypeOK
      <4>3. \A d \in Conn : stream'[d] = IF d = c THEN r ELSE stream[d]
        BY <4>1, <4>2
      <4>4. ended' = ended \union {c}
        BY <4>3
      <4>q. QED BY <2>4, <3>1, <4>4 DEF Feed!End, Seen
    <3>3. CASE Dial(c)
      <4>1. ended' = ended
        BY <3>3 DEF Dial, IInv, TypeOK
      <4>q. QED BY <2>4, <3>1, <4>1 DEF Feed!vars, Seen
    <3>4. CASE Handle(c)
      <4>1. ended' = ended
        BY <3>4 DEF Handle, AddClient, TakeEvent, NoticeClosed, WriteSucceeds,
             WriteFails, RemoveClient, CloseNow
      <4>q. QED BY <2>4, <3>1, <4>1 DEF Feed!vars, Seen
    <3>q. QED BY <2>4, <3>2, <3>3, <3>4 DEF StreamStep
  <2>5. CASE UNCHANGED vars
    BY <2>5 DEF vars, hub, conns, Feed!vars
  <2>q. QED BY <2>1, <2>2, <2>3, <2>4, <2>5 DEF Next, Feed!Next
<1>q. QED BY Inductive, <1>1, <1>2, PTL DEF Spec, FeedSpec, Feed!Spec

-----------------------------------------------------------------------------
(***************************************************************************)
(* No silent loss.  Seq1(e) is an event in hand as a sequence, and Due(c)  *)
(* what a connection was to be given since it registered.                  *)
(***************************************************************************)
Seq1(e) == IF e = 0 THEN <<>> ELSE <<e>>

Since(m, n) == [i \in 1 .. n - m |-> m + i]

Due(c) == (IF joined[c] = 0 THEN <<>> ELSE <<1>>) \o Since(joined[c], Len(log))

LossInv(c) ==
  /\ joined[c] <= Len(log)
  /\ c \in registered /\ handler[c] # "leaving" /\ c \notin overflowed => Pipeline(c) = Due(c)

(* Appending to the last of three sequences. *)
LEMMA AppendLast ==
  ASSUME NEW a \in Seq(Nat), NEW b \in Seq(Nat), NEW e \in Nat
  PROVE  a \o Append(b, e) = Append(a \o b, e)
<1>1. Append(b, e) = b \o <<e>> /\ <<e>> \in Seq(Nat) /\ a \o b \in Seq(Nat)
  BY AppendOne
<1>2. Append(a \o b, e) = (a \o b) \o <<e>>
  BY <1>1, AppendOne
<1>3. (a \o b) \o <<e>> = a \o (b \o <<e>>)
  BY <1>1, Regroup
<1>q. QED BY <1>1, <1>2, <1>3

LEMMA SinceGrows ==
  ASSUME NEW m \in Nat, NEW n \in Nat, m <= n
  PROVE  Since(m, n) \in Seq(Nat) /\ Since(m, n + 1) = Append(Since(m, n), n + 1)
<1>1. /\ Since(m, n) \in Seq(Nat) /\ Len(Since(m, n)) = n - m
      /\ \A i \in 1 .. n - m : Since(m, n)[i] = m + i
  BY DEF Since
<1>2. /\ Since(m, n + 1) \in Seq(Nat) /\ Len(Since(m, n + 1)) = n + 1 - m
      /\ \A i \in 1 .. n + 1 - m : Since(m, n + 1)[i] = m + i
  BY DEF Since
<1> DEFINE s == Append(Since(m, n), n + 1)
<1>3. /\ s \in Seq(Nat) /\ Len(s) = n + 1 - m
      /\ \A i \in 1 .. n + 1 - m : s[i] = m + i
  <2> DEFINE r == Since(m, n)
  <2> HIDE DEF r
  <2>1. r \in Seq(Nat) /\ Len(r) = n - m /\ n - m \in Nat /\ \A i \in 1 .. n - m : r[i] = m + i
    BY <1>1 DEF r
  <2>2. /\ Append(r, n + 1) \in Seq(Nat) /\ Len(Append(r, n + 1)) = n + 1 - m
        /\ \A i \in 1 .. n - m : Append(r, n + 1)[i] = r[i]
        /\ Append(r, n + 1)[n - m + 1] = n + 1
    BY <2>1
  <2>3. \A i \in 1 .. n + 1 - m : i \in 1 .. n - m \/ (i = n - m + 1 /\ m + i = n + 1)
    BY <2>1
  <2>q. QED BY <2>1, <2>2, <2>3 DEF r
<1> HIDE DEF s
<1>4. s = Since(m, n + 1)
  BY <1>2, <1>3, SeqEqual
<1>q. QED BY <1>1, <1>4 DEF s

(* A broadcast gives a connection with room the event that is now due.     *)
LEMMA BroadcastLoses ==
  ASSUME IInv, NEW kind \in Kind, BroadcastLocked(kind), UNCHANGED conns,
         NEW c \in Conn, LossInv(c)
  PROVE  LossInv(c)'
<1>1. /\ TypeOK /\ Len(log') = Len(log) + 1 /\ Len(log) \in Nat
      /\ joined' = joined /\ joined[c] \in Nat /\ registered' = registered
  <2>1. TypeOK
    BY DEF IInv
  <2>2. Len(log') = Len(log) + 1 /\ joined' = joined /\ registered' = registered
    BY <2>1, BroadcastEffect
  <2>3. Len(log) \in Nat /\ joined[c] \in Nat
    BY <2>1 DEF TypeOK
  <2>q. QED BY <2>1, <2>2, <2>3
<1>2. /\ sent'[c] = sent[c] /\ holding'[c] = holding[c] /\ handler'[c] = handler[c]
      /\ queue[c] \in Seq(Nat) /\ sent[c] \in Seq(Nat) /\ holding[c] \in Nat
  BY <1>1 DEF conns, TypeOK
<1>3. joined'[c] <= Len(log')
  BY <1>1 DEF LossInv
<1>4. ASSUME c \in registered', handler'[c] # "leaving", c \notin overflowed'
      PROVE  Pipeline(c)' = Due(c)'
  <2>1. c \in registered \ Full /\ c \notin overflowed
    BY <1>1, <1>4 DEF BroadcastLocked
  <2>2. queue'[c] = Append(queue[c], Len(log) + 1)
    BY <1>1, <2>1 DEF BroadcastLocked, TypeOK
  <2> DEFINE f == sent[c] \o Seq1(holding[c])
             g == IF joined[c] = 0 THEN <<>> ELSE <<1>>
  <2>3. f \in Seq(Nat) /\ g \in Seq(Nat) /\ Since(joined[c], Len(log)) \in Seq(Nat)
    <3>1. Seq1(holding[c]) \in Seq(Nat)
      BY <1>2 DEF Seq1
    <3>2. f \in Seq(Nat)
      BY <1>2, <3>1, ConcatProperties
    <3>3. g \in Seq(Nat)
      OBVIOUS
    <3>4. Since(joined[c], Len(log)) \in Seq(Nat)
      BY <1>1, SinceGrows DEF LossInv
    <3>q. QED BY <3>2, <3>3, <3>4
  <2>4. f \o queue[c] = g \o Since(joined[c], Len(log))
    BY <1>2, <1>4, <2>1, <1>1 DEF LossInv, Pipeline, Due, Seq1
  <2>5. Pipeline(c)' = f \o Append(queue[c], Len(log) + 1)
    BY <1>2, <2>2 DEF Pipeline, Seq1
  <2>6. Due(c)' = g \o Append(Since(joined[c], Len(log)), Len(log) + 1)
    BY <1>1, SinceGrows DEF Due, LossInv
  <2> HIDE DEF f, g
  <2>7. f \o Append(queue[c], Len(log) + 1) = Append(f \o queue[c], Len(log) + 1)
    <3>1. Len(log) + 1 \in Nat
      BY <1>1
    <3>2. queue[c] \in Seq(Nat) /\ f \in Seq(Nat)
      BY <1>2, <2>3
    <3>q. QED BY <3>1, <3>2, AppendLast
  <2>8. g \o Append(Since(joined[c], Len(log)), Len(log) + 1)
          = Append(g \o Since(joined[c], Len(log)), Len(log) + 1)
    <3>1. Len(log) + 1 \in Nat
      BY <1>1
    <3>q. QED BY <2>3, <3>1, AppendLast
  <2>q. QED BY <2>4, <2>5, <2>6, <2>7, <2>8
<1>q. QED BY <1>3, <1>4 DEF LossInv

(* Registration takes what is in the log as read, but for init; taking and *)
(* writing move an event along.                                            *)
LEMMA ConnectionLoses ==
  ASSUME IInv, NEW c \in Conn, LossInv(c),
         Dial(c) \/ Handle(c) \/ StreamStep(c) \/ CancelStream(c)
  PROVE  LossInv(c)'
<1>1. /\ TypeOK /\ OrderInv(c) /\ FirstInv(c) /\ LogInv /\ log' = log
      /\ queue[c] \in Seq(Nat) /\ sent[c] \in Seq(Nat) /\ holding[c] \in Nat
      /\ Len(log) \in Nat /\ log \in Seq(Kind)
      /\ stream[c] = "idle" => handler[c] = "none"
  <2>1. TypeOK /\ OrderInv(c) /\ FirstInv(c) /\ LogInv /\ DialInv(c)
    BY DEF IInv
  <2>2. log' = log
    BY <2>1, OthersUntouched
  <2>3. /\ queue[c] \in Seq(Nat) /\ sent[c] \in Seq(Nat) /\ holding[c] \in Nat
        /\ Len(log) \in Nat /\ log \in Seq(Kind)
    BY <2>1 DEF TypeOK
  <2>q. QED BY <2>1, <2>2, <2>3 DEF DialInv
<1>2. CASE AddClient(c)
  <2>1. sent'[c] = <<>> /\ queue'[c] = <<>> /\ holding'[c] = lastInit /\ joined'[c] = Len(log)
    BY <1>1, <1>2 DEF TypeOK, FirstInv, AddClient
  <2>2. Len(log) = 0 <=> log = <<>>
    BY <1>1
  <2>3. Since(Len(log), Len(log)) = <<>>
    BY <1>1 DEF Since
  <2>4. (IF lastInit = 0 THEN <<>> ELSE <<lastInit>>) = (IF Len(log) = 0 THEN <<>> ELSE <<1>>)
    BY <1>1, <2>2 DEF LogInv
  <2>5. Pipeline(c)' = (<<>> \o (IF lastInit = 0 THEN <<>> ELSE <<lastInit>>)) \o <<>>
    BY <2>1 DEF Pipeline
  <2>6. Due(c)' = (IF Len(log) = 0 THEN <<>> ELSE <<1>>) \o <<>>
    BY <1>1, <2>1, <2>3 DEF Due
  <2>7. (<<>> \o (IF Len(log) = 0 THEN <<>> ELSE <<1>>)) \o <<>>
          = (IF Len(log) = 0 THEN <<>> ELSE <<1>>) \o <<>>
    <3>1. (IF Len(log) = 0 THEN <<>> ELSE <<1>>) \in Seq(Nat)
      OBVIOUS
    <3>q. QED BY <3>1, ConcatEmptySeq
  <2>8. joined'[c] <= Len(log')
    BY <1>1, <2>1
  <2>q. QED BY <2>4, <2>5, <2>6, <2>7, <2>8 DEF LossInv
<1>3. CASE TakeEvent(c)
  <2>1. /\ queue[c] # <<>> /\ queue'[c] = Tail(queue[c]) /\ holding'[c] = Head(queue[c])
        /\ sent'[c] = sent[c] /\ holding[c] = 0 /\ handler[c] = "select"
        /\ UNCHANGED <<registered, overflowed, joined>>
    BY <1>1, <1>3 DEF TypeOK, FirstInv, TakeEvent, history
  <2>2. Head(queue[c]) \in Nat /\ Head(queue[c]) # 0 /\ Tail(queue[c]) \in Seq(Nat)
    <3>1. Head(queue[c]) \in Ids(queue[c])
      BY <1>1, <2>1, TailSorted
    <3>q. QED BY <1>1, <2>1, <3>1 DEF OrderInv
  <2>3. queue[c] = <<Head(queue[c])>> \o Tail(queue[c])
    BY <1>1, <2>1, HeadTailProperties
  <2>4. Pipeline(c) = sent[c] \o queue[c]
    BY <1>1, <2>1, ConcatEmptySeq DEF Pipeline
  <2>5. Pipeline(c)' = (sent[c] \o <<Head(queue[c])>>) \o Tail(queue[c])
    BY <2>1, <2>2 DEF Pipeline
  <2>6. <<Head(queue[c])>> \in Seq(Nat)
    BY <2>2
  <2>7. Pipeline(c)' = Pipeline(c)
    <3>1. (sent[c] \o <<Head(queue[c])>>) \o Tail(queue[c])
            = sent[c] \o (<<Head(queue[c])>> \o Tail(queue[c]))
      <4> DEFINE a == sent[c]
                 b == <<Head(queue[c])>>
                 t == Tail(queue[c])
      <4>1. a \in Seq(Nat) /\ b \in Seq(Nat) /\ t \in Seq(Nat)
        BY <1>1, <2>2, <2>6
      <4> HIDE DEF a, b, t
      <4>2. (a \o b) \o t = a \o (b \o t)
        BY ONLY <4>1, Regroup
      <4>q. QED BY <4>2 DEF a, b, t
    <3>q. QED BY <2>3, <2>4, <2>5, <3>1
  <2>8. Due(c)' = Due(c) /\ joined'[c] <= Len(log')
    BY <1>1, <2>1 DEF Due, LossInv
  <2>q. QED BY <2>1, <2>7, <2>8 DEF LossInv
<1>4. CASE WriteSucceeds(c)
  <2>1. /\ sent'[c] = Append(sent[c], holding[c]) /\ holding'[c] = 0 /\ holding[c] # 0
        /\ queue'[c] = queue[c] /\ handler[c] = "write"
        /\ UNCHANGED <<registered, overflowed, joined>>
    BY <1>1, <1>4 DEF TypeOK, FirstInv, WriteSucceeds, hub, history
  <2>2. sent'[c] = sent[c] \o <<holding[c]>> /\ sent'[c] \in Seq(Nat)
    <3>1. sent[c] \in Seq(Nat) /\ holding[c] \in Nat
      BY <1>1 DEF TypeOK
    <3>q. QED BY <2>1, <3>1, AppendOne
  <2>3. Pipeline(c)' = (sent'[c] \o <<>>) \o queue[c]
    BY <2>1 DEF Pipeline
  <2>4. sent'[c] \o <<>> = sent'[c]
    BY <2>2, ConcatEmptySeq
  <2>5. Pipeline(c)' = Pipeline(c)
    BY <2>1, <2>2, <2>3, <2>4 DEF Pipeline
  <2>6. Due(c)' = Due(c) /\ joined'[c] <= Len(log')
    BY <1>1, <2>1 DEF Due, LossInv
  <2>q. QED BY <2>1, <2>5, <2>6 DEF LossInv
<1>5. CASE WriteFails(c) \/ NoticeClosed(c)
  <2>1. handler'[c] = "leaving" /\ joined' = joined
    BY <1>1, <1>5 DEF TypeOK, WriteFails, NoticeClosed, history
  <2>q. QED BY <1>1, <2>1 DEF LossInv
<1>6. CASE RemoveClient(c)
  <2>1. c \notin registered' /\ joined' = joined
    BY <1>6 DEF RemoveClient, history
  <2>q. QED BY <1>1, <2>1 DEF LossInv
<1>7. CASE Dial(c) \/ CloseNow(c)
  <2>1. c \notin registered' /\ joined' = joined
    BY <1>1, <1>7 DEF Dial, CloseNow, FirstInv, hub, history
  <2>q. QED BY <1>1, <2>1 DEF LossInv
<1>8. CASE StreamStep(c) \/ CancelStream(c)
  BY <1>1, <1>8 DEF StreamStep, ReadEvent, StreamFails, CancelStream, hub, history,
     LossInv, Pipeline, Due
<1>q. QED BY <1>2, <1>3, <1>4, <1>5, <1>6, <1>7, <1>8 DEF Handle

LEMMA NextLoses ==
  ASSUME IInv, [Next]_vars, \A c \in Conn : LossInv(c)
  PROVE  \A c \in Conn : LossInv(c)'
<1>1. CASE AnnounceDevices \/ BroadcastSnapshot \/ BroadcastCeilings
  <2>1. PICK kind \in Kind : BroadcastLocked(kind) /\ UNCHANGED conns
    BY <1>1 DEF AnnounceDevices, SetDeviceIDs, BroadcastSnapshot, BroadcastCeilings,
       Broadcast, Kind
  <2>q. QED BY <2>1, BroadcastLoses
<1>2. CASE \/ ObserveSnapshot \/ CollectorClosed \/ ReporterTick \/ ReportFails
           \/ UNCHANGED vars
  BY <1>2 DEF ObserveSnapshot, CollectorClosed, ReporterTick, ReportFails, vars, hub, conns,
     history, LossInv, Pipeline, Due
<1>3. ASSUME NEW c \in Conn, Dial(c) \/ Handle(c) \/ StreamStep(c) \/ CancelStream(c)
      PROVE  \A d \in Conn : LossInv(d)'
  <2>1. LossInv(c)'
    BY <1>3, ConnectionLoses
  <2>2. ASSUME NEW d \in Conn, d # c PROVE LossInv(d)'
    <3>1. joined'[d] = joined[d] /\ overflowed' = overflowed
      BY <1>3, <2>2 DEF IInv, TypeOK, Dial, Handle, StreamStep, CancelStream, AddClient,
         TakeEvent, NoticeClosed, WriteSucceeds, WriteFails, RemoveClient, CloseNow,
         ReadEvent, StreamFails, history
    <3>2. /\ log' = log /\ queue'[d] = queue[d] /\ handler'[d] = handler[d]
          /\ holding'[d] = holding[d] /\ sent'[d] = sent[d]
          /\ (d \in registered' <=> d \in registered)
      BY <1>3, <2>2, OthersUntouched DEF IInv
    <3>q. QED BY <3>1, <3>2 DEF LossInv, Pipeline, Due
  <2>q. QED BY <2>1, <2>2
<1>q. QED BY <1>1, <1>2, <1>3 DEF Next, Produce

(* The only event a live handler misses is one broadcast while its channel *)
(* was full: registration and the copy of lastInit, in one critical        *)
(* section, leave no gap and repeat nothing (addClient, broadcastLocked).  *)
THEOREM LosesNothing == Spec => []NoSilentLoss
<1> DEFINE Losses == \A c \in Conn : LossInv(c)
<1>1. Init => Losses
  BY DEF Init, LossInv
<1>2. IInv /\ Losses /\ [Next]_vars => Losses'
  BY NextLoses
<1>3. IInv /\ Losses => NoSilentLoss
  BY DEF IInv, TypeOK, LossInv, Due, Since, NoSilentLoss
<1>q. QED BY <1>1, <1>2, <1>3, Inductive, PTL DEF Spec
=============================================================================
