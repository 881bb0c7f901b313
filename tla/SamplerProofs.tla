--------------------------- MODULE SamplerProofs ---------------------------
(***************************************************************************)
(* Theorems about the sampler.  Ownership, for any processes and devices   *)
(* and any request, in which a device may be named more than once: what is *)
(* locked is what a sampler holds.  The engine, for every number of        *)
(* passes, triggers, warm-up rotations and ring records: windows are whole *)
(* rotations past the warm-up, each published once, the ring holds the     *)
(* newest, and the worker never runs without a session.                    *)
(***************************************************************************)
EXTENDS SamplerLifecycle, SamplerEngine, SequenceTheorems, TLAPS

(***************************************************************************)
(* The inductive invariant: what a process holds, and what its caller and  *)
(* its collector may be doing at the time.                                 *)
(***************************************************************************)
InInit == {"creating", "closing in Init", "destroyed in Init", "unregister in Init",
           "init error"}

\* The devices of the states that are initialized.
Sampled(p) == {Requested[p][i] : i \in {j \in DOMAIN states[p] : states[p][j]}}

HeldInv(p) ==
  /\ Held(p) = IF p \in native THEN Sampled(p) ELSE {}
  /\ main[p] = "start" => states[p] = <<>>
  /\ main[p] \in {"creating", "initialized", "running"} => p \in native

RegistryInv(p) ==
  /\ main[p] \in {"start", "creating"} => registry[p] = {}
  /\ main[p] \in {"initialized", "running"} =>
       registry[p] # {} /\ registry[p] \subseteq Held(p)

PollerInv(p) ==
  /\ main[p] \in {"start", "initialized", "exited"} \union InInit => poller[p] = "off"
  /\ p \in Local /\ main[p] \in {"closing", "destroyed", "unregister", "closed"} =>
       poller[p] \in {"off", "done"}

ProcInv(p) == HeldInv(p) /\ RegistryInv(p) /\ PollerInv(p)

IInv == TypeOK /\ \A p \in Proc : ProcInv(p)

LEMMA RequestType ==
  ASSUME NEW p \in Proc
  PROVE  /\ Requested[p] \in Seq(Device) /\ Len(Requested[p]) \in Nat
         /\ DOMAIN Requested[p] = 1 .. Len(Requested[p])
BY LifecycleAssumption

LEMMA StatesType ==
  ASSUME TypeOK, NEW p \in Proc
  PROVE  /\ states[p] \in Seq(BOOLEAN) /\ Len(states[p]) \in Nat
         /\ DOMAIN states[p] = 1 .. Len(states[p])
<1>1. states \in [Proc -> Seq(BOOLEAN)]
  BY Zenon DEF TypeOK
<1>2. states[p] \in Seq(BOOLEAN)
  BY <1>1, Zenon
<1>3. QED
  BY <1>2, LenProperties

LEMMA NextRequest ==
  ASSUME TypeOK, NEW p \in Proc, Len(states[p]) < Len(Requested[p])
  PROVE  /\ Len(states[p]) + 1 \in DOMAIN Requested[p]
         /\ Requested[p][Len(states[p]) + 1] \in Device
<1> DEFINE n == Len(states[p])
           r == Requested[p]
<1>1. n \in Nat /\ r \in Seq(Device) /\ n < Len(r)
  BY RequestType, StatesType
<1> HIDE DEF n, r
<1>2. n + 1 \in DOMAIN r /\ r[n + 1] \in Device
  BY ONLY <1>1
<1>3. QED
  BY <1>2 DEF n, r

LEMMA InitIInv == Init => IInv
<1> SUFFICES ASSUME Init PROVE IInv
  OBVIOUS
<1>1. TypeOK
  BY RequestType DEF Init, TypeOK
<1>2. ASSUME NEW p \in Proc PROVE ProcInv(p)
  BY LifecycleAssumption DEF Init, ProcInv, HeldInv, RegistryInv, PollerInv, Held, InInit
<1>3. QED
  BY <1>1, <1>2 DEF IInv

(***************************************************************************)
(* What a step of one process leaves alone.                                *)
(***************************************************************************)
Act(p) == CallerStep(p) \/ PollerStep(p) \/ Cancel(p) \/ BeginClose(p) \/ Exit(p)

LEMMA MoreStates ==
  ASSUME TypeOK, NEW p \in Proc, NEW b \in BOOLEAN, Len(states[p]) < Len(Requested[p]),
         states' = [states EXCEPT ![p] = Append(@, b)]
  PROVE  states' \in [Proc -> Seq(BOOLEAN)] /\ \A q \in Proc : Len(states'[q]) <= Len(Requested[q])
<1>1. states[p] \in Seq(BOOLEAN) /\ Len(states[p]) \in Nat /\ Len(Requested[p]) \in Nat
      /\ states \in [Proc -> Seq(BOOLEAN)]
  BY RequestType, StatesType DEF TypeOK
<1>2. Append(states[p], b) \in Seq(BOOLEAN) /\ Len(Append(states[p], b)) = Len(states[p]) + 1
  BY <1>1, AppendProperties
<1>3. states' \in [Proc -> Seq(BOOLEAN)]
  BY <1>1, <1>2, Zenon
<1>4. /\ states'[p] = Append(states[p], b)
      /\ \A q \in Proc \ {p} : states'[q] = states[q]
  BY <1>1
<1>5. Len(states'[p]) <= Len(Requested[p])
  BY <1>1, <1>2, <1>4
<1>6. \A q \in Proc \ {p} : Len(states'[q]) <= Len(Requested[q])
  BY <1>4 DEF TypeOK
<1>7. QED
  BY <1>3, <1>5, <1>6

LEMMA NextTypeOK ==
  ASSUME TypeOK, NEW p \in Proc, Act(p)
  PROVE  TypeOK'
<1> USE DEF TypeOK
<1>0. /\ Requested[p] \in Seq(Device) /\ Len(Requested[p]) \in Nat
      /\ DOMAIN Requested[p] = 1 .. Len(Requested[p])
      /\ Len(states[p]) \in Nat
  BY RequestType, StatesType
<1>1. CASE BeginInit(p)
  BY <1>1 DEF BeginInit
<1>2. CASE StateCreated(p)
  <2> DEFINE d == Requested[p][Len(states[p]) + 1]
  <2>1. d \in Device
    BY <1>2, NextRequest DEF StateCreated
  <2>2. session' \in [Device -> Proc \union {"none"}]
    BY <1>2, <2>1 DEF StateCreated
  <2>3. states' \in [Proc -> Seq(BOOLEAN)] /\ \A q \in Proc : Len(states'[q]) <= Len(Requested[q])
    BY <1>0, <1>2, MoreStates DEF StateCreated
  <2>4. QED
    BY <1>2, <2>2, <2>3 DEF StateCreated
<1>3. CASE StateFailed(p)
  <2>1. states' \in [Proc -> Seq(BOOLEAN)] /\ \A q \in Proc : Len(states'[q]) <= Len(Requested[q])
    BY <1>0, <1>3, MoreStates DEF StateFailed
  <2>2. QED
    BY <1>3, <2>1 DEF StateFailed
<1>4. CASE InitSucceeds(p)
  <2>1. Initialized(p) \subseteq Device
    <3>1. ASSUME NEW i \in DOMAIN Requested[p] PROVE Requested[p][i] \in Device
      BY <1>0, ElementOfSeq
    <3>2. QED
      BY <3>1 DEF Initialized
  <2>2. QED
    BY <1>4, <2>1 DEF InitSucceeds
<1>5. CASE InitFails(p)
  BY <1>5 DEF InitFails
<1>6. CASE Destroy(p)
  BY <1>6 DEF Destroy
<1>7. CASE ClearHandle(p)
  BY <1>7 DEF ClearHandle
<1>8. CASE Unregister(p)
  BY <1>8 DEF Unregister
<1>9. CASE PollerStep(p)
  BY <1>9 DEF PollerStep, CollectorStarts, PollChecks, PollEnters, PollReturns, CollectorEnds
<1>10. CASE Cancel(p) \/ BeginClose(p)
  BY <1>10 DEF Cancel, BeginClose
<1>11. CASE Exit(p)
  BY <1>11 DEF Exit
<1>12. CASE CannotStart(p) \/ NewReporter(p)
  BY <1>12 DEF CannotStart, NewReporter
<1>13. QED
  BY <1>1, <1>2, <1>3, <1>4, <1>5, <1>6, <1>7, <1>8, <1>9, <1>10, <1>11, <1>12
     DEF Act, CallerStep

LEMMA OthersKeep ==
  ASSUME IInv, NEW p \in Proc, Act(p), NEW q \in Proc, q # p
  PROVE  ProcInv(q)'
<1> USE DEF IInv, TypeOK
<1>1. /\ main'[q] = main[q] /\ states'[q] = states[q] /\ registry'[q] = registry[q]
      /\ poller'[q] = poller[q] /\ (q \in native' <=> q \in native)
  BY DEF Act, CallerStep, PollerStep, CannotStart, BeginInit, StateCreated, StateFailed,
     InitSucceeds, InitFails, NewReporter, Destroy, ClearHandle, Unregister, CollectorStarts,
     PollChecks, PollEnters, PollReturns, CollectorEnds, Cancel, BeginClose, Exit
<1>2. \A d \in Device : session'[d] = q <=> session[d] = q
  <2>1. q # "none"
    BY LifecycleAssumption
  <2>2. CASE StateCreated(p)
    BY <2>1, <2>2 DEF StateCreated
  <2>3. CASE Destroy(p) \/ Exit(p)
    <3>1. session' = [d \in Device |-> IF session[d] = p THEN "none" ELSE session[d]]
      BY <2>3 DEF Destroy, Exit
    <3>2. QED
      BY <2>1, <3>1
  <2>4. CASE ~(StateCreated(p) \/ Destroy(p) \/ Exit(p))
    BY <2>4 DEF Act, CallerStep, PollerStep, CannotStart, BeginInit, StateFailed, InitSucceeds,
       InitFails, NewReporter, ClearHandle, Unregister, CollectorStarts, PollChecks, PollEnters, PollReturns, CollectorEnds, Cancel,
       BeginClose
  <2>5. QED
    BY <2>2, <2>3, <2>4
<1>3. Held(q)' = Held(q)
  BY <1>2 DEF Held
<1>4. Sampled(q)' = Sampled(q)
  BY <1>1 DEF Sampled
<1>5. HeldInv(q)'
  BY <1>1, <1>3, <1>4 DEF ProcInv, HeldInv
<1>6. RegistryInv(q)'
  BY <1>1, <1>3 DEF ProcInv, RegistryInv
<1>7. PollerInv(q)'
  BY <1>1 DEF ProcInv, PollerInv
<1>8. QED
  BY <1>5, <1>6, <1>7 DEF ProcInv

(***************************************************************************)
(* The steps of a process keep what holds of it.                           *)
(***************************************************************************)

(* One more state, initialized or not, is one more device sampled, or none. *)
LEMMA OneMoreState ==
  ASSUME TypeOK, NEW p \in Proc, NEW b \in BOOLEAN, states' = [states EXCEPT ![p] = Append(@, b)]
  PROVE  Sampled(p)' = Sampled(p) \union
           (IF b THEN {Requested[p][Len(states[p]) + 1]} ELSE {})
<1> DEFINE s == states[p]
           t == states'[p]
<1>1. s \in Seq(BOOLEAN) /\ t = Append(s, b)
  BY DEF TypeOK
<1>2. /\ Len(s) \in Nat /\ DOMAIN s = 1 .. Len(s) /\ DOMAIN t = 1 .. Len(s) + 1
      /\ \A i \in 1 .. Len(s) : t[i] = s[i]
      /\ t[Len(s) + 1] = b
  BY <1>1
<1> HIDE DEF s, t
<1>3. \A i \in 1 .. Len(s) + 1 : i \in 1 .. Len(s) \/ i = Len(s) + 1
  BY <1>2
<1>4. Sampled(p) = {Requested[p][i] : i \in {j \in DOMAIN s : s[j]}}
  BY DEF Sampled, s
<1>5. Sampled(p)' = {Requested[p][i] : i \in {j \in DOMAIN t : t[j]}}
  BY DEF Sampled, t
<1>6. ASSUME NEW d \in Sampled(p)'
      PROVE  d \in Sampled(p) \union (IF b THEN {Requested[p][Len(s) + 1]} ELSE {})
  <2>1. PICK i \in DOMAIN t : t[i] /\ d = Requested[p][i]
    BY <1>5, <1>6
  <2>2. CASE i \in 1 .. Len(s)
    BY <1>2, <1>4, <2>1, <2>2
  <2>3. CASE i = Len(s) + 1
    BY <1>2, <2>1, <2>3
  <2>4. QED
    BY <1>2, <1>3, <2>1, <2>2, <2>3
<1>7. ASSUME NEW d \in Sampled(p) \union (IF b THEN {Requested[p][Len(s) + 1]} ELSE {})
      PROVE  d \in Sampled(p)'
  <2>1. CASE d \in Sampled(p)
    <3>1. PICK i \in DOMAIN s : s[i] /\ d = Requested[p][i]
      BY <1>4, <2>1
    <3>2. i \in DOMAIN t /\ t[i]
      BY <1>2, <3>1
    <3>3. QED
      BY <1>5, <3>1, <3>2
  <2>2. CASE b /\ d = Requested[p][Len(s) + 1]
    <3>1. Len(s) + 1 \in DOMAIN t /\ t[Len(s) + 1]
      BY <1>2, <2>2
    <3>2. QED
      BY <1>5, <2>2, <3>1
  <2>3. QED
    BY <1>7, <2>1, <2>2
<1>8. QED
  BY <1>6, <1>7 DEF s

LEMMA CreateKeeps ==
  ASSUME IInv, NEW p \in Proc, StateCreated(p) \/ StateFailed(p)
  PROVE  ProcInv(p)'
<1> DEFINE d == Requested[p][Len(states[p]) + 1]
<1>1. TypeOK /\ ProcInv(p)
  BY DEF IInv
<1>2. /\ main[p] = "creating" /\ p \in native
      /\ UNCHANGED <<main, native, registry, poller>>
  BY <1>1 DEF StateCreated, StateFailed, ProcInv, HeldInv
<1>3. Len(states[p]) + 1 \in DOMAIN Requested[p] /\ d \in Device
  BY <1>1, NextRequest DEF StateCreated, StateFailed
<1>4. Held(p)' = Sampled(p)'
  <2>1. CASE StateCreated(p)
    <3>1. states' = [states EXCEPT ![p] = Append(@, TRUE)] /\ session' = [session EXCEPT ![d] = p]
      BY <2>1 DEF StateCreated
    <3>2. Sampled(p)' = Sampled(p) \union {d}
      BY <1>1, <3>1, OneMoreState
    <3>3. Held(p)' = Held(p) \union {d}
      BY <1>1, <1>3, <3>1 DEF Held, TypeOK
    <3>4. QED
      BY <1>1, <1>2, <3>2, <3>3 DEF ProcInv, HeldInv
  <2>2. CASE StateFailed(p)
    <3>1. states' = [states EXCEPT ![p] = Append(@, FALSE)] /\ session' = session
      BY <2>2 DEF StateFailed
    <3>2. Sampled(p)' = Sampled(p)
      BY <1>1, <3>1, OneMoreState
    <3>3. Held(p)' = Held(p)
      BY <3>1 DEF Held
    <3>4. QED
      BY <1>1, <1>2, <3>2, <3>3 DEF ProcInv, HeldInv
  <2>3. QED
    BY <2>1, <2>2
<1>5. QED
  BY <1>1, <1>2, <1>4 DEF ProcInv, HeldInv, RegistryInv, PollerInv

(* Init registers only devices whose first state holds a session. *)
LEMMA InitKeeps ==
  ASSUME IInv, NEW p \in Proc,
         CannotStart(p) \/ BeginInit(p) \/ InitSucceeds(p) \/ InitFails(p)
  PROVE  ProcInv(p)'
<1>1. TypeOK /\ ProcInv(p)
  BY DEF IInv
<1>2. CASE BeginInit(p)
  <2>1. /\ main'[p] = "creating" /\ native' = native \union {p} /\ states' = states
        /\ Held(p)' = Held(p) /\ registry' = registry /\ poller' = poller
    BY <1>1, <1>2 DEF BeginInit, Held, TypeOK
  <2>2. states[p] = <<>> /\ registry[p] = {} /\ poller[p] = "off"
    BY <1>1, <1>2 DEF BeginInit, ProcInv, HeldInv, RegistryInv, PollerInv
  <2>3. Sampled(p)' = {} /\ Sampled(p) = {}
    BY <2>1, <2>2 DEF Sampled
  <2>4. QED
    BY <1>1, <2>1, <2>2, <2>3 DEF ProcInv, HeldInv, RegistryInv, PollerInv
<1>3. CASE InitSucceeds(p)
  <2>1. /\ main[p] = "creating" /\ main'[p] = "initialized" /\ p \in native
        /\ native' = native /\ states' = states /\ Held(p)' = Held(p) /\ poller' = poller
        /\ registry[p] = {} /\ registry'[p] = Initialized(p) /\ Initialized(p) # {}
        /\ Len(states[p]) = Len(Requested[p])
    BY <1>1, <1>3 DEF InitSucceeds, Held, TypeOK, ProcInv, HeldInv, RegistryInv
  <2>2. DOMAIN states[p] = DOMAIN Requested[p]
    BY <1>1, <2>1, RequestType, StatesType
  <2>3. Initialized(p) \subseteq Sampled(p)
    BY <2>2 DEF Initialized, Sampled
  <2>4. Held(p) = Sampled(p) /\ Sampled(p)' = Sampled(p)
    BY <1>1, <2>1 DEF ProcInv, HeldInv, Sampled
  <2>5. poller[p] = "off"
    BY <1>1, <2>1 DEF ProcInv, PollerInv, InInit
  <2>6. QED
    BY <2>1, <2>3, <2>4, <2>5 DEF ProcInv, HeldInv, RegistryInv, PollerInv, InInit
<1>4. CASE InitFails(p)
  <2>1. /\ main[p] = "creating" /\ main'[p] = "closing in Init" /\ native' = native
        /\ states' = states /\ Held(p)' = Held(p) /\ poller' = poller
    BY <1>1, <1>4 DEF InitFails, Held, TypeOK
  <2>2. QED
    BY <1>1, <2>1 DEF ProcInv, HeldInv, RegistryInv, PollerInv, Sampled, InInit
<1>5. CASE CannotStart(p)
  <2>1. /\ main[p] = "start" /\ main'[p] = "init error" /\ native' = native /\ states' = states
        /\ Held(p)' = Held(p) /\ poller' = poller
    BY <1>1, <1>5 DEF CannotStart, Held, TypeOK
  <2>2. QED
    BY <1>1, <2>1 DEF ProcInv, HeldInv, RegistryInv, PollerInv, Sampled, InInit
<1>6. QED
  BY <1>2, <1>3, <1>4, <1>5

LEMMA CloseKeeps ==
  ASSUME IInv, NEW p \in Proc,
         \/ NewReporter(p) \/ Destroy(p) \/ ClearHandle(p) \/ Unregister(p)
         \/ BeginClose(p) \/ Exit(p)
  PROVE  ProcInv(p)'
<1>1. TypeOK /\ ProcInv(p)
  BY DEF IInv
<1>2. CASE Destroy(p) \/ Exit(p)
  <2>1. p \notin native' /\ Held(p)' = {}
    <3>1. native' = native \ {p} /\ p # "none"
          /\ session' = [d \in Device |-> IF session[d] = p THEN "none" ELSE session[d]]
      BY <1>2, LifecycleAssumption DEF Destroy, Exit
    <3>2. \A d \in Device : session'[d] # p
      BY <3>1
    <3>3. QED
      BY <3>1, <3>2 DEF Held
  <2>2. CASE Destroy(p)
    <3>1. main[p] \in {"closing", "closing in Init"} /\ poller' = poller
          /\ main'[p] = IF main[p] = "closing" THEN "destroyed" ELSE "destroyed in Init"
      BY <1>1, <2>2 DEF Destroy, TypeOK
    <3>2. QED
      BY <1>1, <2>1, <3>1 DEF ProcInv, HeldInv, RegistryInv, PollerInv, InInit
  <2>3. CASE Exit(p)
    <3>1. main'[p] = "exited" /\ poller'[p] = "off"
      BY <1>1, <2>3 DEF Exit, TypeOK
    <3>2. QED
      BY <2>1, <3>1 DEF ProcInv, HeldInv, RegistryInv, PollerInv, InInit
  <2>4. QED
    BY <1>2, <2>2, <2>3
<1>3. CASE ClearHandle(p) \/ Unregister(p) \/ BeginClose(p)
  <2>1. native' = native /\ states' = states /\ Held(p)' = Held(p) /\ poller' = poller
    BY <1>3 DEF ClearHandle, Unregister, BeginClose, Held
  <2>2. HeldInv(p)' /\ RegistryInv(p)'
    <3>1. main'[p] \in {"closing", "unregister", "unregister in Init", "closed", "init error"}
      BY <1>1, <1>3 DEF ClearHandle, Unregister, BeginClose, TypeOK
    <3>2. QED
      BY <1>1, <2>1, <3>1 DEF ProcInv, HeldInv, RegistryInv, Sampled
  <2>3. PollerInv(p)'
    <3>1. CASE ClearHandle(p)
      <4>1. \/ main[p] = "destroyed" /\ main'[p] = "unregister"
            \/ main[p] = "destroyed in Init" /\ main'[p] = "unregister in Init"
        BY <1>1, <3>1 DEF ClearHandle, TypeOK
      <4>2. QED
        BY <1>1, <2>1, <4>1 DEF ProcInv, PollerInv, InInit
    <3>2. CASE Unregister(p)
      BY <1>1, <2>1, <3>2 DEF Unregister, TypeOK, ProcInv, PollerInv, InInit
    <3>3. CASE BeginClose(p)
      BY <1>1, <2>1, <3>3 DEF BeginClose, TypeOK, ProcInv, PollerInv, InInit
    <3>4. QED
      BY <1>3, <3>1, <3>2, <3>3
  <2>4. QED
    BY <2>2, <2>3 DEF ProcInv
<1>4. CASE NewReporter(p)
  <2>1. /\ main[p] = "initialized" /\ native' = native /\ states' = states
        /\ registry' = registry /\ Held(p)' = Held(p)
    BY <1>4 DEF NewReporter, Held
  <2>2. \/ main'[p] = "running"
        \/ main'[p] = "closing" /\ poller'[p] = poller[p]
    BY <1>1, <1>4 DEF NewReporter, TypeOK
  <2>3. poller[p] = "off"
    BY <1>1, <2>1 DEF ProcInv, PollerInv
  <2>4. QED
    BY <1>1, <2>1, <2>2, <2>3 DEF ProcInv, HeldInv, RegistryInv, PollerInv, Sampled, InInit
<1>5. QED
  BY <1>2, <1>3, <1>4

LEMMA PollKeeps ==
  ASSUME IInv, NEW p \in Proc, PollerStep(p) \/ Cancel(p)
  PROVE  ProcInv(p)'
<1>1. TypeOK /\ ProcInv(p)
  BY DEF IInv
<1>2. UNCHANGED <<main, native, states, registry, session>>
  BY DEF PollerStep, CollectorStarts, PollChecks, PollEnters, PollReturns, CollectorEnds, Cancel
<1>3. poller'[p] # poller[p] => poller[p] \notin {"off", "done"}
  BY <1>1 DEF PollerStep, CollectorStarts, PollChecks, PollEnters, PollReturns, CollectorEnds, Cancel, TypeOK
<1>4. QED
  BY <1>1, <1>2, <1>3 DEF ProcInv, HeldInv, RegistryInv, PollerInv, Held, Sampled

LEMMA NextIInv == IInv /\ [Next]_vars => IInv'
<1> SUFFICES ASSUME IInv, [Next]_vars PROVE IInv'
  OBVIOUS
<1>1. ASSUME NEW p \in Proc, Act(p) PROVE IInv'
  <2>1. TypeOK'
    BY <1>1, NextTypeOK DEF IInv
  <2>2. ProcInv(p)'
    BY <1>1, CreateKeeps, InitKeeps, CloseKeeps, PollKeeps DEF Act, CallerStep
  <2>3. \A q \in Proc \ {p} : ProcInv(q)'
    BY <1>1, OthersKeep
  <2>4. QED
    BY <2>1, <2>2, <2>3 DEF IInv
<1>2. CASE UNCHANGED vars
  <2>1. TypeOK'
    BY <1>2 DEF vars, IInv, TypeOK
  <2>2. \A p \in Proc : Held(p)' = Held(p) /\ Sampled(p)' = Sampled(p)
    BY <1>2 DEF vars, Held, Sampled
  <2>3. QED
    BY <1>2, <2>1, <2>2 DEF vars, IInv, ProcInv, HeldInv, RegistryInv, PollerInv
<1>3. QED
  BY <1>1, <1>2 DEF Next, Act

LEMMA Inductive == Spec => []IInv
BY InitIInv, NextIInv, PTL DEF Spec

(* Every variable stays in its type, and no process has more states than   *)
(* devices it asked for (multi_create).                                    *)
THEOREM TypeCorrect == Spec => []TypeOK
<1>1. IInv => TypeOK
  BY DEF IInv
<1>2. QED
  BY <1>1, Inductive, PTL

(* No session outlives the sampler that holds it, whatever fails, a device *)
(* that Init lists is in a session of its process, and no local process    *)
(* polls a sampler that Close has destroyed (Init, Poll, Close).           *)
THEOREM AccountsForSessions == Spec => []SessionsAccounted
<1>1. IInv => NothingLeaked
  BY DEF IInv, ProcInv, HeldInv, Sampled, NothingLeaked
<1>2. IInv => RegistryHeld
  BY DEF IInv, ProcInv, RegistryInv, RegistryHeld
<1>3. IInv => NoPollAfterDestroy
  <2> SUFFICES ASSUME IInv, NEW p \in Local, poller[p] \in {"checked", "inside"}
               PROVE  p \in native
    BY DEF NoPollAfterDestroy
  <2>1. p \in Proc /\ ProcInv(p) /\ TypeOK
    BY LifecycleAssumption DEF IInv
  <2>2. main[p] = "running"
    BY <2>1 DEF TypeOK, ProcInv, PollerInv, InInit
  <2>3. QED
    BY <2>1, <2>2 DEF ProcInv, HeldInv
<1>4. IInv => SessionsAccounted
  BY <1>1, <1>2, <1>3 DEF SessionsAccounted
<1>5. QED
  BY <1>4, Inductive, PTL

-----------------------------------------------------------------------------
(***************************************************************************)
(* Passes.                                                                 *)
(***************************************************************************)

\* The image of a rotation after a number of its passes, none left out.
Done(n) == {<<rotation, (StartPass + o) % NumPasses>> : o \in 0 .. n - 1}

LEMMA PassInRange == ASSUME NEW o \in Nat PROVE (StartPass + o) % NumPasses \in Pass
  BY EngineAssumption DEF Pass

\* A rotation that starts anywhere comes by every pass.
LEMMA AllPasses == {x[2] : x \in Done(NumPasses)} = Pass
<1>1. ASSUME NEW x \in Done(NumPasses) PROVE x[2] \in Pass
  <2>1. PICK o \in 0 .. NumPasses - 1 : x = <<rotation, (StartPass + o) % NumPasses>>
    BY DEF Done
  <2>2. o \in Nat
    OBVIOUS
  <2> QED
    BY <2>1, <2>2, PassInRange
<1>2. ASSUME NEW p \in Pass PROVE \E x \in Done(NumPasses) : x[2] = p
  <2> DEFINE o == IF p >= StartPass THEN p - StartPass ELSE (p - StartPass) + NumPasses
  <2>1. p \in 0 .. NumPasses - 1 /\ StartPass \in 0 .. NumPasses - 1 /\ NumPasses \in Nat \ {0}
    BY EngineAssumption DEF Pass
  <2>2. o \in 0 .. NumPasses - 1
    BY <2>1
  <2>3. (StartPass + o) % NumPasses = p
    <3>1. CASE p >= StartPass
      <4>1. StartPass + o = p
        BY <2>1, <3>1
      <4> QED
        BY <2>1, <4>1
    <3>2. CASE ~(p >= StartPass)
      <4>1. StartPass + o = p + NumPasses
        BY <2>1, <3>2
      <4>2. (p + NumPasses) % NumPasses = p
        BY <2>1
      <4> QED
        BY <4>1, <4>2
    <3> QED
      BY <3>1, <3>2
  <2> HIDE DEF o
  <2>4. <<rotation, (StartPass + o) % NumPasses>> \in Done(NumPasses)
    BY <2>2 DEF Done
  <2>5. <<rotation, (StartPass + o) % NumPasses>>[2] = p
    BY <2>3
  <2> QED
    BY <2>4, <2>5
<1> QED
  BY <1>1, <1>2

\* One pass more.
LEMMA DoneNext ==
  ASSUME NEW n \in Nat
  PROVE  Done(n + 1) = Done(n) \union {<<rotation, (StartPass + n) % NumPasses>>}
<1>1. 0 .. (n + 1) - 1 = (0 .. n - 1) \union {n}
  OBVIOUS
<1> QED
  BY <1>1, Zenon DEF Done
-----------------------------------------------------------------------------
(***************************************************************************)
(* Types.                                                                  *)
(***************************************************************************)
LEMMA Sequences ==
  ASSUME EngineTypeOK
  PROVE  /\ ring \in Seq(Window) /\ Len(ring) \in Nat /\ Len(ring) <= MaxRingRecords
         /\ published \in Seq(Window) /\ Len(published) \in Nat
         /\ taken \in 0 .. Len(published)
<1>1. /\ ring \in Seq(Window) /\ Len(ring) <= MaxRingRecords
      /\ published \in Seq(Window) /\ taken \in 0 .. Len(published)
  BY DEF EngineTypeOK
<1>2. Len(ring) \in Nat /\ Len(published) \in Nat
  BY <1>1, LenProperties
<1> QED
  BY <1>1, <1>2

LEMMA Numbers ==
  ASSUME EngineTypeOK
  PROVE  /\ rotation \in Nat /\ offset \in Nat /\ offset <= NumPasses
         /\ triggers \in Nat /\ triggers <= TriggersPerPass
         /\ merged \in Nat /\ lastTime \in Nat /\ warmup \in Nat /\ warmup <= WarmupRotations
<1>1. /\ rotation \in Nat /\ offset \in 0 .. NumPasses /\ triggers \in 0 .. TriggersPerPass
      /\ merged \in Nat /\ lastTime \in Nat /\ warmup \in 0 .. WarmupRotations
  BY Zenon DEF EngineTypeOK
<1> QED
  BY <1>1, EngineAssumption

LEMMA NoWindows == <<>> \in Seq(Window) /\ Len(<<>>) = 0 /\ {} \in Window
<1>1. {} \in Window
  BY DEF Window
<1>2. <<>> \in Seq(Window) /\ Len(<<>>) = 0
  BY EmptySeq
<1> QED
  BY <1>1, <1>2

LEMMA InitType == EngineInit => EngineTypeOK
<1> SUFFICES ASSUME EngineInit PROVE EngineTypeOK
  OBVIOUS
<1>1. /\ ring \in Seq(Window) /\ Len(ring) <= MaxRingRecords
      /\ published \in Seq(Window) /\ taken \in 0 .. Len(published)
  BY EngineAssumption, NoWindows DEF EngineInit
<1>2. image \in Window
  BY NoWindows DEF EngineInit
<1>3. /\ rotation \in Nat /\ offset \in 0 .. NumPasses /\ triggers \in 0 .. TriggersPerPass
      /\ merged \in Nat /\ warmup \in 0 .. WarmupRotations /\ lastTime \in Nat
  BY EngineAssumption DEF EngineInit
<1> QED
  BY <1>1, <1>2, <1>3 DEF EngineInit, EngineTypeOK

LEMMA EmitType ==
  ASSUME EngineTypeOK, NEW window \in Window, Emit(window)
  PROVE  /\ ring' \in Seq(Window) /\ Len(ring') <= MaxRingRecords
         /\ published' \in Seq(Window) /\ Len(published') = Len(published) + 1
<1>1. published' \in Seq(Window) /\ Len(published') = Len(published) + 1
  BY Sequences, AppendProperties DEF Emit
<1>2. ring' \in Seq(Window) /\ Len(ring') <= MaxRingRecords
  <2>0. ring \in Seq(Window) /\ Len(ring) \in Nat /\ MaxRingRecords \in Nat \ {0} /\ Len(ring) <= MaxRingRecords
    BY EngineAssumption, Sequences
  <2>1. CASE Len(ring) < MaxRingRecords
    <3>1. ring' = Append(ring, window)
      BY <2>1 DEF Emit
    <3> QED
      BY <2>0, <2>1, <3>1, AppendProperties
  <2>2. CASE ~(Len(ring) < MaxRingRecords)
    <3>1. ring' = Append(Tail(ring), window) /\ Len(ring) # 0
      BY <2>0, <2>2 DEF Emit
    <3>2. Tail(ring) \in Seq(Window) /\ Len(Tail(ring)) = Len(ring) - 1
      BY <2>0, <3>1, EmptySeq, HeadTailProperties
    <3>3. ring' \in Seq(Window) /\ Len(ring') = Len(Tail(ring)) + 1
      BY <3>1, <3>2, AppendProperties
    <3> QED
      BY <2>0, <3>2, <3>3
  <2> QED
    BY <2>1, <2>2
<1> QED
  BY <1>1, <1>2

LEMMA PublishType ==
  ASSUME EngineTypeOK, MaybePublish
  PROVE  /\ ring' \in Seq(Window) /\ Len(ring') <= MaxRingRecords
         /\ published' \in Seq(Window) /\ Len(published') >= Len(published)
         /\ warmup' \in 0 .. WarmupRotations /\ lastTime' \in Nat
<1>1. CASE UNCHANGED output
  <2>1. warmup' \in 0 .. WarmupRotations /\ lastTime' \in Nat
    BY <1>1 DEF EngineTypeOK, output
  <2> QED
    BY <1>1, <2>1, Sequences DEF output
<1>2. CASE PublishLatest
  <2>1. CASE merged = lastTime
    BY <1>1, <1>2, <2>1 DEF PublishLatest
  <2>2. CASE merged # lastTime /\ warmup > 0
    <3>1. /\ UNCHANGED <<ring, published>>
          /\ warmup' = warmup - 1 /\ lastTime' = merged
      BY <1>2, <2>2 DEF PublishLatest
    <3>2. warmup' \in 0 .. WarmupRotations /\ lastTime' \in Nat
      BY <2>2, <3>1, EngineAssumption, Numbers
    <3> QED
      BY <3>1, <3>2, Sequences
  <2>3. CASE merged # lastTime /\ ~(warmup > 0)
    <3>1. Emit(image) /\ lastTime' = merged /\ warmup' = warmup /\ image \in Window
      BY <1>2, <2>3 DEF PublishLatest, EngineTypeOK
    <3>2. /\ ring' \in Seq(Window) /\ Len(ring') <= MaxRingRecords
          /\ published' \in Seq(Window) /\ Len(published') = Len(published) + 1
      BY <3>1, EmitType
    <3>3. warmup' \in 0 .. WarmupRotations /\ lastTime' \in Nat
      BY <3>1 DEF EngineTypeOK
    <3> QED
      BY <3>2, <3>3, Sequences
  <2> QED
    BY <2>1, <2>2, <2>3
<1> QED
  BY <1>1, <1>2 DEF MaybePublish

\* What the worker is at in a rotation.
PassInv ==
  /\ pc \in {"sampling", "decode"} => offset < NumPasses
  /\ image \subseteq {rotation} \X Pass
  /\ pc \in {"pass", "sampling", "decode"} /\ ~stopWorker => image = Done(offset)
  /\ pc = "decode" /\ ~stopWorker => triggers = TriggersPerPass
  /\ pc = "publish" => image = Done(NumPasses)

\* Who has joined the worker finds it ended.
JoinInv == caller \in {"clearing", "closed"} => pc = "ended"

LEMMA WorkerType == ASSUME EngineTypeOK, PassInv, Worker PROVE EngineTypeOK'
<1> USE EngineAssumption
<1>1. CASE DelayEnds \/ BeginRotation \/ StartPassOK \/ StartPassFails \/ RotationEnds \/ StopSeen
  <2>1. /\ rotation' \in Nat /\ offset' \in 0 .. NumPasses /\ triggers' \in 0 .. TriggersPerPass
        /\ image' \in Window
    <3>1. /\ rotation' \in {rotation, rotation + 1} /\ offset' \in {offset, 0}
          /\ triggers' \in {triggers, 0} /\ image' \in {image, {}}
      BY <1>1 DEF DelayEnds, BeginRotation, StartPassOK, StartPassFails, RotationEnds, StopSeen,
         progress
    <3>2. image \in Window
      BY DEF EngineTypeOK
    <3> QED
      BY <3>1, <3>2, Numbers, NoWindows
  <2> QED
    BY <1>1, <2>1 DEF DelayEnds, BeginRotation, StartPassOK, StartPassFails, RotationEnds, StopSeen,
       EngineTypeOK, output
<1>2. CASE Trigger
  BY <1>2 DEF Trigger, EngineTypeOK, output
<1>3. CASE TriggerFails \/ StopPass \/ PublishFails \/ FinalStop
  BY <1>3 DEF TriggerFails, StopPass, PublishFails, FinalStop, EngineTypeOK, progress, output
<1>4. CASE Decode \/ DecodeFails
  <2>0. pc = "decode" /\ UNCHANGED <<rotation, triggers>> /\ offset' \in {offset, offset + 1}
    BY <1>4 DEF Decode, DecodeFails, progress
  <2>1. offset' \in 0 .. NumPasses
    BY <2>0, Numbers DEF PassInv
  <2>2. <<rotation, PassIndex>> \in Nat \X Pass
    <3>1. rotation \in Nat /\ offset \in Nat
      BY Numbers
    <3> QED
      BY <3>1, PassInRange DEF PassIndex
  <2>3. image' \in Window /\ merged' \in Nat
    <3>1. MergePass \/ UNCHANGED <<image, merged>>
      BY <1>4 DEF Decode, DecodeFails
    <3>2. image \in Window /\ merged \in Nat
      BY DEF EngineTypeOK
    <3>3. CASE MergePass
      BY <2>2, <3>2, <3>3 DEF MergePass, Window
    <3>4. CASE UNCHANGED <<image, merged>>
      BY <3>2, <3>4
    <3> QED
      BY <3>1, <3>3, <3>4
  <2>4. /\ UNCHANGED <<active, inSession, stopFailed, warmup, lastTime, ring, published, taken>>
        /\ UNCHANGED <<caller, stopWorker>> /\ pc' \in {"pass", "final"}
    BY <1>4 DEF Decode, DecodeFails, output
  <2> QED
    BY <2>0, <2>1, <2>3, <2>4 DEF EngineTypeOK
<1>5. CASE Publish \/ FinalPublish
  <2>1. MaybePublish /\ taken' = taken
    BY <1>5 DEF Publish, FinalPublish
  <2>2. taken' \in 0 .. Len(published')
    <3>1. Len(published') \in Nat /\ Len(published') >= Len(published) /\ Len(published) \in Nat
      BY <2>1, PublishType, Sequences, LenProperties
    <3> QED
      BY <2>1, <3>1, Sequences
  <2>3. /\ ring' \in Seq(Window) /\ Len(ring') <= MaxRingRecords
        /\ published' \in Seq(Window)
        /\ warmup' \in 0 .. WarmupRotations /\ lastTime' \in Nat
    BY <2>1, PublishType
  <2> QED
    BY <1>5, <2>2, <2>3 DEF Publish, FinalPublish, EngineTypeOK, progress
<1> QED
  BY <1>1, <1>2, <1>3, <1>4, <1>5 DEF Worker

LEMMA CallerType == ASSUME EngineTypeOK, Poll \/ BeginCleanup \/ Cleanup PROVE EngineTypeOK'
<1> USE EngineAssumption
<1>1. /\ Len(published) \in Nat /\ published \in Seq(Window) /\ Len(<<>>) <= MaxRingRecords
      /\ <<>> \in Seq(Window) /\ {} \in Window
  BY NoWindows, Sequences
<1>2. CASE Poll
  <2>1. /\ ring' \in Seq(Window) /\ Len(ring') <= MaxRingRecords
        /\ published' \in Seq(Window) /\ taken' \in 0 .. Len(published')
    BY <1>1, <1>2 DEF Poll
  <2> QED
    BY <1>2, <2>1 DEF Poll, EngineTypeOK, progress
<1>3. CASE BeginCleanup
  BY <1>3 DEF BeginCleanup, EngineTypeOK, progress, output
<1>4. CASE EndSession
  BY <1>4 DEF EndSession, EngineTypeOK, progress, output
<1>5. CASE ClearAll
  <2>1. /\ ring' \in Seq(Window) /\ Len(ring') <= MaxRingRecords
        /\ published' \in Seq(Window) /\ taken' \in 0 .. Len(published')
        /\ image' \in Window /\ warmup' \in 0 .. WarmupRotations /\ lastTime' \in Nat
    BY <1>1, <1>5 DEF ClearAll
  <2> QED
    BY <1>5, <2>1 DEF ClearAll, EngineTypeOK, progress
<1> QED
  BY <1>2, <1>3, <1>4, <1>5 DEF Cleanup
-----------------------------------------------------------------------------
(***************************************************************************)
(* Passes and the session.                                                 *)
(***************************************************************************)
LEMMA WorkerPasses == ASSUME EngineTypeOK, PassInv, JoinInv, Worker PROVE PassInv'
<1> USE EngineAssumption
<1>1. CASE BeginRotation
  <2>1. image' = {} /\ offset' = 0 /\ pc' = "pass"
    BY <1>1 DEF BeginRotation
  <2>2. Done(offset)' = {}
    BY <2>1 DEF Done
  <2> QED
    BY <2>1, <2>2 DEF PassInv
<1>2. CASE Decode
  <2>0. /\ pc = "decode" /\ pc' = "pass" /\ offset' = offset + 1 /\ UNCHANGED <<rotation, stopWorker>>
        /\ offset \in Nat /\ PassIndex \in Pass
    BY <1>2, PassInRange DEF Decode, EngineTypeOK, PassIndex
  <2>1. image' \subseteq {rotation} \X Pass
    BY <1>2, <2>0 DEF Decode, MergePass, PassInv
  <2>2. ASSUME ~stopWorker PROVE image' = Done(offset)'
    <3>1. triggers > 0 /\ image = Done(offset)
      BY <2>0, <2>2 DEF PassInv
    <3>2. image' = image \union {<<rotation, (StartPass + offset) % NumPasses>>}
      BY <1>2, <3>1 DEF Decode, MergePass, PassIndex
    <3>3. Done(offset)' = Done(offset + 1)
      BY <2>0 DEF Done
    <3> QED
      BY <2>0, <3>1, <3>2, <3>3, DoneNext
  <2> QED
    BY <2>0, <2>1, <2>2 DEF PassInv
<1>3. CASE RotationEnds
  <2>1. /\ UNCHANGED <<rotation, offset, triggers, image, stopWorker>>
        /\ pc' = "final" \/ (pc' = "publish" /\ offset = NumPasses /\ pc = "pass" /\ ~stopWorker)
    BY <1>3 DEF RotationEnds, progress
  <2>2. \A n \in Int : Done(n)' = Done(n)
    BY <2>1 DEF Done
  <2> QED
    BY <2>1, <2>2 DEF PassInv
<1>4. CASE \/ DelayEnds \/ StartPassOK \/ StartPassFails \/ Trigger \/ TriggerFails \/ StopPass
           \/ StopSeen \/ Publish \/ PublishFails \/ FinalStop \/ FinalPublish
  <2>1. /\ UNCHANGED <<rotation, offset, image, stopWorker>>
        /\ pc' # "publish" /\ pc' # "pass"
        /\ pc' = "sampling" => pc \in {"pass", "sampling"} /\ offset < NumPasses
        /\ pc' = "decode" => /\ pc = "sampling" /\ UNCHANGED triggers
                             /\ stopWorker \/ triggers = TriggersPerPass
    BY <1>4 DEF DelayEnds, StartPassOK, StartPassFails, Trigger, TriggerFails, StopPass,
       StopSeen, Publish, PublishFails, FinalStop, FinalPublish, progress, PassInv
  <2>2. Done(offset)' = Done(offset)
    BY <2>1 DEF Done
  <2> QED
    BY <2>1, <2>2 DEF PassInv
<1>5. CASE DecodeFails
  <2>1. PassIndex \in Pass
    BY Numbers, PassInRange DEF PassIndex
  <2>2. image' \subseteq {rotation} \X Pass
    BY <1>5, <2>1 DEF DecodeFails, MergePass, PassInv
  <2>3. pc' = "final" /\ UNCHANGED rotation
    BY <1>5 DEF DecodeFails, progress
  <2> QED
    BY <2>2, <2>3 DEF PassInv
<1> QED
  BY <1>1, <1>2, <1>3, <1>4, <1>5 DEF Worker

LEMMA CallerPasses == ASSUME EngineTypeOK, PassInv, JoinInv, Poll \/ BeginCleanup \/ Cleanup PROVE PassInv'
<1>1. CASE Poll \/ BeginCleanup \/ EndSession
  <2>1. UNCHANGED <<pc, rotation, offset, triggers, image>> /\ (stopWorker => stopWorker')
    BY <1>1 DEF Poll, BeginCleanup, EndSession, progress
  <2>2. \A n \in Int : Done(n)' = Done(n)
    BY <2>1 DEF Done
  <2>3. Done(offset)' = Done(offset) /\ Done(NumPasses)' = Done(NumPasses)
    BY <2>1 DEF Done
  <2>4. stopWorker \in BOOLEAN /\ stopWorker' \in BOOLEAN
    BY <1>1 DEF Poll, BeginCleanup, EndSession, EngineTypeOK
  <2> QED
    BY <2>1, <2>3, <2>4 DEF PassInv
<1>2. CASE ClearAll
  <2>1. pc = "ended" /\ pc' = "ended" /\ image' = {}
    BY <1>2 DEF ClearAll, JoinInv
  <2> QED
    BY <2>1 DEF PassInv
<1> QED
  BY <1>1, <1>2 DEF Cleanup

LEMMA NextSession ==
  ASSUME EngineTypeOK, JoinInv, SessionOutlivesWorker, [EngineNext]_engineVars
  PROVE  JoinInv' /\ SessionOutlivesWorker'
<1> USE DEF JoinInv, SessionOutlivesWorker
<1>1. CASE Worker
  <2>1. pc # "ended" /\ UNCHANGED <<inSession, caller>>
    BY <1>1 DEF Worker, DelayEnds, BeginRotation, StartPassOK, StartPassFails, Trigger, TriggerFails,
       StopPass, Decode, DecodeFails, RotationEnds, StopSeen, Publish, PublishFails, FinalStop,
       FinalPublish
  <2> QED
    BY <2>1
<1>2. CASE Poll \/ BeginCleanup
  BY <1>2 DEF Poll, BeginCleanup
<1>3. CASE EndSession
  BY <1>3 DEF EndSession
<1>4. CASE ClearAll
  BY <1>4 DEF ClearAll
<1>5. CASE UNCHANGED engineVars
  BY <1>5 DEF engineVars
<1> QED
  BY <1>1, <1>2, <1>3, <1>4, <1>5 DEF EngineNext, Cleanup

SafeInv == EngineTypeOK /\ PassInv /\ JoinInv /\ SessionOutlivesWorker

LEMMA SafeInvariant == EngineSpec => []SafeInv
<1>1. EngineInit => SafeInv
  <2> SUFFICES ASSUME EngineInit PROVE SafeInv
    OBVIOUS
  <2>1. PassInv /\ JoinInv /\ SessionOutlivesWorker
    BY DEF EngineInit, PassInv, JoinInv, SessionOutlivesWorker
  <2> QED
    BY <2>1, InitType DEF SafeInv
<1>2. SafeInv /\ [EngineNext]_engineVars => SafeInv'
  <2> SUFFICES ASSUME SafeInv, [EngineNext]_engineVars PROVE SafeInv'
    OBVIOUS
  <2>1. EngineTypeOK'
    <3>1. CASE UNCHANGED engineVars
      BY <3>1 DEF SafeInv, EngineTypeOK, engineVars, progress, output
    <3> QED
      BY <3>1, WorkerType, CallerType DEF SafeInv, EngineNext
  <2>2. PassInv'
    <3>1. CASE UNCHANGED engineVars
      <4>1. Done(offset)' = Done(offset) /\ Done(NumPasses)' = Done(NumPasses)
        BY <3>1 DEF Done, engineVars, progress
      <4> QED
        BY <3>1, <4>1 DEF SafeInv, PassInv, engineVars, progress
    <3> QED
      BY <3>1, WorkerPasses, CallerPasses DEF SafeInv, EngineNext
  <2>3. JoinInv' /\ SessionOutlivesWorker'
    BY NextSession DEF SafeInv
  <2> QED
    BY <2>1, <2>2, <2>3 DEF SafeInv
<1> QED
  BY <1>1, <1>2, PTL DEF EngineSpec

\* The types of SamplerEngine hold.
THEOREM EngineTypeCorrect == EngineSpec => []EngineTypeOK
<1>1. SafeInv => EngineTypeOK
  BY DEF SafeInv
<1> QED
  BY <1>1, SafeInvariant, PTL

\* SessionOutlivesWorker holds: Cleanup ends the session when the worker has
\* ended, and leaves nothing sampling but what could not be stopped.
THEOREM SessionOutlives == EngineSpec => []SessionOutlivesWorker
<1>1. SafeInv => SessionOutlivesWorker
  BY DEF SafeInv
<1> QED
  BY <1>1, SafeInvariant, PTL
-----------------------------------------------------------------------------
(***************************************************************************)
(* Windows.                                                                *)
(***************************************************************************)

\* A rotation that has not been shown: under way, or decoded since the latest
\* publish.
Unshown == pc \in {"pass", "sampling", "decode"} \/ (image # {} /\ merged # lastTime)

\* No window is of a rotation that has not been shown.
HistoryInv ==
  \A i \in DOMAIN published : \A x \in published[i] :
    x[1] \in Nat /\ x[1] <= rotation /\ (Unshown => x[1] < rotation)

\* A rotation counts once for the warm-up, and one not shown has yet to count.
WarmInv ==
  pc # "ended" =>
    WarmupRotations <= warmup + rotation /\ (Unshown => WarmupRotations < warmup + rotation)

WholeInv == OneRotationEach /\ WholeRotations /\ WarmupHidden /\ EachOnce

OutInv == HistoryInv /\ WarmInv /\ WholeInv

\* A step that publishes nothing.
LEMMA NothingShown ==
  ASSUME EngineTypeOK, OutInv, published' = published,
         rotation' = rotation \/ rotation' = rotation + 1,
         Unshown' => Unshown \/ rotation' = rotation + 1,
         pc = "ended" => pc' = "ended",
         pc' # "ended" => warmup' = warmup
  PROVE  OutInv'
<1>0. rotation \in Nat /\ warmup \in Nat /\ WarmupRotations \in Nat
  BY Numbers, EngineAssumption
<1>1. HistoryInv'
  <2> SUFFICES ASSUME NEW i \in DOMAIN published, NEW x \in published[i]
               PROVE  x[1] \in Nat /\ x[1] <= rotation' /\ (Unshown' => x[1] < rotation')
    BY DEF HistoryInv
  <2>1. x[1] \in Nat /\ x[1] <= rotation /\ (Unshown => x[1] < rotation)
    BY DEF OutInv, HistoryInv
  <2> QED
    BY <1>0, <2>1
<1>2. WarmInv'
  <2> SUFFICES ASSUME pc' # "ended"
               PROVE  /\ WarmupRotations <= warmup' + rotation'
                      /\ Unshown' => WarmupRotations < warmup' + rotation'
    BY DEF WarmInv
  <2>1. WarmupRotations <= warmup + rotation /\ (Unshown => WarmupRotations < warmup + rotation)
    BY DEF OutInv, WarmInv
  <2> QED
    BY <1>0, <2>1
<1>3. WholeInv'
  BY DEF OutInv, WholeInv, OneRotationEach, WholeRotations, WarmupHidden, EachOnce
<1> QED
  BY <1>1, <1>2, <1>3 DEF OutInv

\* What is decoded may be shown.
LEMMA Showable ==
  ASSUME EngineTypeOK, PassInv, OutInv, pc \in {"publish", "last publish"}, image # {}, merged # lastTime
  PROVE  /\ Unshown /\ WarmupRotations < warmup + rotation
         /\ \A x \in image : x[1] = rotation
         /\ pc = "publish" => {x[2] : x \in image} = Pass
<1>1. Unshown
  BY DEF Unshown
<1>2. WarmupRotations < warmup + rotation
  BY <1>1 DEF OutInv, WarmInv
<1>3. \A x \in image : x[1] = rotation
  BY DEF PassInv
<1>4. pc = "publish" => {x[2] : x \in image} = Pass
  BY AllPasses DEF PassInv
<1> QED
  BY <1>1, <1>2, <1>3, <1>4

\* A publish that shows what was decoded.
Shows ==
  /\ pc \in {"publish", "last publish"} /\ image # {} /\ merged # lastTime /\ warmup = 0
  /\ published' = Append(published, image)
  /\ lastTime' = merged
  /\ pc' = IF pc = "publish" THEN "rotation" ELSE "ended"
  /\ UNCHANGED <<warmup, rotation, image, merged>>

\* A window joins those published before.
LEMMA WindowShown == ASSUME EngineTypeOK, PassInv, OutInv, Shows PROVE OutInv'
<1>0. /\ rotation \in Nat /\ WarmupRotations \in Nat /\ WarmupRotations < rotation
      /\ \A x \in image : x[1] = rotation
      /\ pc = "publish" => {x[2] : x \in image} = Pass
      /\ Unshown
  <2>1. /\ Unshown /\ WarmupRotations < warmup + rotation
        /\ \A x \in image : x[1] = rotation
        /\ pc = "publish" => {x[2] : x \in image} = Pass
    BY Showable DEF Shows
  <2>2. rotation \in Nat /\ WarmupRotations \in Nat /\ warmup = 0
    BY Numbers, EngineAssumption DEF Shows
  <2>3. WarmupRotations < rotation
    BY <2>1, <2>2
  <2> QED
    BY <2>1, <2>2, <2>3
<1> DEFINE n == Len(published)
<1>1. /\ n \in Nat /\ DOMAIN published = 1 .. n /\ DOMAIN published' = 1 .. n + 1
      /\ Len(published') = n + 1
      /\ \A i \in 1 .. n : published'[i] = published[i]
      /\ published'[n + 1] = image
  <2>1. published \in Seq(Window) /\ image \in Window
    BY Sequences DEF EngineTypeOK
  <2>2. n \in Nat /\ DOMAIN published = 1 .. n
    BY <2>1, LenProperties
  <2>3. /\ published' \in Seq(Window) /\ Len(published') = n + 1
        /\ \A i \in 1 .. n : published'[i] = published[i]
        /\ published'[n + 1] = image
    <3>1. published' = Append(published, image)
      BY DEF Shows
    <3> QED
      BY <2>1, <3>1, AppendProperties
  <2>4. DOMAIN published' = 1 .. n + 1
    BY <2>3, LenProperties
  <2> QED
    BY <2>2, <2>3, <2>4
<1> HIDE DEF n
<1>2. ASSUME NEW i \in 1 .. n
      PROVE  /\ \A x \in published[i] : x[1] \in Nat /\ x[1] < rotation /\ x[1] > WarmupRotations
             /\ \A x, y \in published[i] : x[1] = y[1]
             /\ {x[2] : x \in published[i]} = Pass
             /\ \A j \in 1 .. n : i < j => \A x \in published[i], y \in published[j] : x[1] < y[1]
  <2>1. i \in DOMAIN published /\ pc # "ended"
    BY <1>1 DEF Shows
  <2>2. \A x \in published[i] : x[1] \in Nat /\ x[1] < rotation /\ x[1] > WarmupRotations
    BY <1>0, <2>1 DEF OutInv, HistoryInv, WholeInv, WarmupHidden
  <2>3. \A x, y \in published[i] : x[1] = y[1]
    BY <2>1 DEF OutInv, WholeInv, OneRotationEach
  <2>4. {x[2] : x \in published[i]} = Pass
    BY <2>1 DEF OutInv, WholeInv, WholeRotations
  <2>5. \A j \in 1 .. n : i < j => \A x \in published[i], y \in published[j] : x[1] < y[1]
    BY <1>1 DEF OutInv, WholeInv, EachOnce
  <2> QED
    BY <2>2, <2>3, <2>4, <2>5
<1>3. ~Unshown' /\ rotation' = rotation /\ warmup' = warmup /\ warmup = 0
  BY DEF Unshown, Shows
<1>4. ASSUME NEW i \in 1 .. n + 1
      PROVE  \/ i \in 1 .. n /\ published'[i] = published[i]
             \/ i = n + 1 /\ published'[i] = image
  <2>1. i \in 1 .. n \/ i = n + 1
    BY <1>1
  <2>2. \A k \in 1 .. n : published'[k] = published[k]
    BY <1>1
  <2>3. published'[n + 1] = image
    BY <1>1
  <2> QED
    BY <2>1, <2>2, <2>3
<1>5. HistoryInv'
  <2> SUFFICES ASSUME NEW i \in 1 .. n + 1, NEW x \in published'[i]
               PROVE  x[1] \in Nat /\ x[1] <= rotation
    BY <1>1, <1>3 DEF HistoryInv
  <2>1. x[1] \in Nat /\ (x[1] < rotation \/ x[1] = rotation)
    <3>1. CASE i \in 1 .. n /\ published'[i] = published[i]
      BY <1>2, <3>1
    <3>2. CASE published'[i] = image
      BY <1>0, <3>2
    <3> QED
      BY <1>4, <3>1, <3>2
  <2> QED
    BY <1>0, <2>1
<1>6. WarmInv'
  <2>1. WarmupRotations <= warmup' + rotation'
    BY <1>0, <1>3
  <2> QED
    BY <1>3, <2>1 DEF WarmInv
<1>7. OneRotationEach'
  <2> SUFFICES ASSUME NEW i \in 1 .. n + 1, NEW x \in published'[i], NEW y \in published'[i]
               PROVE  x[1] = y[1]
    BY <1>1 DEF OneRotationEach
  <2>1. CASE i \in 1 .. n /\ published'[i] = published[i]
    BY <1>2, <2>1
  <2>2. CASE published'[i] = image
    BY <1>0, <2>2
  <2> QED
    BY <1>4, <2>1, <2>2
<1>8. WholeRotations'
  <2> SUFFICES ASSUME NEW i \in 1 .. n + 1
               PROVE  {x[2] : x \in published'[i]} = Pass \/ (i = n + 1 /\ pc' = "ended")
    BY <1>1 DEF WholeRotations, Pass
  <2>1. CASE i \in 1 .. n /\ published'[i] = published[i]
    BY <1>2, <2>1
  <2>2. CASE i = n + 1 /\ published'[i] = image
    BY <1>0, <2>2 DEF Shows
  <2> QED
    BY <1>4, <2>1, <2>2
<1>9. WarmupHidden'
  <2> SUFFICES ASSUME NEW i \in 1 .. n + 1, NEW x \in published'[i]
               PROVE  x[1] > WarmupRotations
    BY <1>1 DEF WarmupHidden
  <2>1. CASE i \in 1 .. n /\ published'[i] = published[i]
    BY <1>2, <2>1
  <2>2. CASE published'[i] = image
    BY <1>0, <2>2
  <2> QED
    BY <1>4, <2>1, <2>2
<1>10. EachOnce'
  <2> SUFFICES ASSUME NEW i \in 1 .. n + 1, NEW j \in 1 .. n + 1, i < j,
                      NEW x \in published'[i], NEW y \in published'[j]
               PROVE  x[1] < y[1]
    BY <1>1 DEF EachOnce
  <2>1. i \in 1 .. n /\ x \in published[i]
    <3>1. i # n + 1
      BY <1>1
    <3> QED
      BY <1>4, <3>1
  <2>2. CASE j \in 1 .. n /\ published'[j] = published[j]
    BY <1>2, <2>1, <2>2
  <2>3. CASE j = n + 1 /\ published'[j] = image
    <3>1. x[1] < rotation
      BY <1>2, <2>1
    <3>2. y[1] = rotation
      BY <1>0, <2>3
    <3> QED
      BY <3>1, <3>2
  <2> QED
    BY <1>4, <2>2, <2>3
<1> QED
  BY <1>5, <1>6, <1>7, <1>8, <1>9, <1>10 DEF OutInv, WholeInv

LEMMA PublishShows ==
  ASSUME EngineTypeOK, PassInv, OutInv, Publish \/ FinalPublish PROVE OutInv'
<1>1. /\ MaybePublish /\ UNCHANGED <<rotation, image, merged>>
      /\ pc \in {"publish", "last publish"}
      /\ pc' = IF pc = "publish" THEN "rotation" ELSE "ended"
  BY DEF Publish, FinalPublish, progress
<1>2. CASE UNCHANGED output
  BY <1>1, <1>2, NothingShown DEF output, Unshown
<1>3. CASE image # {} /\ merged # lastTime /\ warmup > 0 /\ PublishLatest
  <2>1. published' = published /\ warmup' = warmup - 1 /\ lastTime' = merged
    BY <1>3 DEF PublishLatest
  <2>2. ~Unshown'
    BY <1>1, <2>1 DEF Unshown
  <2>3. HistoryInv'
    BY <1>1, <2>1, <2>2 DEF OutInv, HistoryInv
  <2>4. WarmInv'
    <3>1. WarmupRotations < warmup + rotation /\ warmup \in Nat /\ rotation \in Nat
          /\ WarmupRotations \in Nat
      BY <1>1, <1>3, Showable, Numbers, EngineAssumption
    <3>2. WarmupRotations <= warmup' + rotation'
      <4>1. rotation' = rotation /\ warmup' = warmup - 1
        BY <1>1, <2>1
      <4> QED
        BY <3>1, <4>1
    <3> QED
      BY <2>2, <3>2 DEF WarmInv
  <2>5. WholeInv'
    <3>1. pc # "ended" /\ published' = published
      BY <1>1, <2>1
    <3>2. WholeRotations'
      BY <3>1 DEF OutInv, WholeInv, WholeRotations, Pass
    <3>3. OneRotationEach' /\ WarmupHidden' /\ EachOnce'
      BY <3>1 DEF OutInv, WholeInv, OneRotationEach, WarmupHidden, EachOnce
    <3> QED
      BY <3>2, <3>3 DEF WholeInv
  <2> QED
    BY <2>3, <2>4, <2>5 DEF OutInv
<1>4. CASE image # {} /\ merged # lastTime /\ ~(warmup > 0) /\ PublishLatest
  <2>1. published' = Append(published, image) /\ warmup' = warmup /\ lastTime' = merged
    BY <1>4 DEF PublishLatest, Emit
  <2>2. warmup = 0
    BY <1>4, Numbers
  <2> QED
    BY <1>1, <1>4, <2>1, <2>2, WindowShown DEF Shows
<1> QED
  BY <1>1, <1>2, <1>3, <1>4 DEF MaybePublish, PublishLatest

LEMMA NextShows ==
  ASSUME SafeInv, OutInv, [EngineNext]_engineVars PROVE OutInv'
<1> USE DEF SafeInv
<1>1. CASE Publish \/ FinalPublish
  BY <1>1, PublishShows
<1>2. CASE BeginRotation
  <2>1. published' = published /\ rotation' = rotation + 1 /\ warmup' = warmup /\ pc # "ended"
    BY <1>2 DEF BeginRotation, output
  <2> QED
    BY <2>1, NothingShown
<1>3. CASE Decode \/ DecodeFails
  <2>1. published' = published /\ rotation' = rotation /\ warmup' = warmup /\ pc = "decode"
    BY <1>3 DEF Decode, DecodeFails, progress, output
  <2>2. Unshown
    BY <2>1 DEF Unshown
  <2> QED
    BY <2>1, <2>2, NothingShown
<1>4. CASE ClearAll
  <2>1. published' = published /\ rotation' = rotation /\ pc = "ended" /\ pc' = "ended" /\ image' = {}
    BY <1>4 DEF ClearAll, JoinInv, progress
  <2>2. ~Unshown'
    BY <2>1 DEF Unshown
  <2> QED
    BY <2>1, <2>2, NothingShown
<1>5. CASE \/ DelayEnds \/ StartPassOK \/ StartPassFails \/ Trigger \/ TriggerFails \/ StopPass
           \/ RotationEnds \/ StopSeen \/ PublishFails \/ FinalStop
           \/ Poll \/ BeginCleanup \/ EndSession \/ UNCHANGED engineVars
  <2>1. /\ UNCHANGED <<published, rotation, warmup, image, merged, lastTime>>
        /\ pc = "ended" => pc' = "ended"
        /\ pc' \in {"pass", "sampling", "decode"} => pc \in {"pass", "sampling", "decode"}
    BY <1>5 DEF DelayEnds, StartPassOK, StartPassFails, Trigger, TriggerFails, StopPass,
       RotationEnds, StopSeen, PublishFails, FinalStop, Poll, BeginCleanup, EndSession, engineVars,
       progress, output
  <2>2. Unshown' => Unshown
    BY <2>1 DEF Unshown
  <2> QED
    BY <2>1, <2>2, NothingShown
<1> QED
  BY <1>1, <1>2, <1>3, <1>4, <1>5 DEF EngineNext, Worker, Cleanup
-----------------------------------------------------------------------------
(***************************************************************************)
(* The ring.                                                               *)
(***************************************************************************)

\* The newest windows of a history that no poll has taken, in terms of where
\* they begin.
First == IF Len(published) - taken > MaxRingRecords THEN Len(published) - MaxRingRecords ELSE taken

RingPlaces ==
  Len(ring) = Len(published) - First /\ \A i \in 1 .. Len(ring) : ring[i] = published[First + i]

LEMMA RingByPosition == EngineTypeOK => First \in 0 .. Len(published) /\ (RingIsRecent <=> RingPlaces)
<1> SUFFICES ASSUME EngineTypeOK PROVE First \in 0 .. Len(published) /\ (RingIsRecent <=> RingPlaces)
  OBVIOUS
<1> DEFINE n == Len(published)
           sub == SubSeq(published, First + 1, n)
<1>1. /\ n \in Nat /\ taken \in 0 .. n /\ MaxRingRecords \in Nat \ {0}
      /\ published \in Seq(Window) /\ ring \in Seq(Window) /\ Len(ring) \in Nat
  BY Sequences, EngineAssumption
<1>2. First \in 0 .. n
  BY <1>1 DEF First
<1>3. \A i \in First + 1 .. n : published[i] \in Window
  <2> SUFFICES ASSUME NEW i \in First + 1 .. n PROVE published[i] \in Window
    OBVIOUS
  <2>1. i \in 1 .. Len(published)
    BY <1>1, <1>2
  <2> QED
    BY <1>1, <2>1, ElementOfSeq
<1>4. /\ sub \in Seq(Window) /\ Len(sub) = n - First
      /\ \A i \in 1 .. n - First : sub[i] = published[First + i]
  <2> DEFINE m == First + 1
  <2>1. m \in Int /\ n \in Int /\ (\A i \in m .. n : published[i] \in Window)
    BY <1>1, <1>2, <1>3
  <2>2. n - m + 1 = n - First /\ (m <= n => n - m + 1 = n - First) /\ (~(m <= n) => n - First = 0)
        /\ \A i \in Int : m + i - 1 = First + i
    BY <1>1, <1>2
  <2> HIDE DEF m, n
  <2>3. /\ SubSeq(published, m, n) \in Seq(Window)
        /\ Len(SubSeq(published, m, n)) = IF m <= n THEN n - m + 1 ELSE 0
        /\ \A i \in 1 .. n - m + 1 : SubSeq(published, m, n)[i] = published[m + i - 1]
    BY <2>1, SubSeqProperties
  <2>4. Len(SubSeq(published, m, n)) = n - First
    BY <2>2, <2>3
  <2>5. \A i \in 1 .. n - First : SubSeq(published, m, n)[i] = published[First + i]
    BY <2>2, <2>3
  <2> QED
    BY <2>3, <2>4, <2>5 DEF m
<1>5. RingIsRecent <=> ring = sub
  BY DEF RingIsRecent, First
<1> HIDE DEF sub
<1>6. ASSUME ring = sub
      PROVE  Len(ring) = n - First /\ \A i \in 1 .. Len(ring) : ring[i] = published[First + i]
  BY <1>4, <1>6
<1>7. ASSUME Len(ring) = n - First, \A i \in 1 .. Len(ring) : ring[i] = published[First + i]
      PROVE  ring = sub
  <2>1. Len(ring) = Len(sub) /\ \A i \in 1 .. Len(ring) : ring[i] = sub[i]
    BY <1>4, <1>7
  <2> QED
    BY <1>1, <1>4, <2>1, SeqEqual
<1> QED
  BY <1>2, <1>5, <1>6, <1>7 DEF RingPlaces

LEMMA RingAfter == EngineTypeOK' => (RingIsRecent' <=> RingPlaces')
  BY RingByPosition, PTL

\* Emitting drops the oldest window of a full ring, as the history's tail does.
LEMMA EmitRing ==
  ASSUME EngineTypeOK, EngineTypeOK', RingIsRecent, NEW window \in Window, Emit(window), taken' = taken
  PROVE  RingIsRecent'
<1> DEFINE n == Len(published)
           k == Len(ring)
<1>1. /\ n \in Nat /\ k \in Nat /\ taken \in 0 .. n /\ MaxRingRecords \in Nat \ {0}
      /\ k <= MaxRingRecords /\ published \in Seq(Window) /\ ring \in Seq(Window)
  BY Sequences, EngineAssumption
<1>2. k = n - First /\ First \in 0 .. n /\ \A i \in 1 .. k : ring[i] = published[First + i]
  BY RingByPosition DEF RingPlaces
<1>3. /\ Len(published') = n + 1
      /\ \A i \in 1 .. n : published'[i] = published[i]
      /\ published'[n + 1] = window
  BY <1>1, AppendProperties DEF Emit
<1>4. First' = IF (n + 1) - taken > MaxRingRecords THEN (n + 1) - MaxRingRecords ELSE taken
  <2> DEFINE p == Len(published')
  <2>1. First' = IF p - taken > MaxRingRecords THEN p - MaxRingRecords ELSE taken
    BY DEF First
  <2>2. p = n + 1
    BY <1>3
  <2> HIDE DEF n, p
  <2> QED
    BY <2>1, <2>2, Zenon
<1>5. CASE k < MaxRingRecords
  <2>1. ring' = Append(ring, window)
    BY <1>5 DEF Emit
  <2>2. /\ Len(ring') = k + 1 /\ ring'[k + 1] = window
        /\ \A i \in 1 .. k : ring'[i] = ring[i]
    BY <1>1, <2>1, AppendProperties
  <2>3. First' = First
    BY <1>1, <1>2, <1>4, <1>5 DEF First
  <2> HIDE DEF n, k
  <2>4. ASSUME NEW i \in 1 .. k + 1 PROVE ring'[i] = published'[First' + i]
    <3>1. CASE i \in 1 .. k
      <4>1. First + i \in 1 .. n
        BY <1>1, <1>2, <3>1
      <4> QED
        BY <1>2, <1>3, <2>2, <2>3, <3>1, <4>1
    <3>2. CASE i = k + 1
      <4>1. First + i = n + 1
        BY <1>1, <1>2, <3>2
      <4> QED
        BY <1>3, <2>2, <2>3, <3>2, <4>1
    <3> QED
      BY <1>1, <3>1, <3>2
  <2>5. k + 1 = (n + 1) - First'
    BY <1>1, <1>2, <2>3
  <2> QED
    BY <1>3, <2>2, <2>4, <2>5, RingAfter DEF RingPlaces, n, k
<1>6. CASE ~(k < MaxRingRecords)
  <2>1. ring' = Append(Tail(ring), window) /\ k = MaxRingRecords /\ ring # <<>>
    BY <1>1, <1>6, EmptySeq DEF Emit
  <2>2. /\ Tail(ring) \in Seq(Window) /\ Len(Tail(ring)) = k - 1
        /\ \A i \in 1 .. k - 1 : Tail(ring)[i] = ring[i + 1]
    BY <1>1, <2>1, HeadTailProperties
  <2>3. /\ Len(ring') = k /\ ring'[k] = window
        /\ \A i \in 1 .. k - 1 : ring'[i] = ring[i + 1]
    <3>1. /\ Len(ring') = (k - 1) + 1 /\ ring'[(k - 1) + 1] = window
          /\ \A i \in 1 .. k - 1 : ring'[i] = Tail(ring)[i]
      BY <2>1, <2>2, AppendProperties
    <3> QED
      BY <1>1, <2>2, <3>1
  <2>4. First' = First + 1
    <3>1. First = n - MaxRingRecords
      <4>1. First \in Int /\ n \in Int /\ k = n - First /\ k = MaxRingRecords
        <5>1. n \in Int /\ k = n - First /\ First \in 0 .. n
          BY <1>1, <1>2
        <5>2. k = MaxRingRecords
          BY <2>1
        <5> HIDE DEF n, k
        <5> QED
          BY ONLY <5>1, <5>2
      <4> HIDE DEF n, k
      <4> QED
        BY ONLY <4>1
    <3>2. First = IF n - taken > MaxRingRecords THEN n - MaxRingRecords ELSE taken
      BY DEF First
    <3> HIDE DEF n, k
    <3> QED
      BY <1>1, <1>4, <3>1, <3>2
  <2> HIDE DEF n, k
  <2>5. ASSUME NEW i \in 1 .. k PROVE ring'[i] = published'[First' + i]
    <3>1. CASE i \in 1 .. k - 1
      <4>1. First + (i + 1) \in 1 .. n /\ i + 1 \in 1 .. k /\ First' + i = First + (i + 1)
        <5>1. First \in Nat /\ n \in Nat /\ k \in Nat /\ k = n - First
          BY <1>1, <1>2
        <5>2. i \in Nat /\ 1 <= i /\ i <= k - 1
          BY <3>1, <5>1
        <5> QED
          BY ONLY <5>1, <5>2, <2>4
      <4> QED
        BY <1>2, <1>3, <2>3, <3>1, <4>1
    <3>2. CASE i = k
      <4>1. First' + i = n + 1
        BY <1>1, <1>2, <2>4, <3>2
      <4> QED
        BY <1>3, <2>3, <3>2, <4>1
    <3> QED
      BY <1>1, <3>1, <3>2
  <2>6. k = (n + 1) - First'
    BY <1>1, <1>2, <2>4
  <2> QED
    BY <1>3, <2>3, <2>5, <2>6, RingAfter DEF RingPlaces, n, k
<1> QED
  BY <1>5, <1>6

\* An empty ring after everything was taken.
LEMMA EmptyRing ==
  ASSUME EngineTypeOK, EngineTypeOK', published' = published, ring' = <<>>, taken' = Len(published)
  PROVE  RingIsRecent'
<1>1. Len(published) \in Nat /\ MaxRingRecords \in Nat \ {0}
  BY Sequences, EngineAssumption
<1>2. First' = Len(published)
  <2>1. First' = IF Len(published') - taken' > MaxRingRecords THEN Len(published') - MaxRingRecords
                 ELSE taken'
    BY DEF First
  <2>2. Len(published') = Len(published) /\ taken' = Len(published)
    OBVIOUS
  <2> QED
    BY <1>1, <2>1, <2>2
<1>3. Len(ring') = 0
  BY EmptySeq
<1>4. RingPlaces'
  BY <1>1, <1>2, <1>3 DEF RingPlaces
<1> QED
  BY <1>4, RingAfter

LEMMA NextRing ==
  ASSUME SafeInv, SafeInv', RingIsRecent, [EngineNext]_engineVars PROVE RingIsRecent'
<1>0. EngineTypeOK /\ EngineTypeOK'
  BY DEF SafeInv
<1>1. ASSUME UNCHANGED <<ring, published, taken>> PROVE RingIsRecent'
  BY <1>1 DEF RingIsRecent
<1>2. CASE Poll \/ ClearAll
  <2>1. published' = published /\ ring' = <<>> /\ taken' = Len(published)
    BY <1>2 DEF Poll, ClearAll
  <2> QED
    BY <1>0, <2>1, EmptyRing
<1>3. CASE Publish \/ FinalPublish
  <2>1. taken' = taken /\ MaybePublish
    BY <1>3 DEF Publish, FinalPublish
  <2>2. image \in Window
    BY <1>0 DEF EngineTypeOK
  <2>3. Emit(image) \/ UNCHANGED <<ring, published>>
    BY <2>1 DEF MaybePublish, PublishLatest, output
  <2> QED
    BY <1>0, <1>1, <2>1, <2>2, <2>3, EmitRing
<1>4. CASE \/ DelayEnds \/ BeginRotation \/ StartPassOK \/ StartPassFails \/ Trigger \/ TriggerFails
           \/ StopPass \/ Decode \/ DecodeFails \/ RotationEnds \/ StopSeen \/ PublishFails \/ FinalStop
           \/ BeginCleanup \/ EndSession \/ UNCHANGED engineVars
  <2>1. UNCHANGED <<ring, published, taken>>
    BY <1>4 DEF DelayEnds, BeginRotation, StartPassOK, StartPassFails, Trigger, TriggerFails,
       StopPass, Decode, DecodeFails, RotationEnds, StopSeen, PublishFails, FinalStop, BeginCleanup,
       EndSession, engineVars, output
  <2> QED
    BY <1>1, <2>1
<1> QED
  BY <1>2, <1>3, <1>4 DEF EngineNext, Worker, Cleanup

\* Windows holds: what is published is whole rotations past the warm-up, each
\* once and in order, but for a last one cut short by the end of the worker; and
\* the ring holds the newest windows no poll has taken.
THEOREM WindowsAreWhole == EngineSpec => []Windows
<1>1. EngineInit => OutInv /\ RingIsRecent
  <2> SUFFICES ASSUME EngineInit PROVE OutInv /\ RingIsRecent
    OBVIOUS
  <2>1. EngineTypeOK /\ DOMAIN published = {} /\ Len(published) = 0 /\ Len(ring) = 0 /\ published = <<>>
    BY InitType, EmptySeq DEF EngineInit
  <2>2. HistoryInv /\ WholeInv
    BY <2>1 DEF HistoryInv, WholeInv, OneRotationEach, WholeRotations, WarmupHidden, EachOnce
  <2>3. WarmInv
    BY EngineAssumption DEF EngineInit, WarmInv, Unshown
  <2>4. First = 0
    BY <2>1, EngineAssumption DEF EngineInit, First
  <2>5. RingPlaces
    BY <2>1, <2>4 DEF RingPlaces
  <2> QED
    BY <2>1, <2>2, <2>3, <2>5, RingByPosition DEF OutInv
<1>2. SafeInv /\ SafeInv' /\ OutInv /\ RingIsRecent /\ [EngineNext]_engineVars => OutInv' /\ RingIsRecent'
  BY NextShows, NextRing
<1>3. OutInv /\ RingIsRecent => Windows
  BY DEF OutInv, WholeInv, Windows
<1> QED
  BY <1>1, <1>2, <1>3, SafeInvariant, PTL DEF EngineSpec
=============================================================================
