--------------------------- MODULE ReporterProofs ---------------------------
(***************************************************************************)
(* Theorems about Reporter, for any number of snapshots and any number of  *)
(* requests, received and answered in any order; and about the scans it    *)
(* takes attributions from, InferenceScanner: what a scan returns is true  *)
(* of a session that is there, for any number of sessions and scans, any   *)
(* models and any TTL.                                                     *)
(***************************************************************************)
EXTENDS Reporter, InferenceScanner, SequenceTheorems, TLAPS

(***************************************************************************)
(* The snapshots observed, in order.                                       *)
(***************************************************************************)
LEMMA UptoGrows ==
  ASSUME NEW n \in Nat
  PROVE  /\ Upto(n) \in Seq(Nat) /\ Len(Upto(n)) = n
         /\ Append(Upto(n), n + 1) = Upto(n + 1)
<1>1. Upto(n) \in Seq(Nat) /\ Len(Upto(n)) = n /\ \A i \in 1 .. n : Upto(n)[i] = i
  BY DEF Upto
<1>2. Upto(n + 1) \in Seq(Nat) /\ Len(Upto(n + 1)) = n + 1
      /\ \A i \in 1 .. n + 1 : Upto(n + 1)[i] = i
  BY DEF Upto
<1> DEFINE s == Append(Upto(n), n + 1)
<1>3. s \in Seq(Nat) /\ Len(s) = n + 1 /\ \A i \in 1 .. n + 1 : s[i] = i
  BY <1>1, AppendProperties
<1> HIDE DEF s
<1>4. s = Upto(n + 1)
  BY <1>2, <1>3, SeqEqual
<1>5. QED
  BY <1>1, <1>4 DEF s

(* Concatenation, element by element. *)
LEMMA ConcatIs ==
  ASSUME NEW a \in Seq(Nat), NEW b \in Seq(Nat)
  PROVE  /\ a \o b \in Seq(Nat) /\ Len(a \o b) = Len(a) + Len(b)
         /\ \A i \in 1 .. Len(a) + Len(b) :
              (a \o b)[i] = IF i <= Len(a) THEN a[i] ELSE b[i - Len(a)]
OBVIOUS

LEMMA ConcatAppend ==
  ASSUME NEW a \in Seq(Nat), NEW b \in Seq(Nat), NEW e \in Nat
  PROVE  a \o Append(b, e) = Append(a \o b, e)
<1>1. Append(b, e) = b \o <<e>> /\ <<e>> \in Seq(Nat)
  BY AppendIsConcat
<1>2. a \o b \in Seq(Nat)
  OBVIOUS
<1>3. Append(a \o b, e) = (a \o b) \o <<e>>
  BY <1>2, AppendIsConcat
<1>4. (a \o b) \o <<e>> = a \o (b \o <<e>>)
  BY <1>1
<1>5. QED
  BY <1>1, <1>3, <1>4

(* What TypeOK says of the sequences. *)
LEMMA Types ==
  ASSUME TypeOK
  PROVE  /\ handled \in Seq(Nat) /\ window \in Seq(Nat) /\ windowBuf \in Seq(Nat)
         /\ observed \in Nat /\ Len(handled) \in Nat /\ Len(window) \in Nat
         /\ requests \in Seq(Seq(Nat)) /\ Len(requests) \in Nat
         /\ DOMAIN requests = 1 .. Len(requests)
         /\ answers \subseteq received /\ received \subseteq 1 .. Len(requests)
         /\ ceilings \in {0} \union answers /\ ceilings \in 0 .. Len(requests)
         /\ (phase = "scanning" <=> window # <<>>)
<1>1. /\ handled \in Seq(Nat) /\ window \in Seq(Nat) /\ windowBuf \in Seq(Nat)
      /\ (phase = "scanning" <=> window # <<>>)
  BY DEF TypeOK
<1>2. observed \in 0 .. MaxSnapshots
  BY Zenon DEF TypeOK
<1>3. requests \in Seq(Seq(Nat))
  BY Zenon DEF TypeOK
<1>4. observed \in Nat
  BY <1>2, ReporterAssumption
<1>5. Len(requests) \in Nat /\ DOMAIN requests = 1 .. Len(requests)
  BY <1>3
<1>6. /\ answers \subseteq received /\ received \subseteq DOMAIN requests
      /\ ceilings \in {0} \union answers
  BY Zenon DEF TypeOK
<1>7. ceilings \in 0 .. Len(requests) /\ received \subseteq 1 .. Len(requests)
  BY <1>5, <1>6
<1>8. QED
  BY <1>1, <1>3, <1>4, <1>5, <1>6, <1>7

(* What three sequences that make up Upto(n) hold, and where they may be cut. *)
LEMMA Cuts ==
  ASSUME NEW a \in Seq(Nat), NEW b \in Seq(Nat), NEW c \in Seq(Nat), NEW n \in Nat,
         a \o b \o c = Upto(n)
  PROVE  /\ Len(a) + Len(b) <= n
         /\ \A i \in 1 .. Len(b) : b[i] = Len(a) + i
<1>1. Len(a) \in Nat /\ Len(b) \in Nat /\ Len(c) \in Nat
  BY LenProperties
<1> DEFINE ab == a \o b
<1>2. /\ ab \in Seq(Nat) /\ Len(ab) = Len(a) + Len(b)
      /\ \A i \in 1 .. Len(a) + Len(b) :
           ab[i] = IF i <= Len(a) THEN a[i] ELSE b[i - Len(a)]
  BY ConcatIs
<1> HIDE DEF ab
<1>3. /\ Len(ab \o c) = Len(ab) + Len(c)
      /\ \A i \in 1 .. Len(ab) + Len(c) :
           (ab \o c)[i] = IF i <= Len(ab) THEN ab[i] ELSE c[i - Len(ab)]
  BY <1>2, ConcatIs
<1>4. ab \o c = Upto(n) /\ Len(Upto(n)) = n /\ \A i \in 1 .. n : Upto(n)[i] = i
  BY UptoGrows DEF ab, Upto
<1>5. Len(ab) + Len(c) = n
  BY <1>3, <1>4
<1>6. ASSUME NEW i \in 1 .. Len(b) PROVE b[i] = Len(a) + i
  <2>1. Len(a) + i \in 1 .. Len(ab) /\ Len(a) + i \in 1 .. n
    <3>1. Len(a) + i \in Nat /\ 1 <= Len(a) + i /\ Len(a) + i <= Len(a) + Len(b)
      BY <1>1
    <3>2. Len(ab) \in Nat /\ Len(a) + i <= Len(ab) /\ Len(ab) <= n
      BY <1>1, <1>2, <1>5, <3>1
    <3>3. QED
      BY <3>1, <3>2
  <2>2. ab[Len(a) + i] = Len(a) + i
    <3>1. (ab \o c)[Len(a) + i] = ab[Len(a) + i]
      BY <1>1, <1>2, <1>3, <2>1
    <3>2. (ab \o c)[Len(a) + i] = Len(a) + i
      BY <1>4, <2>1
    <3>3. QED
      BY <3>1, <3>2
  <2>3. ab[Len(a) + i] = b[i]
    BY <1>1, <1>2 DEF ab
  <2>4. QED
    BY <2>2, <2>3
<1>7. QED
  BY <1>1, <1>2, <1>5, <1>6

(***************************************************************************)
(* The inductive invariant: beside the properties, no answer is on show    *)
(* before its request, and every request has a window.                     *)
(***************************************************************************)
IInv ==
  /\ TypeOK
  /\ Conserved
  /\ phase = "posting" => ceilings < Len(requests)
  /\ \A i \in DOMAIN requests : requests[i] # <<>>

LEMMA InitIInv == Init => IInv
<1> SUFFICES ASSUME Init PROVE IInv
  OBVIOUS
<1>1. Upto(0) = <<>>
  BY DEF Upto
<1>2. TypeOK
  BY ReporterAssumption DEF Init, backend, shutdown, TypeOK
<1>3. Conserved
  BY <1>1 DEF Init, Conserved
<1>4. QED
  BY <1>2, <1>3 DEF Init, IInv

(* The whole window and nothing else is settled by a scan's end. *)
LEMMA Settled ==
  ASSUME TypeOK, Conserved, handled' = handled \o window, window' = <<>>,
         UNCHANGED <<observed, windowBuf>>
  PROVE  Conserved' /\ handled' \in Seq(Nat) /\ Len(handled') = Len(handled) + Len(window)
<1>1. handled \in Seq(Nat) /\ window \in Seq(Nat) /\ windowBuf \in Seq(Nat)
  BY DEF TypeOK
<1>2. handled' \in Seq(Nat) /\ Len(handled') = Len(handled) + Len(window)
  BY <1>1, ConcatProperties
<1>3. handled' \o window' = handled \o window
  BY <1>2, ConcatEmptySeq
<1>4. QED
  BY <1>2, <1>3 DEF Conserved

LEMMA NextIInv == IInv /\ [Next]_vars => IInv'
<1> SUFFICES ASSUME IInv, [Next]_vars PROVE IInv'
  OBVIOUS
<1> USE ReporterAssumption DEF backend, shutdown
<1>1. handled \in Seq(Nat) /\ window \in Seq(Nat) /\ windowBuf \in Seq(Nat)
      /\ observed \in Nat /\ Len(requests) \in Nat /\ DOMAIN requests = 1 .. Len(requests)
      /\ received \subseteq 1 .. Len(requests) /\ ceilings \in 0 .. Len(requests)
      /\ (phase = "scanning" <=> window # <<>>)
  BY Types DEF IInv
<1>2. CASE Start \/ JitterEnds \/ Return \/ PostFails \/ Stop \/ CancelParent
  <2>1. UNCHANGED <<observed, windowBuf, window, requests, received, answers, ceilings, handled>>
    BY <1>2 DEF Start, JitterEnds, Return, PostFails, Stop, CancelParent
  <2>2. phase' \in {phase, "jitter", "waiting", "stopped"}
        /\ (phase = "scanning" => phase' = "scanning")
    BY <1>2 DEF Start, JitterEnds, Return, PostFails, Stop, CancelParent
  <2>3. stopping' \in {"no", "stop called"} /\ cancelled' \subseteq {"own", "parent"}
    BY <1>2 DEF Start, JitterEnds, Return, PostFails, Stop, CancelParent, IInv, TypeOK
  <2>4. TypeOK'
    BY <2>1, <2>2, <2>3 DEF IInv, TypeOK
  <2>5. Conserved'
    BY <2>1 DEF IInv, Conserved
  <2>6. QED
    BY <2>1, <2>2, <2>4, <2>5 DEF IInv
<1>3. CASE Observe
  <2>1. TypeOK'
    <3>1. observed' \in 0 .. MaxSnapshots /\ windowBuf' \in Seq(Nat)
      BY <1>1, <1>3 DEF Observe
    <3>2. QED
      BY <1>3, <3>1 DEF Observe, IInv, TypeOK
  <2>2. Conserved'
    <3>1. observed \in Nat /\ observed + 1 \in Nat
      BY <1>1
    <3> DEFINE hw == handled \o window
    <3>2. hw \in Seq(Nat)
      BY <1>1
    <3> HIDE DEF hw
    <3>3. hw \o Append(windowBuf, observed + 1) = Append(hw \o windowBuf, observed + 1)
      BY <1>1, <3>1, <3>2, ConcatAppend
    <3>4. hw \o windowBuf = Upto(observed)
      BY DEF IInv, Conserved, hw
    <3>5. hw \o Append(windowBuf, observed + 1) = Upto(observed + 1)
      BY <3>1, <3>3, <3>4, UptoGrows
    <3>6. QED
      BY <1>3, <3>5 DEF Observe, Conserved, hw
  <2>3. QED
    BY <1>3, <2>1, <2>2 DEF Observe, IInv
<1>4. CASE Tick
  <2>1. TypeOK'
    BY <1>4 DEF Tick, IInv, TypeOK
  <2>2. Conserved'
    <3>1. window = <<>>
      BY <1>4 DEF Tick, IInv, TypeOK
    <3>2. handled \o window \o windowBuf = handled \o windowBuf
      BY <1>1, <3>1, ConcatEmptySeq
    <3>3. handled \o windowBuf \in Seq(Nat)
      BY <1>1
    <3>4. handled \o windowBuf \o <<>> = handled \o windowBuf
      BY <3>3, ConcatEmptySeq
    <3>5. QED
      BY <1>4, <3>2, <3>4 DEF Tick, IInv, Conserved
  <2>3. QED
    BY <1>4, <2>1, <2>2 DEF Tick, IInv
<1>5. CASE ScanFails
  <2>1. Conserved' /\ handled' \in Seq(Nat)
    BY <1>5, Settled DEF ScanFails, IInv
  <2>2. TypeOK'
    <3>1. /\ window' \in Seq(Nat) /\ window' = <<>> /\ phase' = "waiting"
          /\ UNCHANGED <<observed, windowBuf, requests, backend, ceilings, shutdown>>
      BY <1>5 DEF ScanFails
    <3>2. QED
      BY <2>1, <3>1, Zenon DEF IInv, TypeOK
  <2>3. QED
    BY <1>5, <2>1, <2>2 DEF ScanFails, IInv
<1>6. CASE StartPost
  <2>1. Conserved' /\ handled' \in Seq(Nat)
    BY <1>6, Settled DEF StartPost, IInv
  <2>2. /\ requests' \in Seq(Seq(Nat)) /\ Len(requests') = Len(requests) + 1
        /\ \A i \in 1 .. Len(requests) : requests'[i] = requests[i]
        /\ requests'[Len(requests) + 1] = window
        /\ DOMAIN requests' = 1 .. Len(requests) + 1
    <3>1. requests \in Seq(Seq(Nat))
      BY DEF IInv, TypeOK
    <3>2. requests' = Append(requests, window)
      BY <1>6 DEF StartPost
    <3>3. QED
      BY <1>1, <3>1, <3>2, AppendProperties
  <2>3. TypeOK'
    <3>1. received \subseteq DOMAIN requests'
      BY <1>1, <2>2
    <3>2. /\ window' \in Seq(Nat) /\ window' = <<>> /\ phase' = "posting"
          /\ UNCHANGED <<observed, windowBuf, backend, ceilings, shutdown>>
      BY <1>6 DEF StartPost
    <3>3. received' \subseteq DOMAIN requests'
      BY <3>1, <3>2
    <3>4. QED
      BY <2>1, <2>2, <3>2, <3>3, Zenon DEF IInv, TypeOK
  <2>4. ceilings' < Len(requests')
    BY <1>1, <1>6, <2>2 DEF StartPost
  <2>5. ASSUME NEW i \in DOMAIN requests' PROVE requests'[i] # <<>>
    <3>1. window # <<>>
      BY <1>6 DEF StartPost, IInv, TypeOK
    <3>2. i \in 1 .. Len(requests) \/ i = Len(requests) + 1
      BY <1>1, <2>2
    <3>3. QED
      BY <1>1, <2>2, <3>1, <3>2 DEF IInv
  <2>6. QED
    BY <2>1, <2>3, <2>4, <2>5 DEF IInv
<1>7. CASE TakeAnswer
  BY <1>7 DEF TakeAnswer, IInv, TypeOK, Conserved
<1>8. ASSUME NEW i \in DOMAIN requests, Receive(i) \/ Answer(i) PROVE IInv'
  BY <1>8 DEF Receive, Answer, IInv, TypeOK, Conserved
<1>9. CASE UNCHANGED vars
  BY <1>9 DEF vars, IInv, TypeOK, Conserved
<1>10. QED
  BY <1>2, <1>3, <1>4, <1>5, <1>6, <1>7, <1>8, <1>9 DEF Next, Goroutine, Backend

LEMMA Inductive == Spec => []IInv
BY InitIInv, NextIInv, PTL DEF Spec

(* Every variable stays in its type, and no ceilings come from a request   *)
(* that the backend has not answered (Reporter).                           *)
THEOREM TypeCorrect == Spec => []TypeOK
<1>1. IInv => TypeOK
  BY DEF IInv
<1>2. QED
  BY <1>1, Inductive, PTL

(* Every snapshot observed is in exactly one place, in order (Observe and  *)
(* tick).                                                                  *)
THEOREM Conserves == Spec => []Conserved
<1>1. IInv => Conserved
  BY DEF IInv
<1>2. QED
  BY <1>1, Inductive, PTL

(***************************************************************************)
(* The refinement of ReportFeed.                                           *)
(***************************************************************************)
Posted == [i \in DOMAIN requests |-> <<requests[i][1], requests[i][Len(requests[i])]>>]

(* A window posted or given up is the snapshots after those settled. *)
LEMMA WindowSettled ==
  ASSUME IInv, phase = "scanning", handled' = handled \o window
  PROVE  /\ Len(handled)' \in Len(handled) + 1 .. observed
         /\ window[1] = Len(handled) + 1 /\ window[Len(window)] = Len(handled)'
<1>1. handled \in Seq(Nat) /\ window \in Seq(Nat) /\ windowBuf \in Seq(Nat)
      /\ observed \in Nat /\ window # <<>>
  BY Types DEF IInv
<1>2. Len(handled) \in Nat /\ Len(window) \in Nat /\ Len(window) > 0
  BY <1>1, EmptySeq, LenProperties
<1>3. Len(handled)' = Len(handled) + Len(window)
  BY <1>1, ConcatProperties
<1>4. /\ Len(handled) + Len(window) <= observed
      /\ \A i \in 1 .. Len(window) : window[i] = Len(handled) + i
  BY <1>1, Cuts DEF IInv, Conserved
<1>5. 1 \in 1 .. Len(window) /\ Len(window) \in 1 .. Len(window)
  BY <1>2
<1>6. QED
  BY <1>1, <1>2, <1>3, <1>4, <1>5

(* The reporter implements ReportFeed: windows are cut in order, none is   *)
(* posted twice, and the ceilings on show only move on to newer windows.   *)
THEOREM ImplementsFeed == Spec => FeedSpec
<1> USE DEF Posted
<1>1. Init => Feed!FeedInit
  BY DEF Init, Feed!FeedInit, backend, shutdown
<1>2. IInv /\ [Next]_vars => [Feed!FeedNext]_Feed!feedVars
  <2> SUFFICES ASSUME IInv, [Next]_vars PROVE [Feed!FeedNext]_Feed!feedVars
    OBVIOUS
  <2> USE DEF backend, shutdown
  <2>0. Len(requests) \in Nat /\ DOMAIN requests = 1 .. Len(requests)
        /\ requests \in Seq(Seq(Nat)) /\ received \subseteq 1 .. Len(requests)
        /\ ceilings \in 0 .. Len(requests) /\ answers \subseteq received
    BY Types DEF IInv
  <2>1. CASE Observe
    BY <2>1 DEF Observe, Feed!FeedNext, Feed!Observed
  <2>2. CASE ScanFails
    <3>1. Len(handled)' \in Len(handled) + 1 .. observed
      BY <2>2, WindowSettled DEF ScanFails
    <3>2. QED
      BY <2>2, <3>1 DEF ScanFails, Feed!FeedNext, Feed!Lost
  <2>3. CASE StartPost
    <3>1. /\ Len(handled)' \in Len(handled) + 1 .. observed
          /\ window[1] = Len(handled) + 1 /\ window[Len(window)] = Len(handled)'
      BY <2>3, WindowSettled DEF StartPost
    <3>2. /\ \A i \in 1 .. Len(requests) : requests'[i] = requests[i]
          /\ requests'[Len(requests) + 1] = window
          /\ DOMAIN requests' = 1 .. Len(requests) + 1
      <4>1. window \in Seq(Nat) /\ requests' = Append(requests, window)
        BY <2>3, Types DEF StartPost, IInv
      <4>2. QED
        BY <2>0, <4>1, AppendProperties
    <3>3. Posted' = Append(Posted, <<Len(handled) + 1, Len(handled)'>>)
      <4> DEFINE n == Len(requests)
                 e(i) == <<requests[i][1], requests[i][Len(requests[i])]>>
                 w == <<Len(handled) + 1, Len(handled)'>>
      <4>1. Posted' = [i \in 1 .. n + 1 |-> IF i <= n THEN e(i) ELSE w]
        <5>1. \A i \in 1 .. n + 1 : i <= n => i \in 1 .. n
          BY <2>0
        <5>2. \A i \in 1 .. n + 1 : ~(i <= n) => i = n + 1
          BY <2>0
        <5>3. QED
          BY <3>1, <3>2, <5>1, <5>2
      <4>2. Posted = [i \in 1 .. n |-> e(i)]
        BY <2>0
      <4> HIDE DEF e, w, n
      <4>3. [i \in 1 .. n + 1 |-> IF i <= n THEN e(i) ELSE w] = Append([i \in 1 .. n |-> e(i)], w)
        BY <2>0 DEF n
      <4>4. QED
        BY <4>1, <4>2, <4>3 DEF w
    <3>4. QED
      BY <2>3, <3>1, <3>3 DEF StartPost, Feed!FeedNext, Feed!Posts
  <2>4. CASE TakeAnswer
    BY <2>0, <2>4 DEF TakeAnswer, IInv, Feed!FeedNext, Feed!Shows
  <2>5. ASSUME NEW i \in DOMAIN requests, Receive(i) \/ Answer(i)
        PROVE  [Feed!FeedNext]_Feed!feedVars
    <3>1. Len(Posted) = Len(requests)
      BY <2>0
    <3>2. CASE Receive(i)
      <4>1. i \in (1 .. Len(Posted)) \ received /\ received' = received \union {i}
        BY <2>0, <3>1, <3>2 DEF Receive
      <4>2. UNCHANGED <<observed, handled, requests, ceilings>>
        BY <3>2 DEF Receive
      <4>3. UNCHANGED Posted
        BY <4>2
      <4> HIDE DEF Posted
      <4>4. QED
        BY <4>1, <4>2, <4>3 DEF Feed!FeedNext, Feed!Arrives, Posted
    <3>3. CASE Answer(i)
      BY <3>3 DEF Answer, Feed!feedVars
    <3>4. QED
      BY <2>5, <3>2, <3>3
  <2>6. CASE Start \/ JitterEnds \/ Return \/ Tick \/ PostFails \/ Stop \/ CancelParent
    BY <2>6 DEF Start, JitterEnds, Return, Tick, PostFails, Stop, CancelParent, Feed!feedVars
  <2>7. CASE UNCHANGED vars
    BY <2>7 DEF vars, Feed!feedVars
  <2>8. QED
    BY <2>1, <2>2, <2>3, <2>4, <2>5, <2>6, <2>7 DEF Next, Goroutine, Backend
<1>3. QED
  BY <1>1, <1>2, Inductive, PTL DEF Spec, FeedSpec, Feed!FeedSpec
-----------------------------------------------------------------------------
(***************************************************************************)
(* The scanner: the inductive invariant.                                   *)
(***************************************************************************)
KeyRecord == [leader : BOOLEAN, session : SessionID \union {0}, start : Nat]

Entry ==
  [kind : {"entry"}, key : KeyRecord, model : Model, updatedAt : Nat, probed : Nat, at : Nat]

Shapes ==
  /\ start \in [SessionID -> Nat] /\ starts \in Nat /\ clock \in Nat
  /\ \A s \in DOMAIN sessions : sessions[s] \in KeyRecord
  /\ cache \in {nothing} \union Entry

\* What the cache remembers.  A session probed under a key is the one the key
\* was made of or a later one with its ID, and none that is yet to start.
EntryInv ==
  cache.kind = "entry" =>
    /\ cache.key.session \in SessionID
    /\ cache.key.start <= cache.probed
    /\ cache.probed <= start[cache.key.session]
    /\ cache.at = cache.updatedAt /\ cache.at <= clock

\* What a scan that has begun lists: sessions as they are, none older than one of its ID that
\* was probed before.
ListInv ==
  pc # "idle" =>
    /\ answer = nothing /\ clock >= 1
    /\ \A s \in DOMAIN sessions \ {0} :
         /\ s \in SessionID
         /\ sessions[s].session = s /\ sessions[s].start <= start[s]
         /\ cache.kind = "entry" /\ cache.key.session = s => cache.probed <= sessions[s].start

\* Between scans: nothing is remembered that the latest scan did not return.
IdleInv ==
  pc = "idle" /\ answer.kind \in {"none", "error"} => cache.kind = "none"

ScannerInv == ScannerTypeOK /\ Shapes /\ EntryInv /\ ListInv /\ IdleInv /\ AnswersHold
-----------------------------------------------------------------------------
LEMMA ScannerInitInv == ScannerInit => ScannerInv
<1> SUFFICES ASSUME ScannerInit PROVE ScannerInv
  OBVIOUS
<1> USE ScannerAssumption DEF ScannerInit, nothing, SessionID
<1>1. ScannerTypeOK
  BY DEF ScannerTypeOK
<1>2. Shapes
  BY DEF Shapes
<1>3. EntryInv /\ ListInv /\ IdleInv
  BY DEF EntryInv, ListInv, IdleInv
<1>4. AnswersHold
  BY DEF AnswersHold, SameIncarnation, OnTheGPU, StartTimeMatches, NotStale, Attributed
<1> QED
  BY <1>1, <1>2, <1>3, <1>4 DEF ScannerInv

\* A step of the host that starts no session leaves all that scans rest on.
LEMMA HostKeeps ==
  ASSUME ScannerInv, UNCHANGED <<clock, pc, todo, sessions, cache, answer>>,
         start' \in [SessionID -> Nat], starts' \in Nat,
         \A s \in SessionID : start[s] <= start'[s]
  PROVE  Shapes' /\ EntryInv' /\ ListInv' /\ IdleInv' /\ AnswersHold'
<1> USE DEF ScannerInv
<1>1. Shapes'
  BY DEF Shapes, Entry, KeyRecord
<1>2. EntryInv'
  <2> SUFFICES ASSUME cache.kind = "entry" PROVE EntryInv'
    BY DEF EntryInv
  <2>1. cache.key.session \in SessionID /\ cache.probed \in Nat
    BY DEF EntryInv, Shapes, Entry, nothing
  <2>2. start[cache.key.session] \in Nat /\ start'[cache.key.session] \in Nat
    BY <2>1 DEF Shapes
  <2> QED
    BY <2>1, <2>2 DEF EntryInv
<1>3. ListInv'
  <2> SUFFICES ASSUME pc # "idle", NEW s \in DOMAIN sessions \ {0}
               PROVE  /\ s \in SessionID
                      /\ sessions[s].session = s /\ sessions[s].start <= start'[s]
                      /\ cache.kind = "entry" /\ cache.key.session = s
                           => cache.probed <= sessions[s].start
    BY DEF ListInv
  <2>1. /\ s \in SessionID /\ sessions[s].session = s
        /\ sessions[s].start <= start[s]
        /\ cache.kind = "entry" /\ cache.key.session = s => cache.probed <= sessions[s].start
    BY DEF ListInv
  <2>2. sessions[s].start \in Nat /\ start[s] \in Nat /\ start'[s] \in Nat
    BY <2>1 DEF Shapes, KeyRecord
  <2> QED
    BY <2>1, <2>2
<1>4. IdleInv'
  BY DEF IdleInv
<1>5. AnswersHold'
  BY DEF AnswersHold, SameIncarnation, OnTheGPU, StartTimeMatches, NotStale, Attributed
<1> QED
  BY <1>1, <1>2, <1>3, <1>4, <1>5
-----------------------------------------------------------------------------
LEMMA StartKeeps ==
  ASSUME ScannerInv, NEW s \in SessionID, SessionStarts(s) PROVE ScannerInv'
<1> USE DEF SessionStarts
<1>1. starts \in Nat /\ start \in [SessionID -> 0 .. starts] /\ starts < MaxStarts
  BY ScannerAssumption DEF ScannerInv, ScannerTypeOK
<1>2. start' \in [SessionID -> 0 .. starts'] /\ start' \in [SessionID -> Nat]
  BY <1>1
<1>3. ASSUME NEW t \in SessionID PROVE start[t] <= start'[t]
  <2>1. start[t] \in 0 .. starts
    BY <1>1
  <2>2. start'[t] = IF t = s THEN starts + 1 ELSE start[t]
    BY <1>1
  <2> QED
    BY <1>1, <2>1, <2>2
<1>4. ScannerTypeOK'
  BY <1>1, <1>2, ScannerAssumption DEF ScannerInv, ScannerTypeOK
<1>5. Shapes' /\ EntryInv' /\ ListInv' /\ IdleInv' /\ AnswersHold'
  BY <1>1, <1>2, <1>3, HostKeeps
<1> QED
  BY <1>4, <1>5 DEF ScannerInv

LEMMA EndKeeps ==
  ASSUME ScannerInv, NEW s \in SessionID,
         SessionEnds(s) \/ LeaderExits(s) \/ \E m \in Model : ServesNow(s, m)
  PROVE  ScannerInv'
<1> USE DEF SessionEnds, LeaderExits, ServesNow
<1>1. start \in [SessionID -> Nat] /\ starts \in Nat
  BY DEF ScannerInv, Shapes
<1>2. ScannerTypeOK'
  <2>1. CASE SessionEnds(s)
    BY <2>1 DEF ScannerInv, ScannerTypeOK
  <2>2. CASE LeaderExits(s)
    BY <2>2 DEF ScannerInv, ScannerTypeOK
  <2>3. CASE \E m \in Model : ServesNow(s, m)
    BY <2>3 DEF ScannerInv, ScannerTypeOK
  <2> QED
    BY <2>1, <2>2, <2>3
<1>3. Shapes' /\ EntryInv' /\ ListInv' /\ IdleInv' /\ AnswersHold'
  <2>1. \A t \in SessionID : start[t] <= start'[t]
    BY <1>1
  <2> QED
    BY <1>1, <2>1, HostKeeps
<1> QED
  BY <1>2, <1>3 DEF ScannerInv
-----------------------------------------------------------------------------
\* A scan that has begun knows no session yet.
LEMMA ListKeeps == ASSUME ScannerInv, ListProcesses PROVE ScannerInv'
<1> USE DEF ListProcesses
<1>1. running \subseteq SessionID /\ clock \in Nat /\ sessions' = << >> /\ answer' = nothing
  BY DEF ScannerInv, Shapes, ScannerTypeOK
<1>2. ScannerTypeOK'
  <2>1. clock' \in 0 .. MaxClock
    BY <1>1, ScannerAssumption
  <2>2. cache.kind = "entry" => cache.updatedAt \in 1 .. clock' /\ cache.key.session \in SessionID
    BY <1>1 DEF ScannerInv, ScannerTypeOK
  <2> QED
    BY <1>1, <2>1, <2>2 DEF ScannerInv, ScannerTypeOK, nothing, world
<1>3. Shapes'
  BY <1>1 DEF ScannerInv, Shapes, world, Entry, KeyRecord
<1>4. EntryInv'
  <2>1. cache.kind = "entry" => cache.at \in Nat
    BY DEF ScannerInv, Shapes, Entry, nothing
  <2> QED
    BY <1>1, <2>1 DEF ScannerInv, EntryInv, world
<1>5. ListInv'
  BY <1>1, 1 <= clock + 1 DEF ListInv
<1>6. IdleInv' /\ AnswersHold'
  BY DEF IdleInv, AnswersHold, SameIncarnation, OnTheGPU, StartTimeMatches, NotStale, Attributed,
         nothing
<1> QED
  BY <1>2, <1>3, <1>4, <1>5, <1>6 DEF ScannerInv

\* A key that is read now is of the session's ID and not older than a probe.
NewKey(s, k) ==
  /\ k \in KeyRecord
  /\ s # 0 => /\ s \in SessionID
              /\ k.session = s /\ k.start <= start[s]
              /\ cache.kind = "entry" /\ cache.key.session = s => cache.probed <= k.start

LEMMA KeyOfNew ==
  ASSUME ScannerInv, NEW s \in SessionID, NEW leads \in BOOLEAN PROVE NewKey(s, KeyOf(s, leads))
<1>1. start[s] \in Nat
  BY DEF ScannerInv, Shapes
<1>2. /\ KeyOf(s, leads) \in KeyRecord
      /\ KeyOf(s, leads).session = s /\ KeyOf(s, leads).start = start[s]
  BY <1>1 DEF KeyOf, KeyRecord
<1>3. cache.kind = "entry" /\ cache.key.session = s => cache.probed <= start[s]
  BY DEF ScannerInv, EntryInv
<1> QED
  BY <1>1, <1>2, <1>3 DEF NewKey

LEMMA PhantomNew == NewKey(0, Phantom)
<1>1. Phantom \in KeyRecord
  BY Zenon, 0 \in Nat DEF Phantom, KeyRecord
<1> QED
  BY <1>1 DEF NewKey

\* A scan that reads on, and of each session keeps what it had or has just read.
LEMMA ReadsOn ==
  ASSUME ScannerInv, UNCHANGED <<world, clock, cache, answer>>, pc # "idle",
         pc' \in {"processes", "leaders"}, todo' \subseteq SessionID,
         DOMAIN sessions' \subseteq SessionID \union {0},
         \A s \in DOMAIN sessions' :
           NewKey(s, sessions'[s]) \/ (s \in DOMAIN sessions /\ sessions'[s] = sessions[s])
  PROVE  ScannerInv'
<1> USE DEF world
<1>1. answer = nothing /\ clock >= 1
  BY DEF ScannerInv, ListInv
<1>2. ScannerTypeOK'
  BY DEF ScannerInv, ScannerTypeOK
<1>3. ASSUME NEW s \in DOMAIN sessions' PROVE NewKey(s, sessions'[s])
  <2>1. s \in DOMAIN sessions /\ sessions'[s] = sessions[s] => NewKey(s, sessions'[s])
    BY DEF ScannerInv, Shapes, ListInv, NewKey
  <2> QED
    BY <2>1
<1>4. Shapes'
  BY <1>3 DEF ScannerInv, Shapes, NewKey, Entry, KeyRecord
<1>5. EntryInv' /\ IdleInv'
  BY DEF ScannerInv, EntryInv, IdleInv
<1>6. ListInv'
  BY <1>1, <1>3 DEF ListInv, NewKey
<1>7. AnswersHold'
  BY <1>1 DEF AnswersHold, SameIncarnation, OnTheGPU, StartTimeMatches, NotStale, Attributed,
     nothing
<1> QED
  BY <1>2, <1>4, <1>5, <1>6, <1>7 DEF ScannerInv

LEMMA StatKeeps == ASSUME ScannerInv, NEW s \in SessionID, StatProcess(s) PROVE ScannerInv'
<1>1. /\ UNCHANGED <<world, clock, cache, answer>> /\ pc = "processes" /\ pc' = "processes"
      /\ todo' \subseteq SessionID /\ DOMAIN sessions \subseteq SessionID \union {0}
  BY DEF ScannerInv, ScannerTypeOK, StatProcess
<1>2. PICK r \in SessionID \union {0}, k \in {KeyOf(s, FALSE), Phantom} :
        /\ NewKey(r, k)
        /\ sessions' = sessions \/ sessions' = Joined(r, k)
  BY KeyOfNew, PhantomNew DEF StatProcess
<1>3. /\ DOMAIN sessions' \subseteq DOMAIN sessions \union {r}
      /\ \A t \in DOMAIN sessions' :
           NewKey(t, sessions'[t]) \/ (t \in DOMAIN sessions /\ sessions'[t] = sessions[t])
  <2>1. CASE sessions' = sessions
    BY <2>1
  <2>2. CASE sessions' = Joined(r, k)
    <3>1. sessions' = [t \in DOMAIN sessions \union {r} |->
                         IF t \in DOMAIN sessions THEN sessions[t] ELSE k]
      BY <2>2 DEF Joined
    <3>2. DOMAIN sessions' = DOMAIN sessions \union {r}
      BY <3>1
    <3>3. ASSUME NEW t \in DOMAIN sessions'
          PROVE  NewKey(t, sessions'[t]) \/ (t \in DOMAIN sessions /\ sessions'[t] = sessions[t])
      <4>1. CASE t \in DOMAIN sessions
        BY <3>1, <4>1
      <4>2. CASE t \notin DOMAIN sessions
        <5>1. t = r
          BY <3>2, <3>3, <4>2
        <5>2. sessions'[t] = k
          BY <3>1, <3>2, <3>3, <4>2
        <5> QED
          BY <1>2, <5>1, <5>2
      <4> QED
        BY <4>1, <4>2
    <3> QED
      BY <3>2, <3>3
  <2> QED
    BY <1>2, <2>1, <2>2
<1> QED
  BY <1>1, <1>2, <1>3, ReadsOn

LEMMA ReadKeeps == ASSUME ScannerInv, ProcessesRead PROVE ScannerInv'
<1>1. DOMAIN sessions \subseteq SessionID \union {0}
  BY DEF ScannerInv, ScannerTypeOK
<1> QED
  BY <1>1, ReadsOn DEF ProcessesRead

LEMMA LeaderKeeps == ASSUME ScannerInv, NEW s \in SessionID, ReadLeader(s) PROVE ScannerInv'
<1>1. /\ UNCHANGED <<world, clock, cache, answer>> /\ pc = "leaders" /\ pc' = "leaders"
      /\ todo' \subseteq SessionID /\ DOMAIN sessions \subseteq SessionID \union {0}
  BY DEF ScannerInv, ScannerTypeOK, ReadLeader
<1>2. /\ DOMAIN sessions' = DOMAIN sessions
      /\ \A t \in DOMAIN sessions' :
           sessions'[t] = sessions[t] \/ (t = s /\ sessions'[t] = KeyOf(s, TRUE))
  <2>1. CASE sessions' = sessions
    BY <2>1
  <2>2. CASE sessions' = [sessions EXCEPT ![s] = KeyOf(s, TRUE)]
    BY <2>2
  <2> QED
    BY <2>1, <2>2 DEF ReadLeader
<1>3. NewKey(s, KeyOf(s, TRUE))
  BY KeyOfNew
<1>4. \A t \in DOMAIN sessions' :
        NewKey(t, sessions'[t]) \/ (t \in DOMAIN sessions /\ sessions'[t] = sessions[t])
  BY <1>2, <1>3
<1> QED
  BY <1>1, <1>2, <1>4, ReadsOn

\* A scan that forgets what it had, and returns nothing.
LEMMA ForgetKeeps ==
  ASSUME ScannerInv, ListFails \/ NoSessions \/ NotFound PROVE ScannerInv'
<1> USE DEF ListFails, NoSessions, NotFound, Listed, nothing
<1>1. /\ cache' = nothing /\ pc' = "idle" /\ UNCHANGED <<world, todo, sessions>>
      /\ answer' \in {nothing, [kind |-> "error"]}
      /\ clock' \in 0 .. MaxClock
  BY ScannerAssumption DEF ScannerInv, ScannerTypeOK, ListInv
<1>2. ScannerTypeOK'
  BY <1>1 DEF ScannerInv, ScannerTypeOK, world
<1>3. Shapes'
  BY <1>1, ScannerAssumption DEF ScannerInv, Shapes, world, KeyRecord
<1>4. EntryInv' /\ ListInv' /\ IdleInv'
  BY <1>1 DEF EntryInv, ListInv, IdleInv
<1>5. AnswersHold'
  BY <1>1 DEF AnswersHold, SameIncarnation, OnTheGPU, StartTimeMatches, NotStale, Attributed
<1> QED
  BY <1>2, <1>3, <1>4, <1>5 DEF ScannerInv

\* An entry is used in the incarnation that was probed: its key is that of a
\* session listed now, which is neither older nor newer than the probe.
LEMMA UseKeeps == ASSUME ScannerInv, UseCache PROVE ScannerInv'
<1> USE DEF UseCache, Listed
<1> DEFINE k == cache.key.session
<1>1. cache \in Entry /\ cache.kind = "entry" /\ k \in DOMAIN sessions /\ sessions[k] = cache.key
      /\ clock - cache.updatedAt <= CacheTTL
  BY DEF Fresh, ScannerInv, Shapes, nothing
<1>2. k \in SessionID /\ k # 0
  BY <1>1 DEF ScannerInv, EntryInv, SessionID
<1>3. cache.probed = sessions[k].start
  <2>1. cache.probed <= sessions[k].start
    BY <1>1, <1>2 DEF ScannerInv, ListInv
  <2>2. sessions[k].start <= cache.probed
    BY <1>1 DEF ScannerInv, EntryInv
  <2>3. cache.probed \in Nat /\ sessions[k].start \in Nat
    BY <1>1 DEF Entry, KeyRecord
  <2> QED
    BY <2>1, <2>2, <2>3
<1>4. /\ answer'.kind = "cached" /\ answer'.key = cache.key
      /\ answer'.probed = cache.probed /\ answer'.at = cache.at
  BY <1>1 DEF Entry
<1>5. ScannerTypeOK'
  BY <1>4 DEF ScannerInv, ScannerTypeOK, world
<1>6. Shapes' /\ EntryInv'
  BY DEF ScannerInv, Shapes, EntryInv, world, Entry, KeyRecord
<1>7. ListInv' /\ IdleInv'
  BY <1>4 DEF ListInv, IdleInv
<1>8. AnswersHold'
  BY <1>1, <1>2, <1>3, <1>4 DEF ScannerInv, EntryInv, AnswersHold, SameIncarnation, OnTheGPU,
     StartTimeMatches, NotStale, Attributed
<1> QED
  BY <1>5, <1>6, <1>7, <1>8 DEF ScannerInv

LEMMA DiscoverKeeps == ASSUME ScannerInv, Discover PROVE ScannerInv'
<1> USE DEF Discover, Listed
<1>1. PICK s \in DOMAIN sessions \ {0} :
        /\ serves[s] # "none"
        /\ cache' = [kind |-> "entry", key |-> sessions[s], model |-> serves[s],
                     updatedAt |-> clock, probed |-> start[s], at |-> clock]
  OBVIOUS
<1>2. /\ s \in SessionID /\ sessions[s] \in KeyRecord /\ sessions[s].session = s
      /\ sessions[s].start <= start[s] /\ start[s] \in Nat /\ clock \in Nat
      /\ serves[s] \in Model
  BY <1>1 DEF ScannerInv, ListInv, Shapes, ScannerTypeOK
<1>3. clock \in 1 .. MaxClock
  BY DEF ScannerInv, ScannerTypeOK, ListInv
<1>4. /\ answer'.kind = "discovered" /\ answer'.key = sessions[s] /\ answer'.at = clock
  BY <1>1
<1>5. ScannerTypeOK'
  BY <1>1, <1>2, <1>3, <1>4 DEF ScannerInv, ScannerTypeOK, world
<1>6. Shapes' /\ EntryInv'
  BY <1>1, <1>2 DEF ScannerInv, Shapes, EntryInv, world, Entry
<1>7. ListInv' /\ IdleInv'
  BY <1>4 DEF ListInv, IdleInv
<1>8. AnswersHold'
  BY <1>1, <1>2, <1>4, ScannerAssumption DEF AnswersHold, SameIncarnation, OnTheGPU,
     StartTimeMatches, NotStale, Attributed
<1> QED
  BY <1>5, <1>6, <1>7, <1>8 DEF ScannerInv
-----------------------------------------------------------------------------
LEMMA ScannerNextInv == ASSUME ScannerInv, [ScannerNext]_scannerVars PROVE ScannerInv'
<1>1. CASE Scan
  BY <1>1, ListKeeps, StatKeeps, ReadKeeps, LeaderKeeps, ForgetKeeps, UseKeeps, DiscoverKeeps
     DEF Scan
<1>2. ASSUME NEW s \in SessionID,
             \/ SessionStarts(s) \/ SessionEnds(s) \/ LeaderExits(s)
             \/ \E m \in Model : ServesNow(s, m)
      PROVE ScannerInv'
  BY <1>2, StartKeeps, EndKeeps
<1>3. CASE UNCHANGED scannerVars
  <2>1. UNCHANGED <<running, leaderless, start, serves, starts, clock, pc, todo, sessions, cache, answer>>
    BY <1>3 DEF scannerVars, world
  <2> QED
    BY <2>1 DEF ScannerInv, ScannerTypeOK, Shapes, EntryInv, ListInv, IdleInv, AnswersHold,
       SameIncarnation, OnTheGPU, StartTimeMatches, NotStale, Attributed
<1> QED
  BY <1>1, <1>2, <1>3 DEF ScannerNext

LEMMA ScannerInvariant == ScannerSpec => []ScannerInv
<1>1. ScannerInit => ScannerInv
  BY ScannerInitInv
<1>2. ScannerInv /\ [ScannerNext]_scannerVars => ScannerInv'
  BY ScannerNextInv
<1> QED
  BY <1>1, <1>2, PTL DEF ScannerSpec

\* The types of InferenceScanner hold.
THEOREM ScannerTypeCorrect == ScannerSpec => []ScannerTypeOK
<1>1. ScannerInv => ScannerTypeOK
  BY DEF ScannerInv
<1> QED
  BY <1>1, ScannerInvariant, PTL

\* Whatever the host does between the reads of a scan, what scans return is
\* true of the session probed, recent, and does not come back once it was gone
\* (AttributionsTrue).
THEOREM AttributesTruly == ScannerSpec => AttributionsTrue
<1>1. ScannerInv /\ [ScannerNext]_scannerVars => ScannerInv'
  BY ScannerNextInv
<1>2. ScannerInv' => AnswersHold'
  BY DEF ScannerInv
<1>3. ScannerInv /\ [ScannerNext]_scannerVars => NoResurrection \/ UNCHANGED scannerVars
  <2> SUFFICES ASSUME ScannerInv, [ScannerNext]_scannerVars, answer.kind \in {"none", "error"},
                      pc = "idle", pc' = "processes"
               PROVE  cache'.kind = "none"
    BY DEF NoResurrection
  <2>1. cache.kind = "none"
    BY DEF ScannerInv, IdleInv
  <2>2. cache' = cache
    BY DEF ScannerNext, Scan, ListProcesses, StatProcess, ProcessesRead, ReadLeader, Listed,
       ListFails, NoSessions, UseCache, Discover, NotFound, SessionStarts, SessionEnds, LeaderExits, ServesNow, scannerVars
  <2> QED
    BY <2>1, <2>2
<1> QED
  BY <1>1, <1>2, <1>3, ScannerInvariant, PTL DEF ScannerSpec, AttributionsTrue
=============================================================================
