----------------------------- MODULE CounterProofs -----------------------------
(***************************************************************************)
(* Theorems about the components that rest on sums of counters, for every  *)
(* value of their constants.  Of the client that collector and scanner     *)
(* share: its type invariant, by which no field of a link is read before   *)
(* all links of the device are known, that rates are the traffic, and that *)
(* a list of processes misses nobody.  Of the scraper: its type invariant, *)
(* and that the windows count what happened.                               *)
(***************************************************************************)
EXTENDS NvmlClient, VllmScraper, SumLemmas, SequenceTheorems, TLAPS

(***************************************************************************)
(* The inductive invariant of the client.                                  *)
(***************************************************************************)
Places == {"idle", "lookup", "once", "init", "use", "failed", "fill"}
Stages == {"absent", "new", "running", "ready", "failed"}

\* Where the callers are, and at which device.
PlaceInv ==
  /\ entry \in [Device -> Stages]
  /\ pc \in [Caller -> Places]
  /\ DOMAIN at = Caller
  /\ \A c \in Caller : at[c] \in IF pc[c] = "idle" THEN {None} ELSE Device

\* The once of a device: whoever uses the device finds it initialized, and what
\* is initialized has no link left to ask for.
OnceInv ==
  /\ links \in [Device -> SUBSET Link]
  /\ unasked \in [Device -> SUBSET Link]
  /\ \A d \in Device : entry[d] = "ready" => unasked[d] = {}
  /\ \A c \in Caller : pc[c] = "init" => entry[at[c]] = "running"
  /\ \A c, o \in Caller :
       pc[c] = "init" /\ pc[o] = "init" /\ at[c] = at[o] => c = o
  /\ \A c \in Caller : pc[c] \in {"use", "fill"} => entry[at[c]] = "ready"

\* The collector's round: the devices it has left begin with the one it is at,
\* and only initialized devices have a total to subtract from.
RoundInv ==
  /\ todo \in Seq(Device)
  /\ todo = <<>> <=> pc["collector"] = "idle"
  /\ now \in Nat
  /\ DOMAIN prevLink = Device
  /\ \A d \in Device :
       prevLink[d] # None => unasked[d] = {} /\ prevLink[d].time \in Nat /\ prevLink[d].time <= now

\* The scanner's call: who was there throughout is there now, and is in the
\* list once the call has one.
CallInv ==
  /\ DOMAIN alive = Device
  /\ IF pc["scanner"] = "idle"
       THEN processes.kind = "ok" => throughout \subseteq processes.listed
       ELSE throughout \subseteq alive[at["scanner"]]

\* What the counters of a device were when its window was opened, unless they
\* were reset since.
Before(d) == [l \in Link |-> counter[d][l] - window[d].moved[l]]

\* The total to subtract from is the sum of the counters at the time of the
\* window; counters that were reset since have counted part of the window only.
TotalOf(d) ==
  prevLink[d] # None =>
    /\ prevLink[d].total \in Nat /\ window[d].from = prevLink[d].time
    /\ IF window[d].reset THEN \A l \in Link : counter[d][l] <= window[d].moved[l]
       ELSE window[d].whole => prevLink[d].total = SumFunctionOnSet(Before(d), links[d])

TotalInv ==
  /\ counter \in [Device -> [Link -> Nat]]
  /\ window \in [Device -> [from : Nat, whole : BOOLEAN, moved : [Link -> Nat], reset : BOOLEAN]]
  /\ \A d \in Device : TotalOf(d)

\* What is reported of a device, true whenever every field was read.
TrueRate(b) ==
  b # None /\ b.whole =>
    /\ b.span = b.ticks /\ b.span > 0
    /\ IF b.reset THEN b.tx <= b.really ELSE b.tx = b.really

Rate == [tx : Nat, span : Int, whole : BOOLEAN, reset : BOOLEAN, really : Nat, ticks : Int]

Reported == {e \in [device : Device, bandwidth : {None} \cup Rate] : TrueRate(e.bandwidth)}

SentInv == gpus \in Seq(Reported) /\ snapshot \in Seq(Reported)

IInv == PlaceInv /\ OnceInv /\ RoundInv /\ CallInv /\ TotalInv /\ SentInv
-----------------------------------------------------------------------------
\* The initial states are in the invariant.
LEMMA InitInv == ASSUME Init PROVE IInv
  <1>1. PlaceInv BY DEF Init, PlaceInv, Places, Stages
  <1>2. OnceInv BY DEF Init, OnceInv
  <1>3. RoundInv
    <2>1. <<>> \in Seq(Device) OBVIOUS
    <2> QED BY <2>1 DEF Init, RoundInv, Caller
  <1>4. CallInv BY DEF Init, CallInv, Caller
  <1>5. TotalInv BY DEF Init, TotalInv, TotalOf, Opened
  <1>6. SentInv BY DEF Init, SentInv, NoData
  <1> QED BY <1>1, <1>2, <1>3, <1>4, <1>5, <1>6 DEF IInv

\* A step that leaves counters, windows and totals alone leaves TotalInv, if
\* the links of a device with a total stay.
LEMMA TotalStays ==
  ASSUME IInv, UNCHANGED <<traffic, prevLink>>,
         \A d \in Device : prevLink[d] # None => links'[d] = links[d]
  PROVE  TotalInv'
  <1>1. \A d \in Device : Before(d)' = Before(d)
    BY DEF traffic, Before
  <1>2. \A d \in Device : TotalOf(d) BY DEF IInv, TotalInv
  <1>3. \A d \in Device : TotalOf(d)' BY <1>1, <1>2 DEF TotalOf, traffic
  <1> QED BY <1>3 DEF IInv, TotalInv, traffic

\* The steps of Client.device, taken by either caller: the entry of a device
\* moves from stage to stage, and its links are asked for one by one.
LEMMA DeviceKeeps ==
  ASSUME IInv, NEW c \in Caller,
         Lookup(c) \/ BeginInit(c) \/ AskLink(c) \/ EndInit(c) \/ PassOnce(c)
  PROVE  IInv'
  <1> USE DEF IInv
  <1>0. UNCHANGED <<at, collector, scanner, traffic>> /\ pc[c] # "idle" /\ at[c] \in Device
    BY DEF Lookup, BeginInit, AskLink, EndInit, PassOnce, PlaceInv
  <1>1. pc' \in [Caller -> Places] /\ \A o \in Caller : pc'[o] = "idle" <=> pc[o] = "idle"
    BY DEF Lookup, BeginInit, AskLink, EndInit, PassOnce, PlaceInv, Goto, Places
  <1>2. PlaceInv'
    <2>1. entry' \in [Device -> Stages]
      BY <1>0 DEF Lookup, BeginInit, AskLink, EndInit, PassOnce, client, PlaceInv, Stages
    <2> QED BY <1>0, <1>1, <2>1 DEF PlaceInv
  <1>3. OnceInv'
    <2>1. CASE Lookup(c)
      BY <2>1, <1>0 DEF Lookup, Goto, PlaceInv, OnceInv, Places, Stages
    <2>2. CASE BeginInit(c)
      BY <2>2, <1>0 DEF BeginInit, Goto, PlaceInv, OnceInv, Places, Stages
    <2>3. CASE AskLink(c)
      <3> DEFINE l == CHOOSE x \in unasked[at[c]] : TRUE
      <3>1. l \in unasked[at[c]] /\ l \in Link BY <2>3, <1>0 DEF AskLink, OnceInv
      <3> HIDE DEF l
      <3>2. PICK active \in SUBSET {l} :
              /\ unasked' = [unasked EXCEPT ![at[c]] = @ \ {l}]
              /\ links' = [links EXCEPT ![at[c]] = @ \cup active]
              /\ UNCHANGED <<entry, pc, at>>
        BY <2>3 DEF AskLink, l
      <3> QED BY <3>1, <3>2, <1>0 DEF OnceInv
    <2>4. CASE EndInit(c)
      BY <2>4, <1>0 DEF EndInit, Goto, PlaceInv, OnceInv, Places, Stages
    <2>5. CASE PassOnce(c)
      BY <2>5, <1>0 DEF PassOnce, Goto, client, PlaceInv, OnceInv, Places, Stages
    <2> QED BY <2>1, <2>2, <2>3, <2>4, <2>5
  <1>4. RoundInv'
    <2>1. \A d \in Device : unasked[d] = {} => unasked'[d] = {}
      BY <1>0 DEF Lookup, BeginInit, AskLink, EndInit, PassOnce, client, OnceInv
    <2>2. pc'["collector"] = "idle" <=> pc["collector"] = "idle" BY <1>1 DEF Caller
    <2> QED BY <1>0, <2>1, <2>2 DEF RoundInv, collector
  <1>5. CallInv'
    <2>1. pc'["scanner"] = "idle" <=> pc["scanner"] = "idle" BY <1>1 DEF Caller
    <2> QED BY <1>0, <2>1 DEF CallInv, scanner
  <1>6. TotalInv'
    <2>1. ASSUME NEW d \in Device, prevLink[d] # None PROVE links'[d] = links[d]
      <3>1. CASE AskLink(c)
        <4>1. d # at[c]
          BY <2>1, <3>1 DEF AskLink, RoundInv
        <4> QED BY <3>1, <4>1 DEF AskLink, OnceInv
      <3>2. CASE ~AskLink(c)
        BY <3>2 DEF Lookup, BeginInit, EndInit, PassOnce, client
      <3> QED BY <3>1, <3>2
    <2> QED BY <1>0, <2>1, TotalStays DEF collector
  <1>7. SentInv' BY <1>0 DEF SentInv, collector
  <1> QED BY <1>2, <1>3, <1>4, <1>5, <1>6, <1>7

\* The tick begins a round at the first device.
LEMMA TickKeeps == ASSUME IInv, Tick PROVE IInv'
  <1> USE NvmlAssumption DEF IInv
  <1>0. Head(DeviceIds) \in Device BY HeadTailProperties DEF NvmlAssumption
  <1>1. PlaceInv' BY <1>0 DEF Tick, Goto, client, PlaceInv, Places, Caller
  <1>2. OnceInv' BY <1>0 DEF Tick, Goto, client, OnceInv, PlaceInv, Caller
  <1>3. RoundInv'
    <2>2. pc'["collector"] = "lookup" BY DEF Tick, Goto, PlaceInv, Caller
    <2>3. now' \in Nat /\ now <= now' BY DEF Tick, RoundInv
    <2>4. \A d \in Device : prevLink[d] # None => prevLink[d].time <= now'
      <3> TAKE d \in Device
      <3> HAVE prevLink[d] # None
      <3>1. prevLink[d].time \in Nat /\ prevLink[d].time <= now /\ now \in Nat BY DEF RoundInv
      <3> QED BY <2>3, <3>1
    <2> QED BY <2>2, <2>3, <2>4 DEF Tick, RoundInv, NvmlAssumption, client
  <1>4. CallInv' BY DEF Tick, Goto, CallInv, PlaceInv, scanner, Caller
  <1>5. TotalInv' BY TotalStays DEF Tick, client
  <1>6. SentInv' BY DEF Tick, SentInv, NoData
  <1> QED BY <1>1, <1>2, <1>3, <1>4, <1>5, <1>6

\* Moving on to the next device, or sending the snapshot, leaves the scanner
\* alone and the collector in a place that agrees with what it has left.
LEMMA NextKeeps ==
  ASSUME IInv, NEW collected \in Seq(Reported),
         NextDevice(collected), pc["collector"] # "idle"
  PROVE  /\ todo' \in Seq(Device) /\ (todo' = <<>> <=> pc'["collector"] = "idle")
         /\ pc'["collector"] \in {"idle", "lookup"}
         /\ pc' \in [Caller -> Places] /\ pc'["scanner"] = pc["scanner"]
         /\ DOMAIN at' = Caller /\ at'["scanner"] = at["scanner"]
         /\ \A c \in Caller : at'[c] \in IF pc'[c] = "idle" THEN {None} ELSE Device
         /\ SentInv'
  <1> USE DEF IInv, SentInv
  <1>0. todo \in Seq(Device) /\ todo # <<>> BY DEF RoundInv
  <1>1. todo' = Tail(todo) /\ todo' \in Seq(Device)
    BY <1>0, HeadTailProperties DEF NextDevice
  <1>2. NoData \in Seq(Reported) BY DEF NoData
  <1>3. CASE todo' = <<>>
    BY <1>1, <1>2, <1>3 DEF NextDevice, Goto, PlaceInv, RoundInv, Places, Caller
  <1>4. CASE todo' # <<>>
    <2>1. Head(todo') \in Device BY <1>1, <1>4, HeadTailProperties
    <2> QED BY <1>1, <1>4, <2>1 DEF NextDevice, Goto, PlaceInv, RoundInv, Places, Caller
  <1> QED BY <1>3, <1>4

\* A rate is the traffic: what the counters have moved since the window was
\* opened is their difference, and no less when they were reset.
LEMMA RateIsTrue ==
  ASSUME IInv, NEW d \in Device, HasRate(d), NEW read \in SUBSET links[d],
         NEW total, total = SumFunctionOnSet(counter[d], read)
  PROVE  [device |-> d, bandwidth |-> Bandwidth(d, total, read = links[d])] \in Reported
  <1> USE DEF IInv
  <1> DEFINE b == Bandwidth(d, total, read = links[d])
             S == links[d]
             moved == window[d].moved
  <1>1. /\ prevLink[d].total \in Nat /\ prevLink[d].time \in Nat /\ now \in Nat
        /\ window[d].from = prevLink[d].time /\ prevLink[d].time < now
        /\ window[d].whole \in BOOLEAN /\ window[d].reset \in BOOLEAN
    BY DEF HasRate, TotalInv, TotalOf, RoundInv
  <1>2. IsFiniteSet(S) /\ IsFiniteSet(read) /\ S \subseteq Link
    <2>1. S \subseteq Link BY DEF OnceInv
    <2> QED BY <2>1, NvmlAssumption, FS_Subset DEF NvmlAssumption
  <1>3. \A l \in Link : counter[d][l] \in Nat /\ moved[l] \in Nat
    BY DEF TotalInv
  <1>4. total \in Nat /\ SumFunctionOnSet(moved, S) \in Nat
    BY <1>2, <1>3, SumOfNumbers
  <1>5. /\ b.tx = IF total >= prevLink[d].total THEN total - prevLink[d].total ELSE 0
        /\ b.span = now - prevLink[d].time /\ b.ticks = now - window[d].from
        /\ b.whole = (read = S /\ window[d].whole) /\ b.reset = window[d].reset
        /\ b.really = SumFunctionOnSet(moved, S)
    BY DEF Bandwidth
  <1>6. b \in Rate
    <2>1. (IF total >= prevLink[d].total THEN total - prevLink[d].total ELSE 0) \in Nat
      BY <1>1, <1>4
    <2> QED BY <1>1, <1>4, <2>1 DEF Bandwidth, Rate
  <1>7. TrueRate(b)
    <2>0. b.span = b.ticks /\ b.span > 0
      <3> HIDE DEF b
      <3> QED BY <1>1, <1>5
    <2> SUFFICES ASSUME read = S, window[d].whole
                 PROVE  IF window[d].reset THEN b.tx <= b.really ELSE b.tx = b.really
      <3> HIDE DEF b
      <3> QED BY <1>5, <2>0 DEF TrueRate
    <2>1. CASE window[d].reset
      <3> DEFINE gap == [l \in Link |-> moved[l] - counter[d][l]]
      <3>1. \A l \in S : gap[l] \in Nat /\ moved[l] = counter[d][l] + gap[l]
        <4>1. prevLink[d] # None BY DEF HasRate
        <4> QED BY <1>2, <1>3, <2>1, <4>1 DEF TotalInv, TotalOf
      <3> HIDE DEF gap, S, moved
      <3>2. SumFunctionOnSet(gap, S) \in Nat
        BY <1>2, <3>1, SumOfNumbers
      <3>3. SumFunctionOnSet(moved, S) = SumFunctionOnSet(counter[d], S) + SumFunctionOnSet(gap, S)
        <4>1. \A l \in S : counter[d][l] \in Int /\ gap[l] \in Int /\ moved[l] = counter[d][l] + gap[l]
          BY <1>2, <1>3, <3>1
        <4> QED BY <1>2, <4>1, SumAdds
      <3>4. total <= SumFunctionOnSet(moved, S)
        BY <1>4, <3>2, <3>3
      <3> QED BY <1>1, <1>4, <1>5, <2>1, <3>4
    <2>2. CASE ~window[d].reset
      <3>1. prevLink[d].total = SumFunctionOnSet(Before(d), S)
        <4>1. prevLink[d] # None BY DEF HasRate
        <4> QED BY <2>2, <4>1 DEF TotalInv, TotalOf
      <3>2. \A l \in S : /\ Before(d)[l] \in Int /\ moved[l] \in Int
                         /\ counter[d][l] = Before(d)[l] + moved[l]
        BY <1>2, <1>3 DEF Before
      <3> HIDE DEF S, moved
      <3>3. SumFunctionOnSet(counter[d], S) = SumFunctionOnSet(Before(d), S) + SumFunctionOnSet(moved, S)
        BY <1>2, <3>2, SumAdds
      <3> QED BY <1>1, <1>4, <1>5, <2>2, <3>1, <3>3
    <2> QED BY <2>1, <2>2
  <1> HIDE DEF b
  <1> DEFINE e == [device |-> d, bandwidth |-> b]
  <1>8. e \in [device : Device, bandwidth : {None} \cup Rate] /\ e.bandwidth = b
    BY <1>6
  <1> HIDE DEF e
  <1>9. e \in Reported
    BY <1>7, <1>8 DEF Reported
  <1> QED BY <1>9 DEF e, b

\* What is collected of a device may be reported.
LEMMA CollectedIsTrue ==
  ASSUME IInv, NEW d \in Device, NEW bandwidth, NEW other,
         bandwidth = None \/ [device |-> d, bandwidth |-> bandwidth] \in Reported
  PROVE  Appended(d, bandwidth, other) \in Seq(Reported)
  <1>1. CASE bandwidth = None
    <2>1. [device |-> d, bandwidth |-> bandwidth] \in Reported
      BY <1>1 DEF Reported, TrueRate
    <2> QED BY <2>1, AppendProperties DEF IInv, SentInv, Appended
  <1>2. CASE bandwidth # None
    BY <1>2, AppendProperties DEF IInv, SentInv, Appended
  <1> QED BY <1>1, <1>2

\* A poll of the links opens the next window of its device.
LEMMA CollectTotal ==
  ASSUME IInv, NEW d \in Device, NEW read \in SUBSET links[d],
         prevLink' = [prevLink EXCEPT ![d] = [total |-> SumFunctionOnSet(counter[d], read), time |-> now]],
         window' = [window EXCEPT ![d] = Opened(now, read = links[d])],
         UNCHANGED <<counter, links>>
  PROVE  TotalInv'
  <1> USE DEF IInv
  <1>1. /\ IsFiniteSet(read) /\ read \subseteq Link /\ now \in Nat
        /\ counter[d] \in [Link -> Nat] /\ DOMAIN prevLink = Device
    <2>1. read \subseteq Link BY DEF OnceInv
    <2> QED BY <2>1, NvmlAssumption, FS_Subset DEF NvmlAssumption, TotalInv, RoundInv
  <1>2. SumFunctionOnSet(counter[d], read) \in Nat
    <2>1. \A l \in read : counter[d][l] \in Nat BY <1>1
    <2> QED BY <1>1, <2>1, SumOfNumbers
  <1>3. window' \in [Device -> [from : Nat, whole : BOOLEAN, moved : [Link -> Nat], reset : BOOLEAN]]
    BY <1>1 DEF TotalInv, Opened
  <1>4. Before(d)' = counter[d]
    BY <1>1 DEF TotalInv, Before, Opened
  <1>5. ASSUME NEW x \in Device, x # d
        PROVE  prevLink'[x] = prevLink[x] /\ window'[x] = window[x] /\ Before(x)' = Before(x)
    BY <1>1, <1>5 DEF Before, TotalInv
  <1>6. /\ prevLink'[d] = [total |-> SumFunctionOnSet(counter[d], read), time |-> now]
        /\ window'[d] = Opened(now, read = links[d])
    BY <1>1 DEF TotalInv
  <1>7. TotalOf(d)'
    <2>1. (read = links[d]) => SumFunctionOnSet(counter[d], read) = SumFunctionOnSet(Before(d)', links[d])
      BY <1>4
    <2>2. /\ window'[d].from = now /\ window'[d].reset = FALSE
          /\ window'[d].whole => read = links[d]
      <3> DEFINE all == read = links[d]
      <3>1. window'[d] = Opened(now, all)
        BY <1>6
      <3> HIDE DEF all
      <3>2. window'[d].from = now /\ window'[d].reset = FALSE /\ window'[d].whole = all
        BY <3>1 DEF Opened
      <3> QED BY <3>2 DEF all
    <2>3. prevLink'[d].total = SumFunctionOnSet(counter[d], read) /\ prevLink'[d].time = now
      BY <1>6
    <2> QED BY <1>2, <2>1, <2>2, <2>3 DEF TotalOf
  <1>8. ASSUME NEW x \in Device, x # d PROVE TotalOf(x)'
    <2>1. TotalOf(x)
      BY DEF TotalInv
    <2> QED BY <1>5, <1>8, <2>1 DEF TotalOf
  <1>9. counter' \in [Device -> [Link -> Nat]]
    BY DEF TotalInv
  <1> QED BY <1>3, <1>7, <1>8, <1>9 DEF TotalInv

\* A poll of one device: its total is subtracted from only if it is ready.
LEMMA CollectKeeps ==
  ASSUME IInv, CollectWithoutNvml \/ CollectWithoutLinks \/ CollectLinks
  PROVE  IInv'
  <1> USE DEF IInv
  <1> DEFINE d == at["collector"]
  <1>0. pc["collector"] \in {"failed", "use"} /\ d \in Device
    BY DEF CollectWithoutNvml, CollectWithoutLinks, CollectLinks, PlaceInv, Caller
  <1>1. UNCHANGED <<client, now, scanner>>
    BY DEF CollectWithoutNvml, CollectWithoutLinks, CollectLinks
  <1> HIDE DEF d
  <1>2. /\ \E collected \in Seq(Reported) : NextDevice(collected)
        /\ TotalInv'
        /\ UNCHANGED prevLink \/ \E total : /\ pc["collector"] = "use"
                                       /\ prevLink' = [prevLink EXCEPT ![d] = [total |-> total, time |-> now]]
    <2>1. CASE CollectWithoutNvml \/ CollectWithoutLinks
      <3>1. PICK other : NextDevice(Appended(d, None, other))
        BY <2>1 DEF CollectWithoutNvml, CollectWithoutLinks, d
      <3>2. UNCHANGED <<traffic, prevLink, links>>
        BY <2>1 DEF CollectWithoutNvml, CollectWithoutLinks, client
      <3> QED BY <1>0, <3>1, <3>2, CollectedIsTrue, TotalStays
    <2>2. CASE CollectLinks
      <3>1. PICK read \in SUBSET links[d], pcie \in BOOLEAN, other \in BOOLEAN :
              /\ NextDevice(Appended(d, IF pcie /\ HasRate(d)
                    THEN Bandwidth(d, SumFunctionOnSet(counter[d], read), read = links[d]) ELSE None, other))
              /\ prevLink' = [prevLink EXCEPT ![d] = [total |-> SumFunctionOnSet(counter[d], read), time |-> now]]
              /\ window' = [window EXCEPT ![d] = Opened(now, read = links[d])]
        BY <2>2 DEF CollectLinks, d
      <3>2. UNCHANGED <<counter, links>> /\ pc["collector"] = "use"
        BY <2>2 DEF CollectLinks, client
      <3>3. TotalInv'
        BY <1>0, <3>1, <3>2, CollectTotal
      <3> DEFINE rate == IF pcie /\ HasRate(d)
                    THEN Bandwidth(d, SumFunctionOnSet(counter[d], read), read = links[d]) ELSE None
      <3>4. rate = None \/ [device |-> d, bandwidth |-> rate] \in Reported
        BY <1>0, RateIsTrue
      <3>5. NextDevice(Appended(d, rate, other))
        BY <3>1
      <3> HIDE DEF rate
      <3>6. Appended(d, rate, other) \in Seq(Reported)
        BY <1>0, <3>4, CollectedIsTrue
      <3> QED BY <3>1, <3>2, <3>3, <3>5, <3>6
    <2> QED BY <2>1, <2>2
  <1>3. /\ todo' \in Seq(Device) /\ (todo' = <<>> <=> pc'["collector"] = "idle")
        /\ pc'["collector"] \in {"idle", "lookup"}
        /\ pc' \in [Caller -> Places] /\ pc'["scanner"] = pc["scanner"]
        /\ DOMAIN at' = Caller /\ at'["scanner"] = at["scanner"]
        /\ \A c \in Caller : at'[c] \in IF pc'[c] = "idle" THEN {None} ELSE Device
        /\ SentInv'
    BY <1>0, <1>2, NextKeeps
  <1>5. PlaceInv' BY <1>1, <1>3 DEF PlaceInv, client
  <1>6. OnceInv' BY <1>1, <1>3 DEF OnceInv, client, Caller
  <1>7. RoundInv'
    <2>1. CASE UNCHANGED prevLink BY <1>1, <1>3, <2>1 DEF RoundInv, client
    <2>2. ASSUME NEW total, pc["collector"] = "use",
                 prevLink' = [prevLink EXCEPT ![d] = [total |-> total, time |-> now]]
          PROVE  RoundInv'
      <3>1. unasked[d] = {} BY <1>0, <2>2 DEF OnceInv, PlaceInv, Caller, d
      <3> QED BY <1>0, <1>1, <1>3, <2>2, <3>1 DEF RoundInv, client
    <2> QED BY <1>2, <2>1, <2>2
  <1>8. CallInv' BY <1>1, <1>3 DEF CallInv, scanner
  <1> QED BY <1>2, <1>3, <1>5, <1>6, <1>7, <1>8

\* The call of the scanner: begun with who is there, ended with an error or with
\* the list of the moment.
LEMMA ScanKeeps ==
  ASSUME IInv,
         (\E d \in Device : Scan(d)) \/ ScanFails \/ ProbeEmpty \/ Probe \/ Fill
  PROVE  IInv'
  <1> USE DEF IInv
  <1>1. CASE \E d \in Device : Scan(d)
    <2>1. PICK d \in Device : Scan(d) BY <1>1
    <2>2. PlaceInv' BY <2>1 DEF Scan, Goto, PlaceInv, client, Places, Caller
    <2>3. OnceInv' BY <2>1 DEF Scan, Goto, PlaceInv, OnceInv, client, Caller
    <2>4. RoundInv' BY <2>1 DEF Scan, Goto, PlaceInv, RoundInv, client, collector, Caller
    <2>5. CallInv' BY <2>1 DEF Scan, Goto, PlaceInv, CallInv, Caller
    <2>6. TotalInv' /\ SentInv' BY <2>1, TotalStays DEF Scan, SentInv, client, collector
    <2> QED BY <2>2, <2>3, <2>4, <2>5, <2>6
  <1>2. CASE ScanFails \/ ProbeEmpty \/ Fill
    <2>1. PICK result : Answered(result) BY <1>2 DEF ScanFails, ProbeEmpty, Fill
    <2>2. pc["scanner"] # "idle" BY <1>2 DEF ScanFails, ProbeEmpty, Fill
    <2>3. processes'.kind = "ok" => alive[at["scanner"]] \subseteq processes'.listed
      BY <1>2 DEF ScanFails, ProbeEmpty, Fill, Answered, Failure, Listed
    <2>4. PlaceInv' BY <2>1 DEF Answered, Goto, PlaceInv, client, Places, Caller
    <2>5. OnceInv' BY <2>1 DEF Answered, Goto, PlaceInv, OnceInv, client, Caller
    <2>6. RoundInv' BY <2>1 DEF Answered, Goto, PlaceInv, RoundInv, client, collector, Caller
    <2>7. CallInv' BY <2>1, <2>2, <2>3 DEF Answered, Goto, PlaceInv, CallInv, Caller
    <2>8. TotalInv' /\ SentInv' BY <2>1, TotalStays DEF Answered, SentInv, client, collector
    <2> QED BY <2>4, <2>5, <2>6, <2>7, <2>8
  <1>3. CASE Probe
    <2>1. PlaceInv' BY <1>3 DEF Probe, Goto, PlaceInv, client, Places, Caller
    <2>2. OnceInv' BY <1>3 DEF Probe, Goto, PlaceInv, OnceInv, client, Caller
    <2>3. RoundInv' BY <1>3 DEF Probe, Goto, PlaceInv, RoundInv, client, collector, Caller
    <2>4. CallInv' BY <1>3 DEF Probe, Goto, PlaceInv, CallInv, Caller
    <2>5. TotalInv' /\ SentInv' BY <1>3, TotalStays DEF Probe, SentInv, client, collector
    <2> QED BY <2>1, <2>2, <2>3, <2>4, <2>5
  <1> QED BY <1>1, <1>2, <1>3

\* The GPU: a process that starts in the middle of a call was not there
\* throughout, one that ends is struck off.
LEMMA GpuKeeps ==
  ASSUME IInv,
         \/ \E d \in Device : ResetCounters(d)
         \/ \E d \in Device, l \in Link : Transmit(d, l)
         \/ \E d \in Device, p \in Proc : StartProcess(d, p) \/ EndProcess(d, p)
  PROVE  IInv'
  <1> USE DEF IInv
  <1>1. UNCHANGED <<client, pc, at, collector, processes>>
    BY DEF ResetCounters, Transmit, StartProcess, EndProcess, scanner
  <1>2. PlaceInv' /\ OnceInv' BY <1>1 DEF PlaceInv, OnceInv, client
  <1>3. RoundInv' BY <1>1 DEF RoundInv, client, collector
  <1>4. CallInv'
    <2>1. CASE UNCHANGED scanner BY <1>1, <2>1 DEF CallInv, scanner
    <2>2. CASE \E d \in Device, p \in Proc : StartProcess(d, p)
      BY <1>1, <2>2 DEF StartProcess, CallInv, PlaceInv, Caller
    <2>3. CASE \E d \in Device, p \in Proc : EndProcess(d, p)
      BY <1>1, <2>3 DEF EndProcess, CallInv, PlaceInv, Caller
    <2> QED BY <2>1, <2>2, <2>3 DEF ResetCounters, Transmit
  <1>5. TotalInv'
    <2>1. CASE UNCHANGED traffic
      BY <1>1, <2>1, TotalStays DEF client, collector
    <2>2. ASSUME NEW d \in Device, NEW l \in Link, Transmit(d, l) PROVE TotalInv'
      <3>1. /\ counter' = [counter EXCEPT ![d] = [counter[d] EXCEPT ![l] = counter[d][l] + 1]]
            /\ window' = [window EXCEPT ![d] = [window[d] EXCEPT !.moved =
                            [window[d].moved EXCEPT ![l] = window[d].moved[l] + 1]]]
        BY <2>2 DEF Transmit
      <3>2. /\ counter' \in [Device -> [Link -> Nat]]
            /\ window' \in [Device -> [from : Nat, whole : BOOLEAN, moved : [Link -> Nat], reset : BOOLEAN]]
        <4> DEFINE Windows == [from : Nat, whole : BOOLEAN, moved : [Link -> Nat], reset : BOOLEAN]
        <4>1. [counter[d] EXCEPT ![l] = counter[d][l] + 1] \in [Link -> Nat]
          BY DEF TotalInv
        <4>2. [window[d].moved EXCEPT ![l] = window[d].moved[l] + 1] \in [Link -> Nat]
          BY DEF TotalInv
        <4>3. \A moved \in [Link -> Nat] : [window[d] EXCEPT !.moved = moved] \in Windows
          BY DEF TotalInv
        <4>4. counter \in [Device -> [Link -> Nat]] /\ window \in [Device -> Windows]
          BY DEF TotalInv
        <4> HIDE DEF Windows
        <4>5. counter' \in [Device -> [Link -> Nat]] /\ window' \in [Device -> Windows]
          BY <3>1, <4>1, <4>2, <4>3, <4>4
        <4> QED BY <4>5 DEF Windows
      <3>3. ASSUME NEW x \in Device
            PROVE  /\ window'[x].from = window[x].from /\ window'[x].reset = window[x].reset
                   /\ window'[x].whole = window[x].whole
        <4>1. CASE x = d
          <5>1. window'[d] = [window[d] EXCEPT !.moved = [window[d].moved EXCEPT ![l] = window[d].moved[l] + 1]]
            BY <3>1 DEF TotalInv
          <5> QED BY <4>1, <5>1 DEF TotalInv
        <4>2. CASE x # d
          BY <3>1, <4>2 DEF TotalInv
        <4> QED BY <4>1, <4>2
      <3>4. ASSUME NEW x \in Device, NEW m \in Link
            PROVE  LET one == IF x = d /\ m = l THEN 1 ELSE 0
                   IN /\ counter'[x][m] = counter[x][m] + one
                      /\ window'[x].moved[m] = window[x].moved[m] + one
        <4>1. counter[x] \in [Link -> Nat] /\ window[x].moved \in [Link -> Nat]
          BY DEF TotalInv
        <4>2. CASE x = d
          <5>1. /\ counter'[d] = [counter[d] EXCEPT ![l] = counter[d][l] + 1]
                /\ window'[d].moved = [window[d].moved EXCEPT ![l] = window[d].moved[l] + 1]
            BY <3>1 DEF TotalInv
          <5> QED BY <4>1, <4>2, <5>1
        <4>3. CASE x # d
          <5>1. counter'[x] = counter[x] /\ window'[x] = window[x]
            BY <3>1, <4>3 DEF TotalInv
          <5> QED BY <4>1, <4>3, <5>1
        <4> QED BY <4>2, <4>3
      <3>5. ASSUME NEW x \in Device, NEW m \in Link
            PROVE  /\ counter'[x][m] - window'[x].moved[m] = counter[x][m] - window[x].moved[m]
                   /\ counter[x][m] <= window[x].moved[m] => counter'[x][m] <= window'[x].moved[m]
        <4>1. counter[x][m] \in Nat /\ window[x].moved[m] \in Nat
          BY DEF TotalInv
        <4> QED BY <3>4, <4>1
      <3>6. \A x \in Device : Before(x)' = Before(x)
        BY <3>5 DEF Before
      <3>7. ASSUME NEW x \in Device PROVE TotalOf(x)'
        <4>1. TotalOf(x)
          BY DEF TotalInv
        <4> QED BY <1>1, <3>3, <3>5, <3>6, <4>1 DEF TotalOf, client, collector
      <3> QED BY <3>2, <3>7 DEF TotalInv
    <2>3. ASSUME NEW d \in Device, ResetCounters(d) PROVE TotalInv'
      <3>1. /\ counter' = [counter EXCEPT ![d] = [m \in Link |-> 0]]
            /\ window' = [window EXCEPT ![d] = [window[d] EXCEPT !.reset = TRUE]]
        BY <2>3 DEF ResetCounters
      <3>2. /\ counter' \in [Device -> [Link -> Nat]]
            /\ window' \in [Device -> [from : Nat, whole : BOOLEAN, moved : [Link -> Nat], reset : BOOLEAN]]
        BY <3>1 DEF TotalInv
      <3>3. ASSUME NEW x \in Device, x # d
            PROVE  window'[x] = window[x] /\ counter'[x] = counter[x] /\ Before(x)' = Before(x)
        BY <3>1, <3>3 DEF Before, TotalInv
      <3>4. /\ window'[d].from = window[d].from /\ window'[d].reset
            /\ \A m \in Link : counter'[d][m] <= window'[d].moved[m]
        BY <3>1 DEF TotalInv
      <3>5. ASSUME NEW x \in Device PROVE TotalOf(x)'
        <4>1. TotalOf(x)
          BY DEF TotalInv
        <4>2. CASE x = d
          BY <1>1, <3>4, <4>1, <4>2 DEF TotalOf, client, collector
        <4>3. CASE x # d
          BY <1>1, <3>3, <4>1, <4>3 DEF TotalOf, client, collector
        <4> QED BY <4>2, <4>3
      <3> QED BY <3>2, <3>5 DEF TotalInv
    <2> QED BY <2>1, <2>2, <2>3 DEF StartProcess, EndProcess
  <1>6. SentInv' BY <1>1 DEF SentInv, collector
  <1> QED BY <1>2, <1>3, <1>4, <1>5, <1>6

\* Every step keeps the invariant.
LEMMA NextInv == ASSUME IInv, [Next]_vars PROVE IInv'
  <1>1. CASE UNCHANGED vars
    <2>1. UNCHANGED <<client, pc, at, collector, scanner, traffic>>
      BY <1>1 DEF vars
    <2>2. PlaceInv' /\ OnceInv' /\ RoundInv' /\ CallInv' /\ SentInv'
      BY <2>1 DEF client, collector, scanner, IInv, PlaceInv, OnceInv, RoundInv, CallInv, SentInv
    <2>3. TotalInv'
      BY <2>1, TotalStays DEF client, collector
    <2> QED BY <2>2, <2>3 DEF IInv
  <1>2. CASE Next
    BY <1>2, DeviceKeeps, TickKeeps, CollectKeeps, ScanKeeps, GpuKeeps DEF Next
  <1> QED BY <1>1, <1>2

LEMMA Invariant == Spec => []IInv
  <1>1. Init => IInv BY InitInv
  <1>2. IInv /\ [Next]_vars => IInv' BY NextInv
  <1> QED BY <1>1, <1>2, PTL DEF Spec
-----------------------------------------------------------------------------
\* TypeCorrect: the type invariant always holds; above all the fields of a
\* device were only read once init had asked for all of its links, whichever of
\* the two callers ran it.
THEOREM TypeCorrect == Spec => []TypeOK
  <1>1. IInv => TypeOK
    <2> SUFFICES ASSUME IInv PROVE TypeOK OBVIOUS
    <2>1. \A seen \in {gpus, snapshot} : \A n \in DOMAIN seen : seen[n].device \in Device
      BY DEF IInv, SentInv, Reported
    <2> QED BY <2>1 DEF IInv, PlaceInv, OnceInv, RoundInv, TypeOK, Places, Stages
  <1> QED BY <1>1, Invariant, PTL

\* TellsTheTruth: what collector and scanner are told is what went on.  Every
\* rate whose polls read all fields is the traffic of the links over the time
\* between them, at most that if the counters were reset (pollBandwidth); whatever
\* starts and ends while GetComputeProcesses runs, its list has every process
\* that was there all the time, or the call failed.
THEOREM TellsTheTruth == Spec => []ReportsTrue
  <1>1. IInv => NothingMissed BY DEF IInv, CallInv, NothingMissed
  <1>2. IInv => TrafficCounted
    <2> SUFFICES ASSUME IInv, NEW n \in DOMAIN snapshot PROVE TrueRate(snapshot[n].bandwidth)
      BY DEF TrafficCounted, TrueRate
    <2>1. snapshot[n] \in Reported
      BY DEF IInv, SentInv
    <2> QED BY <2>1 DEF Reported
  <1> QED BY <1>1, <1>2, Invariant, PTL DEF ReportsTrue
-----------------------------------------------------------------------------
(***************************************************************************)
(* The scraper: what an endpoint lists adds up to no more than its baseline *)
(* and what completed since, and to just that while its engines last.      *)
(***************************************************************************)

\* What the engines in u, whose counters are c, have counted of a kind.
ListedSum(c, u, k) == SumFunctionOnSet([e \in Engine |-> c[e][k]], u)

LEMMA CollectedIsListed ==
  ASSUME NEW p, NEW k \in Kind
  PROVE  Collected(p).sum[k] = ListedSum(count[p], up[p], k)
  BY DEF Collected, ListedSum

LEMMA ListedSumIsNumber ==
  ASSUME NEW c \in [Engine -> Counters], NEW u \in SUBSET Engine, NEW k \in Kind
  PROVE  ListedSum(c, u, k) \in Nat
  <1>1. IsFiniteSet(u)
    BY ScraperAssumption, FS_Subset DEF ScraperAssumption
  <1>2. \A e \in u : [x \in Engine |-> c[x][k]][e] \in Nat
    BY DEF Counters
  <1> QED BY <1>1, <1>2, SumOfNumbers DEF ListedSum

\* The counters c after one more request of kind j at engine e.
OneMore(c, e, j) == [c EXCEPT ![e][j] = c[e][j] + 1]

\* One more request of an engine that is listed is one more in the sum.
LEMMA ListedSumAdds ==
  ASSUME NEW c \in [Engine -> Counters], NEW u \in SUBSET Engine, NEW e \in u,
         NEW j \in Kind, NEW k \in Kind
  PROVE  ListedSum(OneMore(c, e, j), u, k) = ListedSum(c, u, k) + IF k = j THEN 1 ELSE 0
  <1> DEFINE c2 == OneMore(c, e, j)
             f == [x \in Engine |-> c[x][k]]
             g == [x \in Engine |-> c2[x][k]]
             one == IF k = j THEN 1 ELSE 0
  <1>1. IsFiniteSet(u) /\ IsFiniteSet(u \ {e})
    BY ScraperAssumption, FS_Subset DEF ScraperAssumption
  <1>2. \A x \in u : f[x] \in Nat
    BY DEF Counters
  <1>3. \A x \in u \ {e} : g[x] = f[x]
    BY DEF OneMore
  <1>4. g[e] = f[e] + one
    <2>1. c[e] \in [Kind -> Nat] /\ e \in Engine
      BY DEF Counters
    <2>2. c2[e] = [c[e] EXCEPT ![j] = c[e][j] + 1]
      BY <2>1 DEF OneMore
    <2>3. c2[e][k] = c[e][k] + one
      BY <2>1, <2>2
    <2> HIDE DEF c2, one
    <2> QED BY <2>1, <2>3
  <1>5. \A x \in u : g[x] \in Nat
    <2>1. f[e] \in Nat /\ one \in Nat /\ f[e] + one \in Nat
      BY <1>2
    <2> HIDE DEF f, g, one
    <2> QED BY <1>2, <1>3, <1>4, <2>1
  <1> HIDE DEF c2, f, g, one
  <1>6. SumFunctionOnSet(f, u) = f[e] + SumFunctionOnSet(f, u \ {e})
    BY <1>1, <1>2, SumWithout
  <1>7. SumFunctionOnSet(g, u) = g[e] + SumFunctionOnSet(g, u \ {e})
    BY <1>1, <1>5, SumWithout
  <1>8. SumFunctionOnSet(g, u \ {e}) = SumFunctionOnSet(f, u \ {e})
    BY <1>1, <1>3, SumSame
  <1>9. SumFunctionOnSet(f, u \ {e}) \in Nat /\ f[e] \in Nat /\ one \in Nat
    <2>1. \A x \in u \ {e} : f[x] \in Nat
      BY <1>2
    <2> QED BY <1>1, <1>2, <2>1, SumOfNumbers DEF one
  <1>10. SumFunctionOnSet(g, u) = SumFunctionOnSet(f, u) + one
    BY <1>4, <1>6, <1>7, <1>8, <1>9
  <1> QED BY <1>10 DEF ListedSum, c2, f, g, one

\* An engine that joins, leaves or restarts takes its requests with it.
LEMMA ListedSumDrops ==
  ASSUME NEW c \in [Engine -> Counters], NEW u \in SUBSET Engine, NEW e \in Engine,
         NEW k \in Kind, NEW v, v = u \union {e} \/ v = u \ {e}
  PROVE  ListedSum([c EXCEPT ![e] = zero], v, k) <= ListedSum(c, u, k)
  <1> DEFINE f == [x \in Engine |-> c[x][k]]
             g == [x \in Engine |-> [c EXCEPT ![e] = zero][x][k]]
             w == u \ {e}
  <1>1. IsFiniteSet(u) /\ IsFiniteSet(v) /\ IsFiniteSet(w)
    <2>1. u \subseteq Engine /\ v \subseteq Engine /\ w \subseteq Engine
      OBVIOUS
    <2> QED BY <2>1, ScraperAssumption, FS_Subset DEF ScraperAssumption
  <1>2. \A x \in Engine : f[x] \in Nat /\ g[x] \in Nat
    BY DEF Counters, zero
  <1>3. \A x \in w : g[x] = f[x]
    OBVIOUS
  <1>4. g[e] = 0
    BY DEF zero
  <1>5. v \ {e} = w
    OBVIOUS
  <1>6. e \notin v => v = w
    OBVIOUS
  <1>7. e \notin u => u = w
    OBVIOUS
  <1>8. v \subseteq Engine /\ u \subseteq Engine /\ w \subseteq Engine
    OBVIOUS
  <1> HIDE DEF f, g, w
  <1>9. SumFunctionOnSet(g, w) = SumFunctionOnSet(f, w) /\ SumFunctionOnSet(f, w) \in Nat
    <2>1. \A x \in w : f[x] \in Nat
      BY <1>2, <1>8
    <2> QED BY <1>1, <1>3, <2>1, SumSame, SumOfNumbers
  <1>10. SumFunctionOnSet(g, v) = SumFunctionOnSet(g, w)
    <2>1. CASE e \in v
      <3>1. \A x \in v : g[x] \in Nat
        BY <1>2, <1>8
      <3>2. SumFunctionOnSet(g, v) = g[e] + SumFunctionOnSet(g, v \ {e})
        BY <1>1, <2>1, <3>1, SumWithout
      <3> QED BY <1>4, <1>5, <1>9, <3>2
    <2> QED BY <1>6, <2>1
  <1>11. SumFunctionOnSet(f, w) <= SumFunctionOnSet(f, u)
    <2>1. CASE e \in u
      <3>1. \A x \in u : f[x] \in Nat
        BY <1>2, <1>8
      <3>2. SumFunctionOnSet(f, u) = f[e] + SumFunctionOnSet(f, w)
        BY <1>1, <2>1, <3>1, SumWithout DEF w
      <3> QED BY <1>2, <1>9, <3>2
    <2>2. CASE e \notin u
      BY <1>7, <1>9, <2>2
    <2> QED BY <2>1, <2>2
  <1> QED BY <1>9, <1>10, <1>11 DEF ListedSum, f, g

\* Baselines and the requests since, for every endpoint that has one.
BaseInv ==
  \A p \in DOMAIN prev :
    /\ \A k \in Kind : Collected(p).sum[k] <= prev[p].sum[k] + done[p][k]
    /\ p \notin disturbed =>
         /\ prev[p].engines = up[p]
         /\ \A k \in Kind : Collected(p).sum[k] = prev[p].sum[k] + done[p][k]

\* What was emitted was emitted since the endpoint was last dropped.
EmitInv == \A p \in DOMAIN lastEmit : lastEmit[p].era = era[p]

\* What was answered of an endpoint is true: Counted, endpoint by endpoint.
Told(p) ==
  /\ News(p) =>
       /\ answer[p].w.count <= Total(answer[p].w.really)
       /\ \A k \in Kind : answer[p].w.hist[k] <= answer[p].w.really[k]
       /\ ~answer[p].w.spans => answer[p].w.hist = answer[p].w.really
  /\ answer[p].kind = "reset" => answer[p].really
  /\ Shown(p) => clock - answer[p].w.at < TTL /\ answer[p].w.era = era[p]

ToldInv == DOMAIN answer = Endpoint /\ \A p \in Endpoint : Told(p)

ScraperInv == ScraperTypeOK /\ BaseInv /\ EmitInv /\ ToldInv

LEMMA CollectedTyped ==
  ASSUME ScraperInv, NEW p \in Endpoint
  PROVE  /\ Collected(p).sum \in Counters /\ Collected(p).engines = up[p]
         /\ up[p] \in SUBSET Engine /\ count[p] \in [Engine -> Counters]
  <1>1. up[p] \in SUBSET Engine /\ count[p] \in [Engine -> Counters]
    BY DEF ScraperInv, ScraperTypeOK
  <1>2. \A k \in Kind : ListedSum(count[p], up[p], k) \in Nat
    BY <1>1, ListedSumIsNumber
  <1>3. Collected(p).sum = [k \in Kind |-> ListedSum(count[p], up[p], k)]
    BY DEF Collected, ListedSum
  <1>4. Collected(p).sum \in Counters
    BY <1>2, <1>3 DEF Counters
  <1> QED BY <1>1, <1>4 DEF Collected

LEMMA ScraperInitInv == ASSUME ScraperInit PROVE ScraperInv
  <1>1. zero \in Counters
    BY DEF zero, Counters
  <1>2. ScraperTypeOK
    BY <1>1 DEF ScraperInit, ScraperTypeOK
  <1>3. BaseInv /\ EmitInv
    BY DEF ScraperInit, BaseInv, EmitInv
  <1>4. ToldInv
    BY DEF ScraperInit, ToldInv, Told, News, Shown, nothing
  <1> QED BY <1>2, <1>3, <1>4 DEF ScraperInv

\* A request completes: it is counted by an engine that is listed, and done.
LEMMA CompleteKeeps ==
  ASSUME ScraperInv, NEW p \in Endpoint, NEW e \in Engine, NEW j \in Kind, Complete(p, e, j)
  PROVE  ScraperInv'
  <1> DEFINE one(k) == IF k = j THEN 1 ELSE 0
  <1>1. /\ e \in up[p] /\ count[p] \in [Engine -> Counters] /\ up[p] \in SUBSET Engine
        /\ done[p] \in Counters /\ DOMAIN count = Endpoint /\ DOMAIN done = Endpoint
    BY DEF Complete, ScraperInv, ScraperTypeOK
  <1>2. /\ UNCHANGED <<up, churn, clock, live, pending, prev, lastEmit, answer, disturbed, era>>
        /\ count' = [count EXCEPT ![p] = [count[p] EXCEPT ![e][j] = count[p][e][j] + 1]]
        /\ done' = [done EXCEPT ![p] = [done[p] EXCEPT ![j] = done[p][j] + 1]]
    BY DEF Complete
  <1>3. count'[p] \in [Engine -> Counters] /\ done'[p] \in Counters
    BY <1>1, <1>2 DEF Counters
  <1>4. ASSUME NEW q \in Endpoint, q # p PROVE count'[q] = count[q] /\ done'[q] = done[q]
    BY <1>1, <1>2, <1>4
  <1>5. ScraperTypeOK'
    <2>1. count' \in [Endpoint -> [Engine -> Counters]]
      BY <1>2, <1>3, <1>4 DEF ScraperInv, ScraperTypeOK
    <2>2. done' \in [Endpoint -> Counters]
      BY <1>2, <1>3, <1>4 DEF ScraperInv, ScraperTypeOK
    <2> QED BY <1>2, <2>1, <2>2 DEF ScraperInv, ScraperTypeOK
  <1>6. ASSUME NEW k \in Kind
        PROVE  /\ Collected(p)'.sum[k] = Collected(p).sum[k] + one(k)
               /\ done'[p][k] = done[p][k] + one(k)
               /\ one(k) \in Nat
    <2>0. count'[p] = OneMore(count[p], e, j)
      BY <1>1, <1>2 DEF OneMore
    <2>1. ListedSum(count'[p], up[p], k) = ListedSum(count[p], up[p], k) + one(k)
      BY <1>1, <2>0, ListedSumAdds
    <2>2. Collected(p)'.sum[k] = ListedSum(count'[p], up'[p], k)
      BY DEF Collected, ListedSum
    <2>3. done'[p][k] = done[p][k] + one(k)
      BY <1>1, <1>2 DEF Counters
    <2> QED BY <1>2, <2>1, <2>2, <2>3, CollectedIsListed
  <1>7. ASSUME NEW q \in Endpoint, q # p PROVE Collected(q)'.sum = Collected(q).sum
    BY <1>2, <1>4, <1>7 DEF Collected
  <1>8. BaseInv'
    <2> SUFFICES ASSUME NEW q \in DOMAIN prev
                 PROVE  /\ \A k \in Kind : Collected(q)'.sum[k] <= prev[q].sum[k] + done'[q][k]
                        /\ q \notin disturbed =>
                             /\ prev[q].engines = up[q]
                             /\ \A k \in Kind : Collected(q)'.sum[k] = prev[q].sum[k] + done'[q][k]
      BY <1>2 DEF BaseInv
    <2>1. q \in Endpoint
      BY DEF ScraperInv, ScraperTypeOK
    <2>2. /\ \A k \in Kind : Collected(q).sum[k] <= prev[q].sum[k] + done[q][k]
          /\ q \notin disturbed =>
               /\ prev[q].engines = up[q]
               /\ \A k \in Kind : Collected(q).sum[k] = prev[q].sum[k] + done[q][k]
      BY DEF ScraperInv, BaseInv
    <2>3. CASE q # p
      BY <1>4, <1>7, <2>1, <2>2, <2>3
    <2>4. CASE q = p
      <3>1. ASSUME NEW k \in Kind
            PROVE  Collected(p).sum[k] \in Nat /\ prev[p].sum[k] \in Nat /\ done[p][k] \in Nat
        BY <1>1, <2>4, CollectedTyped DEF ScraperInv, ScraperTypeOK, Counters
      <3> HIDE DEF one
      <3> QED BY <1>6, <2>2, <2>4, <3>1
    <2> QED BY <2>3, <2>4
  <1>9. EmitInv' BY <1>2 DEF ScraperInv, EmitInv
  <1>10. ToldInv' BY <1>2 DEF ScraperInv, ToldInv, Told, News, Shown
  <1> QED BY <1>5, <1>8, <1>9, <1>10 DEF ScraperInv

\* The engines of an endpoint change: it lists no more than before, and is
\* disturbed unless nothing of it changed.
LEMMA ChangeKeeps ==
  ASSUME ScraperInv, NEW p \in Endpoint, NEW e \in Engine, EngineChanges(p, e)
  PROVE  ScraperInv'
  <1>1. /\ count[p] \in [Engine -> Counters] /\ up[p] \in SUBSET Engine
        /\ DOMAIN count = Endpoint /\ DOMAIN up = Endpoint /\ churn \in Nat
    BY DEF ScraperInv, ScraperTypeOK
  <1>2. /\ UNCHANGED <<clock, live, pending, prev, lastEmit, answer, done, era>>
        /\ churn' = churn + 1
        /\ count' = [count EXCEPT ![p] = [count[p] EXCEPT ![e] = zero]]
        /\ disturbed' = IF up' = up /\ count' = count THEN disturbed ELSE disturbed \union {p}
    BY DEF EngineChanges
  <1>3. PICK v : (v = up[p] \union {e} \/ v = up[p] \ {e}) /\ up' = [up EXCEPT ![p] = v]
    BY DEF EngineChanges
  <1>4. zero \in Counters
    BY DEF zero, Counters
  <1>5. ScraperTypeOK'
    <2>1. count' \in [Endpoint -> [Engine -> Counters]]
      <3>1. [count[p] EXCEPT ![e] = zero] \in [Engine -> Counters]
        BY <1>1, <1>4
      <3> QED BY <1>2, <3>1 DEF ScraperInv, ScraperTypeOK
    <2>2. up' \in [Endpoint -> SUBSET Engine]
      BY <1>1, <1>3 DEF ScraperInv, ScraperTypeOK
    <2>3. disturbed' \subseteq Endpoint
      BY <1>2 DEF ScraperInv, ScraperTypeOK
    <2> QED BY <1>1, <1>2, <2>1, <2>2, <2>3 DEF ScraperInv, ScraperTypeOK
  <1>6. \A k \in Kind : Collected(p)'.sum[k] <= Collected(p).sum[k]
    <2> TAKE k \in Kind
    <2>1. ListedSum(count'[p], up'[p], k) <= ListedSum(count[p], up[p], k)
      BY <1>1, <1>2, <1>3, ListedSumDrops
    <2>2. Collected(p)'.sum[k] = ListedSum(count'[p], up'[p], k)
      BY DEF Collected, ListedSum
    <2> QED BY <2>1, <2>2, CollectedIsListed
  <1>7. ASSUME NEW q \in Endpoint, q # p
        PROVE  Collected(q)'.sum = Collected(q).sum /\ up'[q] = up[q]
    BY <1>1, <1>2, <1>3, <1>7 DEF Collected
  <1>8. BaseInv'
    <2> SUFFICES ASSUME NEW q \in DOMAIN prev
                 PROVE  /\ \A k \in Kind : Collected(q)'.sum[k] <= prev[q].sum[k] + done[q][k]
                        /\ q \notin disturbed' =>
                             /\ prev[q].engines = up'[q]
                             /\ \A k \in Kind : Collected(q)'.sum[k] = prev[q].sum[k] + done[q][k]
      BY <1>2 DEF BaseInv
    <2>1. q \in Endpoint
      BY DEF ScraperInv, ScraperTypeOK
    <2>2. /\ \A k \in Kind : Collected(q).sum[k] <= prev[q].sum[k] + done[q][k]
          /\ q \notin disturbed =>
               /\ prev[q].engines = up[q]
               /\ \A k \in Kind : Collected(q).sum[k] = prev[q].sum[k] + done[q][k]
      BY DEF ScraperInv, BaseInv
    <2>3. CASE q # p
      BY <1>2, <1>7, <2>1, <2>2, <2>3
    <2>4. CASE q = p
      <3>1. ASSUME NEW k \in Kind
            PROVE  Collected(p)'.sum[k] <= prev[p].sum[k] + done[p][k]
        <4>1. /\ Collected(p).sum[k] \in Nat /\ prev[p].sum[k] \in Nat /\ done[p][k] \in Nat
              /\ Collected(p).sum[k] <= prev[p].sum[k] + done[p][k]
          BY <2>2, <2>4, CollectedTyped DEF ScraperInv, ScraperTypeOK, Counters
        <4>2. Collected(p)'.sum[k] \in Nat
          <5>1. count'[p] \in [Engine -> Counters] /\ up'[p] \in SUBSET Engine
            BY <1>5 DEF ScraperTypeOK
          <5>2. Collected(p)'.sum[k] = ListedSum(count'[p], up'[p], k)
            BY DEF Collected, ListedSum
          <5> QED BY <5>1, <5>2, ListedSumIsNumber
        <4> QED BY <1>6, <4>1, <4>2
      <3>2. CASE up' = up /\ count' = count
        <4>1. Collected(p)'.sum = Collected(p).sum
          BY <3>2 DEF Collected
        <4> QED BY <1>2, <2>2, <2>4, <3>2, <4>1
      <3>3. CASE ~(up' = up /\ count' = count)
        BY <1>2, <2>4, <3>1, <3>3
      <3> QED BY <3>2, <3>3
    <2> QED BY <2>3, <2>4
  <1>9. EmitInv' BY <1>2 DEF ScraperInv, EmitInv
  <1>10. ToldInv' BY <1>2 DEF ScraperInv, ToldInv, Told, News, Shown
  <1> QED BY <1>5, <1>8, <1>9, <1>10 DEF ScraperInv

\* A tick: whoever is dropped loses baseline and last window together, so that
\* what is kept is of this era.
LEMMA BeginTickKeeps ==
  ASSUME ScraperInv, BeginTick
  PROVE  ScraperInv'
  <1>1. PICK attributed \in SUBSET Endpoint :
          /\ live' = attributed /\ pending' = attributed /\ Prune(attributed)
          /\ era' = [p \in Endpoint |-> IF p \in live \ attributed THEN era[p] + 1 ELSE era[p]]
    BY DEF BeginTick
  <1>2. /\ UNCHANGED <<up, count, churn, done, disturbed>> /\ clock' = clock + 1
        /\ answer' = [p \in Endpoint |-> nothing]
    BY DEF BeginTick, environment
  <1>3. /\ DOMAIN prev' = DOMAIN prev \cap attributed
        /\ \A p \in DOMAIN prev' : p \in DOMAIN prev /\ prev'[p] = prev[p]
    BY <1>1 DEF Prune, Restrict
  <1>4. /\ DOMAIN lastEmit' = DOMAIN lastEmit \ (DOMAIN prev \ attributed)
        /\ \A p \in DOMAIN lastEmit' : p \in DOMAIN lastEmit /\ lastEmit'[p] = lastEmit[p]
    BY <1>1 DEF Prune, Restrict
  <1>5. DOMAIN lastEmit \subseteq DOMAIN prev /\ DOMAIN prev \subseteq live /\ live \subseteq Endpoint
    BY DEF ScraperInv, ScraperTypeOK
  <1>6. ScraperTypeOK'
    <2>1. era' \in [Endpoint -> Nat]
      BY <1>1 DEF ScraperInv, ScraperTypeOK
    <2>2. \A p \in DOMAIN prev' : prev'[p].engines # {} /\ prev'[p].sum \in Counters
      BY <1>3 DEF ScraperInv, ScraperTypeOK
    <2>3. DOMAIN lastEmit' \subseteq DOMAIN prev' /\ DOMAIN prev' \subseteq live'
      BY <1>1, <1>3, <1>4, <1>5
    <2>4. clock' \in Nat
      BY <1>2 DEF ScraperInv, ScraperTypeOK
    <2> QED BY <1>1, <1>2, <2>1, <2>2, <2>3, <2>4 DEF ScraperInv, ScraperTypeOK
  <1>7. BaseInv'
    <2>1. \A p : Collected(p)'.sum = Collected(p).sum
      BY <1>2 DEF Collected
    <2> QED BY <1>2, <1>3, <2>1 DEF ScraperInv, BaseInv
  <1>8. EmitInv'
    <2>1. ASSUME NEW p \in DOMAIN lastEmit' PROVE p \in attributed /\ p \in Endpoint
      BY <1>4, <1>5, <2>1
    <2>2. ASSUME NEW p \in DOMAIN lastEmit' PROVE era'[p] = era[p]
      BY <1>1, <2>1, <2>2
    <2> QED BY <1>4, <2>2 DEF ScraperInv, EmitInv
  <1>9. ToldInv'
    BY <1>2 DEF ToldInv, Told, News, Shown, nothing
  <1> QED BY <1>6, <1>7, <1>8, <1>9 DEF ScraperInv

\* A tick that scrapes nothing: only time passes, and nothing is said.
LEMMA IdleTickKeeps ==
  ASSUME ScraperInv, IdleTick
  PROVE  ScraperInv'
  <1>1. /\ UNCHANGED <<up, count, churn, live, pending, prev, lastEmit, done, disturbed, era>>
        /\ clock' = clock + 1
        /\ answer' = [p \in Endpoint |-> nothing]
    BY DEF IdleTick, environment
  <1>2. ScraperTypeOK'
    <2>1. clock' \in Nat
      BY <1>1 DEF ScraperInv, ScraperTypeOK
    <2> QED BY <1>1, <2>1 DEF ScraperInv, ScraperTypeOK
  <1>3. BaseInv'
    <2>1. \A p : Collected(p)'.sum = Collected(p).sum
      BY <1>1 DEF Collected
    <2> QED BY <1>1, <2>1 DEF ScraperInv, BaseInv
  <1>4. EmitInv' BY <1>1 DEF ScraperInv, EmitInv
  <1>5. ToldInv'
    BY <1>1 DEF ToldInv, Told, News, Shown, nothing
  <1> QED BY <1>2, <1>3, <1>4, <1>5 DEF ScraperInv

\* What is said again is the last window, while it is fresh.
LEMMA AgainTells ==
  ASSUME ScraperInv, NEW p \in Endpoint, Again(p), UNCHANGED <<clock, era>>
  PROVE  ToldInv'
  <1>1. /\ DOMAIN answer' = Endpoint
        /\ answer'[p] = IF Fresh(p) THEN [kind |-> "again", w |-> lastEmit[p]] ELSE nothing
        /\ \A q \in Endpoint : q # p => answer'[q] = answer[q]
    BY DEF Again, ScraperInv, ToldInv
  <1>2. Told(p)'
    <2>1. CASE Fresh(p)
      <3>1. clock - lastEmit[p].at < TTL /\ lastEmit[p].era = era[p]
        BY <2>1 DEF Fresh, ScraperInv, EmitInv
      <3>2. answer'[p].kind = "again" /\ answer'[p].w = lastEmit[p]
        BY <1>1, <2>1
      <3> QED BY <3>1, <3>2 DEF Told, News, Shown
    <2>2. CASE ~Fresh(p)
      BY <1>1, <2>2 DEF Told, News, Shown, nothing
    <2> QED BY <2>1, <2>2
  <1>3. ASSUME NEW q \in Endpoint, q # p PROVE Told(q)'
    <2>1. Told(q)
      BY DEF ScraperInv, ToldInv
    <2> QED BY <1>1, <1>3, <2>1 DEF Told, News, Shown
  <1> QED BY <1>1, <1>2, <1>3 DEF ToldInv

\* A scrape that keeps the baseline.
LEMMA KeepBaselineKeeps ==
  ASSUME ScraperInv, NEW p \in Endpoint, ScrapeFails(p) \/ ScrapeQuiet(p)
  PROVE  ScraperInv'
  <1>1. /\ UNCHANGED <<up, count, churn, clock, live, prev, lastEmit, done, disturbed, era>>
        /\ pending' = pending \ {p} /\ Again(p)
    BY DEF ScrapeFails, ScrapeQuiet, environment
  <1>2. ScraperTypeOK'
    BY <1>1 DEF ScraperInv, ScraperTypeOK
  <1>3. BaseInv'
    <2>1. \A q : Collected(q)'.sum = Collected(q).sum
      BY <1>1 DEF Collected
    <2> QED BY <1>1, <2>1 DEF ScraperInv, BaseInv
  <1>4. EmitInv'
    BY <1>1 DEF ScraperInv, EmitInv
  <1>5. ToldInv'
    BY <1>1, AgainTells
  <1> QED BY <1>2, <1>3, <1>4, <1>5 DEF ScraperInv

\* A scrape that moves the baseline: nothing is done since.
LEMMA RebaseKeeps ==
  ASSUME ScraperInv, NEW p \in pending, up[p] # {}, Rebase(p), pending' = pending \ {p},
         UNCHANGED <<up, count, churn, clock, live, era>>
  PROVE  /\ BaseInv'
         /\ DOMAIN lastEmit' \subseteq DOMAIN lastEmit \union {p} => ScraperTypeOK'
  <1>0. /\ p \in Endpoint /\ p \in live /\ DOMAIN done = Endpoint /\ zero \in Counters
        /\ DOMAIN prev \subseteq Endpoint
    BY DEF ScraperInv, ScraperTypeOK, zero, Counters
  <1>1. /\ DOMAIN prev' = DOMAIN prev \union {p} /\ prev'[p] = Collected(p)
        /\ \A q \in DOMAIN prev' : q # p => q \in DOMAIN prev /\ prev'[q] = prev[q]
    BY DEF Rebase
  <1>2. /\ done' = [done EXCEPT ![p] = zero] /\ disturbed' = disturbed \ {p}
    BY DEF Rebase
  <1>3. Collected(p).sum \in Counters /\ Collected(p).engines = up[p]
    BY <1>0, CollectedTyped
  <1>4. BaseInv'
    <2>1. \A q : Collected(q)'.sum = Collected(q).sum
      BY DEF Collected
    <2> SUFFICES ASSUME NEW q \in DOMAIN prev'
                 PROVE  /\ \A k \in Kind : Collected(q).sum[k] <= prev'[q].sum[k] + done'[q][k]
                        /\ q \notin disturbed' =>
                             /\ prev'[q].engines = up[q]
                             /\ \A k \in Kind : Collected(q).sum[k] = prev'[q].sum[k] + done'[q][k]
      BY <2>1 DEF BaseInv
    <2>2. CASE q = p
      <3>1. \A k \in Kind : done'[p][k] = 0
        BY <1>0, <1>2 DEF zero
      <3>2. \A k \in Kind : Collected(p).sum[k] \in Nat
        BY <1>3 DEF Counters
      <3> QED BY <1>1, <1>3, <2>2, <3>1, <3>2
    <2>3. CASE q # p
      <3>1. q \in DOMAIN prev /\ prev'[q] = prev[q] /\ q \in Endpoint
        BY <1>0, <1>1, <2>3
      <3>2. done'[q] = done[q] /\ (q \in disturbed' <=> q \in disturbed)
        BY <1>0, <1>2, <2>3, <3>1
      <3> QED BY <3>1, <3>2 DEF ScraperInv, BaseInv
    <2> QED BY <2>2, <2>3
  <1>5. ASSUME DOMAIN lastEmit' \subseteq DOMAIN lastEmit \union {p} PROVE ScraperTypeOK'
    <2>1. done' \in [Endpoint -> Counters]
      BY <1>0, <1>2 DEF ScraperInv, ScraperTypeOK
    <2>2. \A q \in DOMAIN prev' : prev'[q].engines # {} /\ prev'[q].sum \in Counters
      BY <1>1, <1>3 DEF ScraperInv, ScraperTypeOK
    <2>3. DOMAIN lastEmit' \subseteq DOMAIN prev' /\ DOMAIN prev' \subseteq live
      BY <1>0, <1>1, <1>5 DEF ScraperInv, ScraperTypeOK
    <2> QED BY <1>2, <2>1, <2>2, <2>3 DEF ScraperInv, ScraperTypeOK
  <1> QED BY <1>4, <1>5

\* Answering of one endpoint leaves what was said of the others.
LEMMA AnswerTells ==
  ASSUME ScraperInv, NEW p \in Endpoint, NEW a, answer' = [answer EXCEPT ![p] = a],
         UNCHANGED <<clock, era>>, answer'[p] = a => Told(p)'
  PROVE  ToldInv'
  <1>1. /\ DOMAIN answer' = Endpoint /\ answer'[p] = a
        /\ \A q \in Endpoint : q # p => answer'[q] = answer[q]
    BY DEF ScraperInv, ToldInv
  <1>2. ASSUME NEW q \in Endpoint, q # p PROVE Told(q)'
    <2>1. Told(q)
      BY DEF ScraperInv, ToldInv
    <2> QED BY <1>1, <1>2, <2>1 DEF Told, News, Shown
  <1> QED BY <1>1, <1>2 DEF ToldInv

\* What a window has counted is at most what completed since the baseline, and
\* all of it if the sums are the baseline and what completed.
LEMMA DiffCounts ==
  ASSUME NEW old, NEW new, old.sum \in Counters, new.sum \in Counters,
         NEW since \in Counters, Monotonic(old, new),
         \A k \in Kind : new.sum[k] <= old.sum[k] + since[k]
  PROVE  /\ Total(new.sum) - Total(old.sum) <= Total(since)
         /\ \A k \in Kind : Diff(old, new)[k] <= since[k]
         /\ (\A k \in Kind : new.sum[k] = old.sum[k] + since[k]) => Diff(old, new) = since
  <1> DEFINE s == new.sum["short"] - old.sum["short"]
             l == new.sum["long"] - old.sum["long"]
  <1>1. /\ old.sum["short"] \in Nat /\ old.sum["long"] \in Nat
        /\ new.sum["short"] \in Nat /\ new.sum["long"] \in Nat
        /\ since["short"] \in Nat /\ since["long"] \in Nat
    BY DEF Counters, Kind
  <1>2. /\ new.sum["short"] <= old.sum["short"] + since["short"]
        /\ new.sum["long"] <= old.sum["long"] + since["long"]
    BY DEF Kind
  <1>3. Total(new.sum) - Total(old.sum) - s = l
    BY <1>1 DEF Total
  <1>4. Diff(old, new) = [k \in Kind |-> IF k = "short" THEN s ELSE IF l > 0 THEN l ELSE 0]
    BY <1>3 DEF Diff
  <1>5. Total(new.sum) - Total(old.sum) <= Total(since)
    BY <1>1, <1>2 DEF Total
  <1>6. \A k \in Kind : Diff(old, new)[k] <= since[k]
    BY <1>1, <1>2, <1>4 DEF Kind
  <1>7. ASSUME \A k \in Kind : new.sum[k] = old.sum[k] + since[k]
        PROVE  Diff(old, new) = since
    <2>1. s = since["short"] /\ l = since["long"]
      BY <1>1, <1>7 DEF Kind
    <2>2. since = [k \in Kind |-> since[k]]
      BY DEF Counters
    <2>3. \A k \in Kind : (IF k = "short" THEN s ELSE IF l > 0 THEN l ELSE 0) = since[k]
      <3> HIDE DEF s, l
      <3> QED BY <1>1, <2>1 DEF Kind
    <2> HIDE DEF s, l
    <2> QED BY <1>4, <2>2, <2>3
  <1> QED BY <1>5, <1>6, <1>7

\* Sums that are the baseline and what completed since are monotonic.
LEMMA GrownIsMonotonic ==
  ASSUME NEW old, NEW new, old.sum \in Counters, new.sum \in Counters,
         NEW since \in Counters, new.engines = old.engines,
         \A k \in Kind : new.sum[k] = old.sum[k] + since[k]
  PROVE  Monotonic(old, new)
  <1>1. /\ old.sum["short"] \in Nat /\ old.sum["long"] \in Nat
        /\ since["short"] \in Nat /\ since["long"] \in Nat
        /\ new.sum["short"] = old.sum["short"] + since["short"]
        /\ new.sum["long"] = old.sum["long"] + since["long"]
    BY DEF Counters, Kind
  <1>2. LongLength \in Nat
    BY ScraperAssumption DEF ScraperAssumption
  <1>3. \A a \in Nat, b \in Nat : LongLength * (a + b) >= LongLength * a /\ LongLength * a \in Nat
    BY <1>2
  <1>4. LongLength * new.sum["long"] >= LongLength * old.sum["long"]
    BY <1>1, <1>3
  <1>5. LongLength * new.sum["long"] \in Nat /\ LongLength * old.sum["long"] \in Nat
    BY <1>1, <1>3
  <1>6. Tokens(new.sum) >= Tokens(old.sum)
    BY <1>1, <1>4, <1>5 DEF Tokens
  <1> QED BY <1>1, <1>6 DEF Monotonic, Total

\* A first scrape, or one after engines restarted.
LEMMA ScrapeRebasesKeeps ==
  ASSUME ScraperInv, NEW p \in Endpoint, ScrapeRebases(p)
  PROVE  ScraperInv'
  <1>1. /\ p \in pending /\ up[p] # {} /\ Rebase(p) /\ pending' = pending \ {p}
        /\ UNCHANGED <<up, count, churn, clock, live, lastEmit, era>>
        /\ p \in DOMAIN prev => ~Monotonic(prev[p], Collected(p))
    BY DEF ScrapeRebases, environment
  <1>2. BaseInv' /\ ScraperTypeOK'
    BY <1>1, RebaseKeeps
  <1>3. EmitInv'
    BY <1>1 DEF ScraperInv, EmitInv
  <1> DEFINE a == [kind |-> IF p \in DOMAIN prev THEN "reset" ELSE "first", really |-> p \in disturbed]
  <1>4. answer' = [answer EXCEPT ![p] = a]
    BY DEF ScrapeRebases
  <1>5. p \in DOMAIN prev => p \in disturbed
    <2> SUFFICES ASSUME p \in DOMAIN prev, p \notin disturbed PROVE FALSE
      OBVIOUS
    <2>1. /\ prev[p].engines = up[p]
          /\ \A k \in Kind : Collected(p).sum[k] = prev[p].sum[k] + done[p][k]
      BY DEF ScraperInv, BaseInv
    <2>2. /\ Collected(p).sum \in Counters /\ Collected(p).engines = up[p]
          /\ prev[p].sum \in Counters /\ done[p] \in Counters
      BY CollectedTyped DEF ScraperInv, ScraperTypeOK
    <2> QED BY <1>1, <2>1, <2>2, GrownIsMonotonic
  <1>6. a.kind \in {"reset", "first"} /\ (a.kind = "reset" => a.really)
    BY <1>5
  <1> HIDE DEF a
  <1>7. answer'[p] = a => Told(p)'
    BY <1>6 DEF Told, News, Shown
  <1>8. ToldInv'
    BY <1>1, <1>4, <1>7, AnswerTells
  <1> QED BY <1>2, <1>3, <1>8 DEF ScraperInv

\* A window.
LEMMA ScrapeEmitsKeeps ==
  ASSUME ScraperInv, NEW p \in Endpoint, ScrapeEmits(p)
  PROVE  ScraperInv'
  <1> DEFINE w == [hist |-> Diff(prev[p], Collected(p)), at |-> clock, era |-> era[p],
                   count |-> Total(Collected(p).sum) - Total(prev[p].sum),
                   really |-> done[p], spans |-> p \in disturbed]
             a == [kind |-> "new", w |-> w]
  <1>1. /\ p \in pending /\ up[p] # {} /\ Rebase(p) /\ pending' = pending \ {p}
        /\ p \in DOMAIN prev /\ Monotonic(prev[p], Collected(p))
        /\ UNCHANGED <<up, count, churn, clock, live, era>>
    BY DEF ScrapeEmits, environment
  <1>2. /\ lastEmit' = [q \in DOMAIN lastEmit \union {p} |-> IF q = p THEN w ELSE lastEmit[q]]
        /\ answer' = [answer EXCEPT ![p] = a]
    BY DEF ScrapeEmits
  <1>3. /\ Collected(p).sum \in Counters /\ prev[p].sum \in Counters /\ done[p] \in Counters
    BY <1>1, CollectedTyped DEF ScraperInv, ScraperTypeOK
  <1>4. /\ \A k \in Kind : Collected(p).sum[k] <= prev[p].sum[k] + done[p][k]
        /\ p \notin disturbed => \A k \in Kind : Collected(p).sum[k] = prev[p].sum[k] + done[p][k]
    BY <1>1 DEF ScraperInv, BaseInv
  <1>5. /\ Total(Collected(p).sum) - Total(prev[p].sum) <= Total(done[p])
        /\ \A k \in Kind : Diff(prev[p], Collected(p))[k] <= done[p][k]
        /\ p \notin disturbed => Diff(prev[p], Collected(p)) = done[p]
    BY <1>1, <1>3, <1>4, DiffCounts
  <1>6. /\ w.count <= Total(w.really) /\ \A k \in Kind : w.hist[k] <= w.really[k]
        /\ ~w.spans => w.hist = w.really
        /\ w.at = clock /\ w.era = era[p]
    BY <1>5
  <1> HIDE DEF w
  <1>7. clock - w.at < TTL
    <2>1. clock \in Nat /\ TTL \in Nat /\ TTL # 0
      BY ScraperAssumption DEF ScraperAssumption, ScraperInv, ScraperTypeOK
    <2> QED BY <1>6, <2>1
  <1>8. BaseInv' /\ ScraperTypeOK'
    <2>1. DOMAIN lastEmit' \subseteq DOMAIN lastEmit \union {p}
      BY <1>2
    <2> QED BY <1>1, <2>1, RebaseKeeps
  <1>9. EmitInv'
    BY <1>1, <1>2, <1>6 DEF ScraperInv, EmitInv
  <1>10. answer'[p] = a => Told(p)'
    <2>1. a.kind = "new" /\ a.w = w
      OBVIOUS
    <2> HIDE DEF a
    <2> QED BY <1>1, <1>6, <1>7, <2>1 DEF Told, News, Shown
  <1> HIDE DEF a
  <1>11. ToldInv'
    BY <1>1, <1>2, <1>10, AnswerTells
  <1> QED BY <1>8, <1>9, <1>11 DEF ScraperInv

LEMMA ScraperNextInv == ASSUME ScraperInv, [ScraperNext]_scraperVars PROVE ScraperInv'
  <1>1. CASE UNCHANGED scraperVars
    <2>1. \A q : Collected(q)'.sum = Collected(q).sum
      BY <1>1 DEF scraperVars, environment, Collected
    <2>2. BaseInv'
      BY <1>1, <2>1 DEF scraperVars, environment, ScraperInv, BaseInv
    <2>3. ScraperTypeOK' /\ EmitInv' /\ ToldInv'
      BY <1>1 DEF scraperVars, environment, ScraperInv, ScraperTypeOK, EmitInv, ToldInv, Told, News, Shown
    <2> QED BY <2>2, <2>3 DEF ScraperInv
  <1>2. CASE \E p \in Endpoint, e \in Engine, k \in Kind : Complete(p, e, k)
    BY <1>2, CompleteKeeps
  <1>3. CASE \E p \in Endpoint, e \in Engine : EngineChanges(p, e)
    BY <1>3, ChangeKeeps
  <1>4. CASE BeginTick \/ IdleTick
    BY <1>4, BeginTickKeeps, IdleTickKeeps
  <1>5. CASE \E p \in Endpoint : Scrape(p)
    BY <1>5, KeepBaselineKeeps, ScrapeRebasesKeeps, ScrapeEmitsKeeps DEF Scrape
  <1> QED BY <1>1, <1>2, <1>3, <1>4, <1>5 DEF ScraperNext

LEMMA ScraperInvariant == ScraperSpec => []ScraperInv
  <1>1. ScraperInit => ScraperInv BY ScraperInitInv
  <1>2. ScraperInv /\ [ScraperNext]_scraperVars => ScraperInv' BY ScraperNextInv
  <1> QED BY <1>1, <1>2, PTL DEF ScraperSpec
-----------------------------------------------------------------------------
\* ScraperTypeCorrect: the type invariant of the scraper always holds; above all
\* prune leaves no last window of an endpoint that has no baseline.
THEOREM ScraperTypeCorrect == ScraperSpec => []ScraperTypeOK
  <1>1. ScraperInv => ScraperTypeOK BY DEF ScraperInv
  <1> QED BY <1>1, ScraperInvariant, PTL

\* CountsTruly: for any number of endpoints and engines that join, leave and
\* restart as they like, windows never count more than what completed, all of it
\* while the engines last; monotonic calls a reset what was one; and what is
\* resent is fresh and from after the endpoint was last dropped.
THEOREM CountsTruly == ScraperSpec => []Counted
  <1>1. ScraperInv => Counted
    BY DEF ScraperInv, ToldInv, Told, Counted, NeverOvercounted, SharedOut, NoFalseReset, NoGhost
  <1> QED BY <1>1, ScraperInvariant, PTL
=============================================================================
