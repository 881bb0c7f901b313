------------------------------ MODULE NvmlClient ------------------------------
(***************************************************************************)
(* The NVML client that the collector goroutine and the inference scanner  *)
(* share: a device is looked up and initialized by whoever needs it first, *)
(* the collector turns the counters of its NVLinks into rates and puts     *)
(* them in a snapshot, and the scanner lists its compute processes with a  *)
(* probe for the size followed by a fill.  NVML and the GPU are external.  *)
(* Transmit and receive are counted alike; tx stands for both.             *)
(***************************************************************************)
EXTENDS Integers, Sequences, FiniteSets, Functions

CONSTANTS
  Device,      \* GPUs
  DeviceIds,   \* the sequence of those the collector monitors
  Link,        \* NVLinks of a GPU
  Proc,        \* processes that may compute on a GPU
  Pad,         \* entries the fill has beyond those of the probe; 4 in the code
  MaxTicks,    \* bound on the ticks of the collector
  MaxTraffic,  \* bound on a link's counter
  MaxResets,   \* bound on the counter resets
  None

ASSUME NvmlAssumption ==
  /\ DeviceIds \in Seq(Device) /\ DeviceIds # <<>>
  /\ IsFiniteSet(Link)
  /\ Pad \in Nat /\ MaxTicks \in Nat /\ MaxTraffic \in Nat /\ MaxResets \in Nat

Caller == {"collector", "scanner"}

VARIABLES
  entry,      \* the deviceState of a device: absent, or how far its initOnce is
  links,      \* activeNVLinkIDs
  unasked,    \* links whose state init has not asked for
  pc, at,     \* where each caller stands, and the device it is at
  todo,       \* the devices the collector has left in this tick
  now,        \* ticks so far; pollTime
  prevLink,   \* prevNVLinkTxKiB and prevNVLinkTime of a device, None before
  gpus,       \* the snapshot in the making: [device, bandwidth] for each
              \*   device there was something to say of
  snapshot,   \* the last snapshot sent
  counter,    \* the transmit counter of each link
  alive,      \* the processes computing on each device
  probed,     \* the count the scanner's probe returned
  processes,  \* what GetComputeProcesses returned last
  window,     \* of each device, since the poll behind prevLink: its tick,
              \*   whether it read every field, the traffic of each link
              \*   since, and whether the counters were reset
  resets,     \* counter resets so far
  throughout  \* processes alive at every moment of the scanner's call

client == <<entry, links, unasked>>
collector == <<todo, now, prevLink, gpus, snapshot>>
scanner == <<alive, probed, processes, throughout>>
traffic == <<counter, window, resets>>
vars == <<client, pc, at, collector, scanner, traffic>>

NoData == <<>>

Opened(tick, whole) ==
  [from |-> tick, whole |-> whole, moved |-> [l \in Link |-> 0], reset |-> FALSE]

Init ==
  /\ entry = [d \in Device |-> "absent"]
  /\ links = [d \in Device |-> {}]
  /\ unasked = [d \in Device |-> Link]
  /\ pc = [c \in Caller |-> "idle"]
  /\ at = [c \in Caller |-> None]
  /\ todo = <<>>
  /\ now = 0
  /\ prevLink = [d \in Device |-> None]
  /\ gpus = NoData
  /\ snapshot = NoData
  /\ counter = [d \in Device |-> [l \in Link |-> 0]]
  /\ alive \in [Device -> SUBSET Proc]
  /\ probed = 0
  /\ processes = [kind |-> "none", listed |-> {}]
  /\ window = [d \in Device |-> Opened(0, FALSE)]
  /\ resets = 0
  /\ throughout = {}

Goto(c, place) == pc' = [pc EXCEPT ![c] = place]
-----------------------------------------------------------------------------
(***************************************************************************)
(* Client.device.                                                          *)
(***************************************************************************)

\* The map is read and filled under Client.mu.
Lookup(c) ==
  /\ pc[c] = "lookup"
  /\ entry' = IF entry[at[c]] = "absent" THEN [entry EXCEPT ![at[c]] = "new"] ELSE entry
  /\ Goto(c, "once")
  /\ UNCHANGED <<links, unasked, at, collector, scanner, traffic>>

\* The first caller of initOnce.Do runs init and asks for the handle, which
\* fails or not.
BeginInit(c) ==
  /\ pc[c] = "once" /\ entry[at[c]] = "new"
  /\ \E result \in {"running", "failed"} :
       /\ entry' = [entry EXCEPT ![at[c]] = result]
       /\ Goto(c, IF result = "running" THEN "init" ELSE "once")
  /\ UNCHANGED <<links, unasked, at, collector, scanner, traffic>>

\* init asks for the state of one more link; a failing call counts as down.
AskLink(c) ==
  /\ pc[c] = "init" /\ unasked[at[c]] # {}
  /\ LET d == at[c]
         l == CHOOSE x \in unasked[d] : TRUE
     IN /\ unasked' = [unasked EXCEPT ![d] = @ \ {l}]
        /\ \E up \in SUBSET {l} : links' = [links EXCEPT ![d] = @ \cup up]
  /\ UNCHANGED <<entry, pc, at, collector, scanner, traffic>>

EndInit(c) ==
  /\ pc[c] = "init" /\ unasked[at[c]] = {}
  /\ entry' = [entry EXCEPT ![at[c]] = "ready"]
  /\ Goto(c, "use")
  /\ UNCHANGED <<links, unasked, at, collector, scanner, traffic>>

\* Mutant: a caller that finds the entry does not wait for its init.
PassOnce_NoWait(c) ==
  /\ pc[c] = "once" /\ entry[at[c]] \in {"running", "ready", "failed"}
  /\ Goto(c, IF entry[at[c]] = "failed" THEN "failed" ELSE "use")
  /\ UNCHANGED <<client, at, collector, scanner, traffic>>

\* The others wait in Do until init has returned; a failure is kept for good.
PassOnce(c) ==
  /\ pc[c] = "once" /\ entry[at[c]] \in {"ready", "failed"}
  /\ Goto(c, IF entry[at[c]] = "failed" THEN "failed" ELSE "use")
  /\ UNCHANGED <<client, at, collector, scanner, traffic>>
-----------------------------------------------------------------------------
(***************************************************************************)
(* The collector: Collector.Start with PollUtilization and PollBandwidth.  *)
(***************************************************************************)

\* The snapshot of the last tick has been received.
Tick ==
  /\ pc["collector"] = "idle" /\ now < MaxTicks
  /\ now' = now + 1
  /\ todo' = DeviceIds
  /\ gpus' = NoData
  /\ snapshot' = NoData
  /\ at' = [at EXCEPT !["collector"] = Head(DeviceIds)]
  /\ Goto("collector", "lookup")
  /\ UNCHANGED <<client, prevLink, scanner, traffic>>

\* A device is in the snapshot when the sampler, its utilization or its
\* bandwidth had something to say of it, twice if it is monitored twice;
\* bandwidth is all four rates or none.
Appended(d, bandwidth, other) ==
  IF bandwidth = None /\ ~other THEN gpus
  ELSE Append(gpus, [device |-> d, bandwidth |-> bandwidth])

\* The loop over deviceIds, and the send of a snapshot that is not empty.
NextDevice(collected) ==
  /\ todo' = Tail(todo)
  /\ IF todo' = <<>>
       THEN /\ Goto("collector", "idle")
            /\ at' = [at EXCEPT !["collector"] = None]
            /\ gpus' = NoData
            /\ snapshot' = IF collected = NoData THEN snapshot ELSE collected
       ELSE /\ Goto("collector", "lookup")
            /\ at' = [at EXCEPT !["collector"] = Head(todo')]
            /\ gpus' = collected
            /\ UNCHANGED snapshot

\* NVML has no handle for the device: only the sampler may know it.
CollectWithoutNvml ==
  /\ pc["collector"] = "failed"
  /\ \E sampled \in BOOLEAN : NextDevice(Appended(at["collector"], None, sampled))
  /\ UNCHANGED <<client, now, prevLink, scanner, traffic>>

\* No NVLink, or NVML fails to read the fields: bandwidth is left out whole.
CollectWithoutLinks ==
  /\ pc["collector"] = "use"
  /\ \E other \in BOOLEAN : NextDevice(Appended(at["collector"], None, other))
  /\ UNCHANGED <<client, now, prevLink, scanner, traffic>>

\* There is a rate when time has passed since prevLink: none for a device that
\* is monitored twice when its second turn comes.
HasRate(d) == prevLink[d] # None /\ now > prevLink[d].time

\* A rate over the time since prevLink; a total below the last one counts zero.
Bandwidth(d, total, whole) ==
  [tx |-> IF total >= prevLink[d].total THEN total - prevLink[d].total ELSE 0,
   span |-> now - prevLink[d].time,
   whole |-> whole /\ window[d].whole, reset |-> window[d].reset,
   really |-> SumFunctionOnSet(window[d].moved, links[d]),
   ticks |-> now - window[d].from]

\* Mutant: the time of the last poll is not moved.
CollectLinks_KeepsTime ==
  /\ pc["collector"] = "use"
  /\ links[at["collector"]] # {}
  /\ LET d == at["collector"]
     IN \E read \in SUBSET links[d], pcie \in BOOLEAN, other \in BOOLEAN :
          LET total == SumFunctionOnSet(counter[d], read)
          IN /\ NextDevice(Appended(d, IF pcie /\ HasRate(d)
                                       THEN Bandwidth(d, total, read = links[d]) ELSE None, other))
             /\ prevLink' = [prevLink EXCEPT ![d] =
                  [total |-> total, time |-> IF @ = None THEN now ELSE @.time]]
             /\ window' = [window EXCEPT ![d] = Opened(now, read = links[d])]
  /\ UNCHANGED <<client, now, scanner, counter, resets>>

\* The fields are read, single ones perhaps not (read): the sum over those
\* that were read is the next total to subtract.  PCIe may fail (pcie).
CollectLinks ==
  /\ pc["collector"] = "use"
  /\ links[at["collector"]] # {}
  /\ LET d == at["collector"]
     IN \E read \in SUBSET links[d], pcie \in BOOLEAN, other \in BOOLEAN :
          LET total == SumFunctionOnSet(counter[d], read)
          IN /\ NextDevice(Appended(d, IF pcie /\ HasRate(d)
                                       THEN Bandwidth(d, total, read = links[d]) ELSE None, other))
             /\ prevLink' = [prevLink EXCEPT ![d] = [total |-> total, time |-> now]]
             /\ window' = [window EXCEPT ![d] = Opened(now, read = links[d])]
  /\ UNCHANGED <<client, now, scanner, counter, resets>>
-----------------------------------------------------------------------------
(***************************************************************************)
(* The scanner: GetComputeProcesses.                                       *)
(***************************************************************************)

Scan(d) ==
  /\ pc["scanner"] = "idle"
  /\ at' = [at EXCEPT !["scanner"] = d]
  /\ Goto("scanner", "lookup")
  /\ throughout' = alive[d]
  /\ processes' = [kind |-> "none", listed |-> {}]
  /\ UNCHANGED <<client, collector, alive, probed, traffic>>

Answered(result) ==
  /\ processes' = result
  /\ Goto("scanner", "idle")
  /\ at' = [at EXCEPT !["scanner"] = None]
  /\ probed' = 0
  /\ UNCHANGED <<client, collector, alive, throughout, traffic>>

Failure == [kind |-> "error", listed |-> {}]
Listed(ps) == [kind |-> "ok", listed |-> ps]

\* The device has no handle, or NVML fails a call.
ScanFails ==
  /\ pc["scanner"] \in {"failed", "use", "fill"}
  /\ Answered(Failure)

\* The probe with no room: nothing runs, or how many do.
ProbeEmpty ==
  /\ pc["scanner"] = "use"
  /\ alive[at["scanner"]] = {}
  /\ Answered(Listed({}))

Probe ==
  /\ pc["scanner"] = "use"
  /\ alive[at["scanner"]] # {}
  /\ probed' = Cardinality(alive[at["scanner"]])
  /\ Goto("scanner", "fill")
  /\ UNCHANGED <<client, at, collector, alive, processes, throughout, traffic>>

\* The fill succeeds while the processes fit.
Fill ==
  /\ pc["scanner"] = "fill"
  /\ Cardinality(alive[at["scanner"]]) <= probed + Pad
  /\ Answered(Listed(alive[at["scanner"]]))
-----------------------------------------------------------------------------
(***************************************************************************)
(* The GPU (external).                                                     *)
(***************************************************************************)

Transmit(d, l) ==
  /\ counter[d][l] < MaxTraffic
  /\ counter' = [counter EXCEPT ![d][l] = @ + 1]
  /\ window' = [window EXCEPT ![d].moved[l] = @ + 1]
  /\ UNCHANGED <<client, pc, at, collector, scanner, resets>>

ResetCounters(d) ==
  /\ resets < MaxResets
  /\ resets' = resets + 1
  /\ counter' = [counter EXCEPT ![d] = [l \in Link |-> 0]]
  /\ window' = [window EXCEPT ![d].reset = TRUE]
  /\ UNCHANGED <<client, pc, at, collector, scanner>>

StartProcess(d, p) ==
  /\ p \notin alive[d]
  /\ alive' = [alive EXCEPT ![d] = @ \cup {p}]
  /\ UNCHANGED <<client, pc, at, collector, probed, processes, throughout, traffic>>

EndProcess(d, p) ==
  /\ p \in alive[d]
  /\ alive' = [alive EXCEPT ![d] = @ \ {p}]
  /\ throughout' = IF at["scanner"] = d THEN throughout \ {p} ELSE throughout
  /\ UNCHANGED <<client, pc, at, collector, probed, processes, traffic>>

Next ==
  \/ \E c \in Caller : Lookup(c) \/ BeginInit(c) \/ AskLink(c) \/ EndInit(c) \/ PassOnce(c)
  \/ Tick \/ CollectWithoutNvml \/ CollectWithoutLinks \/ CollectLinks
  \/ \E d \in Device : Scan(d) \/ ResetCounters(d)
  \/ ScanFails \/ ProbeEmpty \/ Probe \/ Fill
  \/ \E d \in Device, l \in Link : Transmit(d, l)
  \/ \E d \in Device, p \in Proc : StartProcess(d, p) \/ EndProcess(d, p)

Spec == Init /\ [][Next]_vars
-----------------------------------------------------------------------------
\* TypeOK: one type invariant; only a device that was initialized to the end
\* has had its fields read, and its links are all known by then.
TypeOK ==
  /\ entry \in [Device -> {"absent", "new", "running", "ready", "failed"}]
  /\ links \in [Device -> SUBSET Link]
  /\ pc \in [Caller -> {"idle", "lookup", "once", "init", "use", "failed", "fill"}]
  /\ \A c \in Caller : at[c] \in IF pc[c] = "idle" THEN {None} ELSE Device
  /\ todo = <<>> <=> pc["collector"] = "idle"
  /\ \A d \in Device : prevLink[d] # None => unasked[d] = {} /\ prevLink[d].time <= now
  /\ \A seen \in {gpus, snapshot} : \A n \in DOMAIN seen : seen[n].device \in Device

\* TrafficCounted: when no single field failed at the two polls that bound a
\* rate, the rate is the traffic of the device's links between them over the
\* time between them, whichever calls failed altogether in the meantime, and
\* never more than that when the counters were reset.
TrafficCounted ==
  \A n \in DOMAIN snapshot :
    LET b == snapshot[n].bandwidth
    IN b # None /\ b.whole =>
         /\ b.span = b.ticks /\ b.span > 0
         /\ IF b.reset THEN b.tx <= b.really ELSE b.tx = b.really

\* NothingMissed: a list of processes has every process that was there from
\* the beginning of the call to its end, however many came and went between
\* the probe and the fill.
NothingMissed ==
  pc["scanner"] = "idle" /\ processes.kind = "ok" => throughout \subseteq processes.listed

\* ReportsTrue: what the collector and the scanner are told through the client
\* they share is what went on between two of its calls, or they are told nothing.
ReportsTrue == TrafficCounted /\ NothingMissed
=============================================================================
