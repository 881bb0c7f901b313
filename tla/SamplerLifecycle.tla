--------------------------- MODULE SamplerLifecycle ---------------------------
(***************************************************************************)
(* How utlz processes take GPUs and give them back: sampler.Init with the  *)
(* native create it calls, the collector goroutine polling, and Close.     *)
(* The driver lets one profiling session exist per device, whoever owns it.*)
(* A process monitors either in server mode, where runServer's deferred    *)
(* Close runs while the collector goroutine may still poll, or in local    *)
(* mode, where Close follows the end of the collector.                     *)
(***************************************************************************)
EXTENDS Integers, Sequences, Functions

CONSTANTS
  Proc,        \* utlz processes
  Device,      \* GPUs
  Requested,   \* the device IDs each process was given, in order
  Local        \* the processes in local mode; the others are servers

ASSUME LifecycleAssumption ==
  /\ Requested \in [Proc -> Seq(Device) \ {<<>>}]
  /\ Local \subseteq Proc
  /\ "none" \notin Proc

VARIABLES
  main,        \* where the goroutine that calls Init and Close stands
  session,     \* the process whose session each device is in, or "none"
  states,      \* results of state_create so far: is state i initialized
  native,      \* processes whose native sampler is allocated
  handle,      \* processes whose Sampler.handle is not nil
  initMu,      \* processes whose initState.mu is held
  registry,    \* keys of initState.initialized
  poller,      \* where the collector goroutine stands
  cancelled    \* processes whose context is cancelled

vars == <<main, session, states, native, handle, initMu, registry, poller, cancelled>>

Init ==
  /\ main = [p \in Proc |-> "start"]
  /\ session = [d \in Device |-> "none"]
  /\ states = [p \in Proc |-> <<>>]
  /\ native = {}
  /\ handle = {}
  /\ initMu = {}
  /\ registry = [p \in Proc |-> {}]
  /\ poller = [p \in Proc |-> "off"]
  /\ cancelled = {}

Held(p) == {d \in Device : session[d] = p}

\* multi.findHandle takes the first state of a device.
IsFirst(p, i) == \A j \in 1 .. i - 1 : Requested[p][j] # Requested[p][i]

\* The devices Init finds initialized.
Initialized(p) ==
  {Requested[p][i] : i \in {j \in DOMAIN Requested[p] : IsFirst(p, j) /\ states[p][j]}}
-----------------------------------------------------------------------------
(***************************************************************************)
(* NewCollector and sampler.Init.                                          *)
(***************************************************************************)

\* NVML, or the sampler library, cannot be loaded: NewCollector fails before it
\* creates anything.
CannotStart(p) ==
  /\ main[p] = "start"
  /\ main' = [main EXCEPT ![p] = "init error"]
  /\ UNCHANGED <<session, states, native, handle, initMu, registry, poller, cancelled>>

\* Init takes initState.mu until it returns, checks the registry, and calls
\* the native create.
BeginInit(p) ==
  /\ main[p] = "start"
  /\ p \notin initMu
  /\ Range(Requested[p]) \cap registry[p] = {}
  /\ initMu' = initMu \union {p}
  /\ native' = native \union {p}
  /\ main' = [main EXCEPT ![p] = "creating"]
  /\ UNCHANGED <<session, states, handle, registry, poller, cancelled>>

\* state_create for the next requested device succeeds: Setup opened a
\* session and started a worker.
StateCreated(p) ==
  LET d == Requested[p][Len(states[p]) + 1] IN
  /\ main[p] = "creating"
  /\ Len(states[p]) < Len(Requested[p])
  /\ session[d] = "none"
  /\ session' = [session EXCEPT ![d] = p]
  /\ states' = [states EXCEPT ![p] = Append(@, TRUE)]
  /\ UNCHANGED <<main, native, handle, initMu, registry, poller, cancelled>>

\* Mutant: a Setup that fails after BeginSession is not cleaned up.
StateFailed_NoCleanup(p) ==
  LET d == Requested[p][Len(states[p]) + 1] IN
  /\ main[p] = "creating"
  /\ Len(states[p]) < Len(Requested[p])
  /\ session' = [session EXCEPT ![d] = IF @ = "none" THEN p ELSE @]
  /\ states' = [states EXCEPT ![p] = Append(@, FALSE)]
  /\ UNCHANGED <<main, native, handle, initMu, registry, poller, cancelled>>

\* Mutant: the loop over the devices runs once too often.
StateFailed_OffByOne(p) ==
  /\ main[p] = "creating"
  /\ Len(states[p]) <= Len(Requested[p])
  /\ states' = [states EXCEPT ![p] = Append(@, FALSE)]
  /\ UNCHANGED <<main, session, native, handle, initMu, registry, poller, cancelled>>

\* Setup fails, for a device in somebody's session or for any other reason;
\* Cleanup undoes it.
StateFailed(p) ==
  /\ main[p] = "creating"
  /\ Len(states[p]) < Len(Requested[p])
  /\ states' = [states EXCEPT ![p] = Append(@, FALSE)]
  /\ UNCHANGED <<main, session, native, handle, initMu, registry, poller, cancelled>>

\* At least one device is initialized: Init registers them and returns.
InitSucceeds(p) ==
  /\ main[p] = "creating"
  /\ Len(states[p]) = Len(Requested[p])
  /\ Initialized(p) # {}
  /\ handle' = handle \union {p}
  /\ registry' = [registry EXCEPT ![p] = @ \union Initialized(p)]
  /\ initMu' = initMu \ {p}
  /\ main' = [main EXCEPT ![p] = "initialized"]
  /\ UNCHANGED <<session, states, native, poller, cancelled>>

\* No device is initialized: Init calls Close, still holding initState.mu.
InitFails(p) ==
  /\ main[p] = "creating"
  /\ Len(states[p]) = Len(Requested[p])
  /\ Initialized(p) = {}
  /\ handle' = handle \union {p}
  /\ main' = [main EXCEPT ![p] = "closing in Init"]
  /\ UNCHANGED <<session, states, native, initMu, registry, poller, cancelled>>

\* newMetricsReporter finds the GPUs, and RunCollector is called; or it fails, and
\* the deferred Close runs with no collector goroutine started.
NewReporter(p) ==
  /\ main[p] = "initialized"
  /\ \/ /\ main' = [main EXCEPT ![p] = "running"]
        /\ poller' = [poller EXCEPT ![p] = "starting"]
     \/ /\ main' = [main EXCEPT ![p] = "closing"]
        /\ poller' = poller
  /\ UNCHANGED <<session, states, native, handle, initMu, registry, cancelled>>
-----------------------------------------------------------------------------
(***************************************************************************)
(* Sampler.Close: destroy, clear the handle, then take initState.mu.       *)
(***************************************************************************)
Destroy(p) ==
  /\ main[p] \in {"closing", "closing in Init"}
  /\ native' = native \ {p}
  /\ session' = [d \in Device |-> IF session[d] = p THEN "none" ELSE session[d]]
  /\ main' = [main EXCEPT ![p] =
                IF @ = "closing" THEN "destroyed" ELSE "destroyed in Init"]
  /\ UNCHANGED <<states, handle, initMu, registry, poller, cancelled>>

ClearHandle(p) ==
  /\ main[p] \in {"destroyed", "destroyed in Init"}
  /\ handle' = handle \ {p}
  /\ main' = [main EXCEPT ![p] =
                IF @ = "destroyed" THEN "unregister" ELSE "unregister in Init"]
  /\ UNCHANGED <<session, states, native, initMu, registry, poller, cancelled>>

\* Mutant: Close leaves its devices in the registry.
Unregister_Forgets(p) ==
  /\ main[p] \in {"unregister", "unregister in Init"}
  /\ p \notin initMu
  /\ main' = [main EXCEPT ![p] = IF @ = "unregister" THEN "closed" ELSE "init error"]
  /\ UNCHANGED <<session, states, native, handle, initMu, registry, poller, cancelled>>

\* Close locks initState.mu and removes its devices.  Called from Init, it
\* then lets Init return its error.
Unregister(p) ==
  /\ main[p] \in {"unregister", "unregister in Init"}
  /\ p \notin initMu
  /\ registry' = [registry EXCEPT ![p] = @ \ Initialized(p)]
  /\ main' = [main EXCEPT ![p] = IF @ = "unregister" THEN "closed" ELSE "init error"]
  /\ UNCHANGED <<session, states, native, handle, initMu, poller, cancelled>>
-----------------------------------------------------------------------------
(***************************************************************************)
(* The collector goroutine and Sampler.Poll.                               *)
(***************************************************************************)

\* RunCollector starts the goroutine: in a server it may do so when Close is done.
CollectorStarts(p) ==
  /\ poller[p] = "starting"
  /\ poller' = [poller EXCEPT ![p] = "select"]
  /\ UNCHANGED <<main, session, states, native, handle, initMu, registry, cancelled>>

\* Poll looks at the handle before it takes Sampler.mu; a nil one is an error.
PollChecks(p) ==
  /\ poller[p] = "select"
  /\ p \in handle
  /\ poller' = [poller EXCEPT ![p] = "checked"]
  /\ UNCHANGED <<main, session, states, native, handle, initMu, registry, cancelled>>

\* Poll reads the handle again and enters the library with it; the library
\* answers a nil one at once.
PollEnters(p) ==
  /\ poller[p] = "checked"
  /\ poller' = [poller EXCEPT ![p] = IF p \in handle THEN "inside" ELSE "select"]
  /\ UNCHANGED <<main, session, states, native, handle, initMu, registry, cancelled>>

PollReturns(p) ==
  /\ poller[p] = "inside"
  /\ poller' = [poller EXCEPT ![p] = "select"]
  /\ UNCHANGED <<main, session, states, native, handle, initMu, registry, cancelled>>

CollectorEnds(p) ==
  /\ poller[p] = "select"
  /\ p \in cancelled
  /\ poller' = [poller EXCEPT ![p] = "done"]
  /\ UNCHANGED <<main, session, states, native, handle, initMu, registry, cancelled>>
-----------------------------------------------------------------------------
(***************************************************************************)
(* The end of a process.                                                   *)
(***************************************************************************)

\* A signal, or the user quitting, cancels the context, at any time: Init does
\* not look at it.
Cancel(p) ==
  /\ main[p] # "exited"
  /\ p \notin cancelled
  /\ cancelled' = cancelled \union {p}
  /\ UNCHANGED <<main, session, states, native, handle, initMu, registry, poller>>

\* Local: RunCollector returned because the collector closed its channel.
\* Server: the HTTP server returned, cancelled or unable to listen.
BeginClose(p) ==
  /\ main[p] = "running"
  /\ p \in Local => poller[p] = "done"
  /\ main' = [main EXCEPT ![p] = "closing"]
  /\ UNCHANGED <<session, states, native, handle, initMu, registry, poller, cancelled>>

\* The process ends, orderly or killed: the system takes everything back.
Exit(p) ==
  /\ main[p] # "exited"
  /\ session' = [d \in Device |-> IF session[d] = p THEN "none" ELSE session[d]]
  /\ native' = native \ {p}
  /\ handle' = handle \ {p}
  /\ initMu' = initMu \ {p}
  /\ registry' = [registry EXCEPT ![p] = {}]
  /\ main' = [main EXCEPT ![p] = "exited"]
  /\ poller' = [poller EXCEPT ![p] = "off"]
  /\ UNCHANGED <<states, cancelled>>
-----------------------------------------------------------------------------
CallerStep(p) ==
  \/ CannotStart(p)
  \/ BeginInit(p) \/ StateCreated(p) \/ StateFailed(p) \/ InitSucceeds(p) \/ InitFails(p)
  \/ NewReporter(p) \/ Destroy(p) \/ ClearHandle(p) \/ Unregister(p)

PollerStep(p) ==
  CollectorStarts(p) \/ PollChecks(p) \/ PollEnters(p) \/ PollReturns(p) \/ CollectorEnds(p)

Next == \E p \in Proc :
  CallerStep(p) \/ PollerStep(p) \/ Cancel(p) \/ BeginClose(p) \/ Exit(p)

Spec == Init /\ [][Next]_vars

\* Both goroutines of a process run until it ends; the user, the network
\* and the end of the process are not forced.
FairSpec ==
  /\ Spec
  /\ \A p \in Proc : WF_vars(CallerStep(p)) /\ SF_vars(CollectorEnds(p))
                     /\ WF_vars(PollerStep(p)) /\ WF_vars(p \in Local /\ BeginClose(p))
-----------------------------------------------------------------------------
TypeOK ==
  /\ main \in [Proc -> {"start", "creating", "closing in Init", "destroyed in Init",
                        "unregister in Init", "init error", "initialized", "running",
                        "closing", "destroyed", "unregister", "closed", "exited"}]
  /\ session \in [Device -> Proc \union {"none"}]
  /\ states \in [Proc -> Seq(BOOLEAN)]
  /\ \A p \in Proc : Len(states[p]) <= Len(Requested[p])
  /\ native \subseteq Proc /\ handle \subseteq Proc /\ initMu \subseteq Proc
  /\ registry \in [Proc -> SUBSET Device]
  /\ poller \in [Proc -> {"off", "starting", "select", "checked", "inside", "done"}]
  /\ cancelled \subseteq Proc

\* The sessions a process holds are those of the initialized states of its
\* live native sampler: a failed create, a device asked for twice, Close and
\* the failing path of Init leave no device locked.
NothingLeaked ==
  \A p \in Proc :
    Held(p) = IF p \in native
              THEN {Requested[p][i] : i \in {j \in DOMAIN states[p] : states[p][j]}}
              ELSE {}

\* In local mode the library is never inside a poll of a destroyed sampler:
\* RunCollector returns, and with it Close is called, only when the collector
\* goroutine is done.
NoPollAfterDestroy ==
  \A p \in Local : poller[p] \in {"checked", "inside"} => p \in native

\* From Init to Close every device a process lists as initialized, and so polls,
\* is in a session of its own.  The converse fails: of a device asked
\* for twice the first state can fail and the second hold the session.
RegistryHeld ==
  \A p \in Proc : main[p] \in {"initialized", "running"} =>
    registry[p] # {} /\ registry[p] \subseteq Held(p)

\* No process holds a session that is not accounted for, none polls a device
\* without its session, and no local one a sampler that is gone.
SessionsAccounted == NothingLeaked /\ RegistryHeld /\ NoPollAfterDestroy

\* A cancelled local process that keeps running gives its devices back.
CancelReleases ==
  \A p \in Local : p \in cancelled ~> Held(p) = {} /\ registry[p] = {}

\* Init returns, with a sampler or with ErrSamplerCouldNotInitialize.
InitReturns ==
  \A p \in Proc : main[p] = "creating" ~> main[p] \in {"initialized", "init error", "exited"}
=============================================================================
