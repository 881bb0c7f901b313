-------------------------------- MODULE Startup --------------------------------
(***************************************************************************)
(* Several starts of utlz on one machine, as cmd/main.go orders them: the  *)
(* client ID, the mode, the CUPTI libraries, the GPU, the port.  They      *)
(* share the config file, the cache, the GPU and the port.  ConfigStore    *)
(* and CuptiCache give the steps on files; SamplerLifecycle details what   *)
(* taking and freeing the GPU is here.                                     *)
(***************************************************************************)
EXTENDS CuptiCache

VARIABLES file, loading, found, clientID, sole     \* those of ConfigStore

INSTANCE ConfigStore

VARIABLES
  stage,       \* where each process stands
  role,        \* what run made of it: server, local or viewer
  owner,       \* the process that has the profiling session of the GPU
  listener     \* who listens on the service's port: or "none"

\* Names of processes are not among the words used for files and owners.
ASSUME ProcAssumption ==
  {"none", "fallback", "absent", "garbled", "no id"} \intersect Proc = {}

configVars == <<file, loading, found, clientID, sole>>
startVars == <<stage, role, owner, listener>>
vars == <<configVars, cuptiVars, startVars>>

Init ==
  /\ ConfigInit
  /\ CuptiInit
  /\ stage = [p \in Proc |-> "config"]
  /\ role = [p \in Proc |-> "none"]
  /\ owner = "none"
  /\ listener = "none"

Stages == {"config", "connect", "cupti", "reporter", "listen", "serving", "deaf",
  "stopping", "stuck", "viewing", "told"}

TypeOK ==
  /\ ConfigTypeOK
  /\ CuptiTypeOK
  /\ stage \in [Proc -> Stages]
  /\ role \in [Proc -> {"none", "server", "local", "viewer"}]
  /\ owner \in {"none"} \union Proc
  /\ listener \in {"none"} \union Proc

Goes(p, s) == stage' = [stage EXCEPT ![p] = s]

\* A process ends, of itself or anywhere by a kill: its GPU and its port are free
\* again.  It may be started again.
Exit(p) ==
  /\ Goes(p, "config")
  /\ role' = [role EXCEPT ![p] = "none"]
  /\ owner' = IF owner = p THEN "none" ELSE owner
  /\ listener' = IF listener = p THEN "none" ELSE listener
  /\ ConfigEnds(p)
  /\ CuptiEnds(p)

\* An error ends a server.  A screen shows it and stays, and the deferred Close
\* frees the GPU if it was taken.
Fails(p) ==
  \/ role[p] = "server" /\ Exit(p)
  \/ /\ role[p] = "local"
     /\ Goes(p, "told")
     /\ owner' = IF owner = p THEN "none" ELSE owner
     /\ UNCHANGED <<configVars, cuptiVars, role, listener>>
-----------------------------------------------------------------------------
\* main loads the config before anything else that is shared.
Configure(p) ==
  /\ stage[p] = "config"
  /\ LoadStep(p)
  /\ UNCHANGED <<cuptiVars, startVars>>

\* run, in the mode that the flags and the environment ask for.  Auto mode dials
\* the service, for 300 ms at most (ServerAvailable).
Dispatch(p) ==
  /\ stage[p] = "config"
  /\ loading[p] = "done"
  /\ \/ role' = [role EXCEPT ![p] = "server"] /\ Goes(p, "cupti")
     \/ role' = [role EXCEPT ![p] = "local"] /\ Goes(p, "cupti")
     \/ role' = [role EXCEPT ![p] = "viewer"] /\ Goes(p, "connect")
  /\ UNCHANGED <<configVars, cuptiVars, owner, listener>>

\* runClient streams from the server, or shows why it cannot.
Connect(p) ==
  /\ stage[p] = "connect"
  /\ Goes(p, IF listener \in Proc THEN "viewing" ELSE "told")
  /\ UNCHANGED <<configVars, cuptiVars, role, owner, listener>>

\* The stream ends with the server, or in an error.
StreamEnds(p) ==
  /\ stage[p] = "viewing"
  /\ Goes(p, "told")
  /\ UNCHANGED <<configVars, cuptiVars, role, owner, listener>>

\* ensureCanCollectMetrics.
LoadCupti(p) ==
  /\ stage[p] = "cupti"
  /\ CuptiStep(p)
  /\ UNCHANGED <<configVars, startVars>>

\* Without the libraries, or without the capabilities, nothing is collected.
CannotCollect(p) ==
  /\ stage[p] = "cupti"
  /\ at[p] \in {"loaded", "failed"}
  /\ Fails(p)

\* Mutant: the service is started before the collector.
NewCollector_ListensFirst(p) ==
  /\ stage[p] = "cupti"
  /\ at[p] = "loaded"
  /\ \/ owner = "none" /\ owner' = p /\ Goes(p, "reporter")
     \/ owner' = owner /\ Goes(p, "stuck")
  /\ listener' = IF listener = "none" THEN p ELSE listener
  /\ UNCHANGED <<configVars, cuptiVars, role>>

\* NewCollector takes the GPU.  NVML or the sampler library may fail before;
\* once sampler.Init finds no GPU it can take, it does not return
\* (SamplerLifecycle).
NewCollector(p) ==
  /\ stage[p] = "cupti"
  /\ at[p] = "loaded"
  /\ \/ /\ \/ owner = "none" /\ owner' = p /\ Goes(p, "reporter")
           \/ owner' = owner /\ Goes(p, "stuck")
        /\ UNCHANGED <<configVars, cuptiVars, role, listener>>
     \/ Fails(p)

\* newMetricsReporter asks NVML for the GPUs.
NewReporter(p) ==
  /\ stage[p] = "reporter"
  /\ \/ Goes(p, "listen") /\ UNCHANGED <<configVars, cuptiVars, role, owner, listener>>
     \/ Fails(p)

\* svc.Run: with the port taken a server ends and closes its collector, while a
\* local instance shows the error and collects on.
Listen(p) ==
  /\ stage[p] = "listen"
  /\ \/ /\ \/ listener = "none" /\ listener' = p /\ Goes(p, "serving")
           \/ listener # "none" /\ role[p] = "local" /\ listener' = listener /\ Goes(p, "deaf")
        /\ UNCHANGED <<configVars, cuptiVars, role, owner>>
     \/ listener # "none" /\ role[p] = "server" /\ Exit(p)

\* A signal, or the user quitting, cancels the context.
Stop(p) ==
  /\ stage[p] \in {"serving", "deaf"}
  /\ Goes(p, "stopping")
  /\ UNCHANGED <<configVars, cuptiVars, role, owner, listener>>

\* Shutdown closes the listener.
Unlisten(p) ==
  /\ stage[p] = "stopping"
  /\ listener = p
  /\ listener' = "none"
  /\ UNCHANGED <<configVars, cuptiVars, stage, role, owner>>

\* The deferred Close: after svc.Run in a server, next to it in a local instance.
CloseCollector(p) ==
  /\ stage[p] = "stopping"
  /\ role[p] = "server" => listener # p
  /\ owner = p
  /\ owner' = "none"
  /\ UNCHANGED <<configVars, cuptiVars, stage, role, listener>>

Step(p) ==
  \/ Configure(p) \/ Dispatch(p) \/ Connect(p) \/ StreamEnds(p)
  \/ LoadCupti(p) \/ CannotCollect(p) \/ NewCollector(p) \/ NewReporter(p) \/ Listen(p)
  \/ Stop(p) \/ Unlisten(p) \/ CloseCollector(p) \/ Exit(p)

Next ==
  \/ \E p \in Proc : Step(p)
  \/ Publish /\ UNCHANGED <<configVars, startVars>>

Spec == Init /\ [][Next]_vars
-----------------------------------------------------------------------------
\* Whoever answers on the service's port has the GPU, and so something to show,
\* until it stops: a start that finds a server can rely on it, and does not have
\* to take the GPU itself (runServer, runLocal, run).
ListenerCollects == \A p \in Proc :
  listener = p => owner = p \/ stage[p] = "stopping"
=============================================================================
