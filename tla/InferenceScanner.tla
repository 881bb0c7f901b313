--------------------------- MODULE InferenceScanner ---------------------------
(***************************************************************************)
(* inference.Engine.Scan for one GPU: which process session on it serves   *)
(* which model, remembered for a while.  Sessions start, end, lose their   *)
(* leader and change what they serve between any two reads of the scan,    *)
(* which stats the processes NVML lists one by one, then the leaders.      *)
(* A session ID that is used again has another start time.  A process that *)
(* dies between the list and the read of its stat, which is then all       *)
(* zeros, leaves a session 0 that never was, and that serves nothing.      *)
(* A session that has lost its leader is identified by one GPU process.    *)
(***************************************************************************)
EXTENDS Integers, Sequences, FiniteSets

CONSTANTS
  MaxSession,   \* session IDs are 1 .. MaxSession
  Model,        \* the models a session may serve
  CacheTTL,     \* Engine.cacheTTL, in scans
  MaxStarts,    \* bound on the starts of sessions
  MaxClock      \* bound on the scans begun

ASSUME ScannerAssumption ==
  /\ MaxSession \in Nat \ {0} /\ CacheTTL \in Nat /\ MaxStarts \in Nat /\ MaxClock \in Nat
  /\ "none" \notin Model

SessionID == 1 .. MaxSession

VARIABLES
  running,    \* sessions with a process on the GPU
  leaderless, \* those whose leader has exited
  start,      \* start[s]: start time of the latest session with this ID
  serves,     \* serves[s]: the model it serves, or "none"
  starts,     \* sessions started so far: the next start time
  clock,      \* scans begun
  pc,         \* where Scan stands
  todo,       \* sessions whose processes, then leaders, it has still to read
  sessions,   \* sessions listed by this scan, with their keys
  cache,      \* Engine.cache[gpu], or nothing
  answer      \* what the latest scan returned for the GPU

world == <<running, leaderless, start, serves, starts>>
scannerVars == <<world, clock, pc, todo, sessions, cache, answer>>

nothing == [kind |-> "none"]

ScannerInit ==
  /\ running = {} /\ leaderless = {}
  /\ start = [s \in SessionID |-> 0] /\ serves = [s \in SessionID |-> "none"]
  /\ starts = 0 /\ clock = 0
  /\ pc = "idle"
  /\ todo = {} /\ sessions = << >>
  /\ cache = nothing
  /\ answer = nothing
-----------------------------------------------------------------------------
(***************************************************************************)
(* The processes of the host.                                              *)
(***************************************************************************)
SessionStarts(s) ==
  /\ s \notin running /\ starts < MaxStarts
  /\ starts' = starts + 1
  /\ running' = running \union {s}
  /\ start' = [start EXCEPT ![s] = starts + 1]
  /\ UNCHANGED <<leaderless, serves, clock, pc, todo, sessions, cache, answer>>

SessionEnds(s) ==
  /\ s \in running
  /\ running' = running \ {s} /\ leaderless' = leaderless \ {s}
  /\ serves' = [serves EXCEPT ![s] = "none"]
  /\ UNCHANGED <<start, starts, clock, pc, todo, sessions, cache, answer>>

LeaderExits(s) ==
  /\ s \in running \ leaderless
  /\ leaderless' = leaderless \union {s}
  /\ UNCHANGED <<running, start, serves, starts, clock, pc, todo, sessions, cache, answer>>

\* A server of the session comes up or is replaced by another.
ServesNow(s, m) ==
  /\ s \in running /\ serves[s] # m
  /\ serves' = [serves EXCEPT ![s] = m]
  /\ UNCHANGED <<running, leaderless, start, starts, clock, pc, todo, sessions, cache, answer>>
-----------------------------------------------------------------------------
(***************************************************************************)
(* Scan.                                                                   *)
(***************************************************************************)

\* The key of a session: its leader, or else a process of it on the GPU.
KeyOf(s, leads) == [leader |-> leads, session |-> s, start |-> start[s]]

\* Session 0: nothing is known of its process but the PID.
Phantom == [leader |-> FALSE, session |-> 0, start |-> 0]

\* A process joins session s, which has the key of the first that did.
Joined(s, key) ==
  [t \in DOMAIN sessions \union {s} |-> IF t \in DOMAIN sessions THEN sessions[t] ELSE key]

\* currentGPUSessions: NVML lists the processes on the GPU ...
ListProcesses ==
  /\ pc = "idle" /\ clock < MaxClock
  /\ clock' = clock + 1
  /\ pc' = "processes" /\ todo' = running
  /\ sessions' = << >> /\ answer' = nothing
  /\ UNCHANGED <<world, cache>>

\* ... each is put in the session its stat names: its own, if it still runs,
\* session 0 if it has gone, though its session may have others, and none if
\* its stat cannot be read ...
StatProcess(s) ==
  /\ pc = "processes" /\ s \in todo
  /\ todo' = todo \ {s}
  /\ \/ s \in running /\ sessions' = Joined(s, KeyOf(s, FALSE))
     \/ sessions' = Joined(0, Phantom)
     \/ sessions' = sessions
  /\ UNCHANGED <<world, clock, pc, cache, answer>>

ProcessesRead ==
  /\ pc = "processes" /\ todo = {}
  /\ pc' = "leaders" /\ todo' = DOMAIN sessions \ {0}
  /\ UNCHANGED <<world, clock, sessions, cache, answer>>

\* ... and each session is then known by its leader, if that can be read.
ReadLeader(s) ==
  /\ pc = "leaders" /\ s \in todo
  /\ todo' = todo \ {s}
  /\ \/ /\ s \in running \ leaderless
        /\ sessions' = [sessions EXCEPT ![s] = KeyOf(s, TRUE)]
     \/ sessions' = sessions
  /\ UNCHANGED <<world, clock, pc, cache, answer>>

\* The sessions are there, each with its key.
Listed == pc = "leaders" /\ todo = {}

\* NVML or /proc fail: as if no session were there, and Scan returns an error.
ListFails ==
  /\ pc = "idle" /\ clock < MaxClock
  /\ clock' = clock + 1
  /\ cache' = nothing
  /\ answer' = [kind |-> "error"]
  /\ UNCHANGED <<world, pc, todo, sessions>>

NoSessions ==
  /\ Listed /\ DOMAIN sessions = {}
  /\ cache' = nothing
  /\ pc' = "idle"
  /\ UNCHANGED <<world, clock, todo, sessions, answer>>

\* Mutant: the session ID alone identifies the session.
Fresh_IDOnly ==
  /\ cache.kind = "entry"
  /\ CacheTTL > 0 /\ clock - cache.updatedAt <= CacheTTL
  /\ cache.key.session \in DOMAIN sessions

\* cacheStillFresh.
Fresh ==
  /\ cache.kind = "entry"
  /\ CacheTTL > 0 /\ clock - cache.updatedAt <= CacheTTL
  /\ cache.key.session \in DOMAIN sessions
  /\ sessions[cache.key.session] = cache.key

UseCache ==
  /\ Listed /\ DOMAIN sessions # {}
  /\ Fresh
  /\ answer' = [cache EXCEPT !.kind = "cached"]
  /\ pc' = "idle"
  /\ UNCHANGED <<world, clock, todo, sessions, cache>>

\* Mutant: the entry is stamped ahead of the time of the scan.
Discover_StampsAhead ==
  /\ Listed /\ DOMAIN sessions # {} /\ ~Fresh
  /\ \E s \in DOMAIN sessions \ {0} :
       /\ serves[s] # "none"
       /\ cache' = [kind |-> "entry", key |-> sessions[s], model |-> serves[s],
                    updatedAt |-> clock + 1, probed |-> start[s], at |-> clock]
  /\ answer' = [cache' EXCEPT !.kind = "discovered"]
  /\ pc' = "idle"
  /\ UNCHANGED <<world, clock, todo, sessions>>

\* discoverGPU: the first session, by ID, whose processes serve a model.  A
\* probe may fail though one does.  The entry notes for the properties what
\* was found: the start time of the session that answered, and when.
Discover ==
  /\ Listed /\ DOMAIN sessions # {} /\ ~Fresh
  /\ \E s \in DOMAIN sessions \ {0} :
       /\ serves[s] # "none"
       /\ cache' = [kind |-> "entry", key |-> sessions[s], model |-> serves[s],
                    updatedAt |-> clock, probed |-> start[s], at |-> clock]
  /\ answer' = [cache' EXCEPT !.kind = "discovered"]
  /\ pc' = "idle"
  /\ UNCHANGED <<world, clock, todo, sessions>>

\* No session answers, perhaps with an error.
NotFound ==
  /\ Listed /\ DOMAIN sessions # {} /\ ~Fresh
  /\ cache' = nothing
  /\ answer' \in {nothing, [kind |-> "error"]}
  /\ pc' = "idle"
  /\ UNCHANGED <<world, clock, todo, sessions>>
-----------------------------------------------------------------------------
Scan ==
  \/ ListProcesses \/ ProcessesRead \/ ListFails
  \/ \E s \in SessionID : StatProcess(s) \/ ReadLeader(s)
  \/ NoSessions \/ UseCache \/ Discover \/ NotFound

ScannerNext ==
  \/ Scan
  \/ \E s \in SessionID : \/ SessionStarts(s) \/ SessionEnds(s) \/ LeaderExits(s)
                          \/ \E m \in Model : ServesNow(s, m)

ScannerSpec == ScannerInit /\ [][ScannerNext]_scannerVars
-----------------------------------------------------------------------------
Attributed == answer.kind \in {"cached", "discovered"}

ScannerTypeOK ==
  /\ leaderless \subseteq running /\ running \subseteq SessionID
  /\ start \in [SessionID -> 0 .. starts] /\ serves \in [SessionID -> Model \union {"none"}]
  /\ \A s \in SessionID \ running : serves[s] = "none"
  /\ starts \in 0 .. MaxStarts /\ clock \in 0 .. MaxClock
  /\ pc \in {"idle", "processes", "leaders"} /\ todo \subseteq SessionID
  /\ DOMAIN sessions \subseteq SessionID \union {0}
  /\ cache.kind \in {"none", "entry"}
  /\ cache.kind = "entry" => cache.updatedAt \in 1 .. clock /\ cache.key.session \in SessionID
  /\ answer.kind \in {"none", "error", "cached", "discovered"}

\* A GPU is only attributed to a session this very scan has read of one of its
\* processes, and never to the session 0 of a process that was gone.
OnTheGPU == Attributed => answer.key.session \in DOMAIN sessions \ {0}

\* A cached attribution was found in the session that now has the ID, not in
\* an earlier one: process IDs that are used again do not inherit a model,
\* even if the session was replaced in the middle of the scan that filled the
\* cache.
StartTimeMatches ==
  answer.kind = "cached" => answer.probed = sessions[answer.key.session].start

\* An attribution names a session this scan has read, and is its own.
SameIncarnation == OnTheGPU /\ StartTimeMatches

\* What a scan returns was found by a probe at most CacheTTL scans ago; using
\* an entry does not renew it.
NotStale == Attributed => clock - answer.at <= CacheTTL

\* AnswersHold: what a scan returns names a session it has read on the GPU, in
\* the incarnation that was probed, and was found recently.
AnswersHold == SameIncarnation /\ NotStale

\* After a scan that found nothing the next attribution is a new discovery:
\* a model that has gone does not come back from the cache.
NoResurrection ==
  answer.kind \in {"none", "error"} /\ pc = "idle" /\ pc' = "processes" => cache'.kind = "none"

\* AttributionsTrue: what scans return, one by one and one after the other.
AttributionsTrue == [][AnswersHold' /\ NoResurrection]_scannerVars
=============================================================================
