--------------------------------- MODULE Sweep ---------------------------------
(***************************************************************************)
(* The sweep harness, scripts/sweep/sweep.py: a preflight that drops the   *)
(* configs whose feature cannot start, then for every remaining config one *)
(* server per replica, a ladder of bench points that live mode cuts where  *)
(* the stop rule fires and replay mode measures to its end, the accounting *)
(* and the three output files, rewritten in place.  What the servers of a  *)
(* config would measure at every point (ladder) is fixed when they are up, *)
(* so that what live mode did can be compared with what replay predicts.   *)
(* The run has --utlz-url; costs are counted in points.                    *)
(***************************************************************************)
EXTENDS Integers, Sequences, FiniteSets, Functions, SequencesExt

CONSTANTS
  Grids,     \* the grids build_grid may sample: sequences of configs
             \*   [replicas, features]
  Feature,   \* the risky features, in the order preflight boots them
  Ladder,    \* the concurrencies of the ladder, increasing
  Point,     \* what a bench point may measure: [tps, ceilings, reached]:
             \*   throughput, enough ceiling samples, SOL at 90% of the ceiling
  Modes, Rules,  \* the values of --mode and --rule tried
  None

MinGain == 10   \* PLATEAU_MIN_GAIN in percent
Files == {"sweep.csv", "configs.csv", "summary.json"}
Collector == 0  \* in running; the replicas are 1, 2, ...

ASSUME SweepAssumption ==
  /\ Feature \in Seq(Range(Feature))
  /\ Grids \subseteq Seq([replicas : Nat \ {0}, features : SUBSET Range(Feature)])
  /\ Ladder \in Seq(Nat) /\ Ladder # <<>>
  /\ \A s, t \in DOMAIN Ladder : s < t => Ladder[s] < Ladder[t]
  /\ Modes \subseteq {"replay", "live"}
  /\ Rules \subseteq {"auto", "sol90", "plateau", "off"}
  /\ Point \subseteq [tps : Nat, ceilings : BOOLEAN, reached : BOOLEAN]

VARIABLES
  args,        \* [mode, rule]
  broken,      \* the features no server can start with
  grid,        \* the configs still in the grid
  checks,      \* the preflight checks left: [feature, config]
  pc,          \* where main stands
  current,     \* the index in grid of the config in hand
  running,     \* the collector and the replicas main has started and knows of
  ladder,      \* what the servers would measure: a function of the step
  points,      \* what was measured so far: a function of the step
  step,        \* the next step of the ladder
  rows, configRows, summary,  \* main's accounting
  io,          \* the operations write_outputs has left: [op, file]
  disk         \* the contents of the output files

vars == <<args, broken, grid, checks, pc, current, running, ladder,
          points, step, rows, configRows, summary, io, disk>>

inputs == <<args, broken>>
results == <<rows, configRows, summary>>
bench == <<ladder, points, step>>

Uses(cf, f) == f \in cf.features
NoPoints == [s \in {} |-> None]

\* The k-th smallest number of a set, and what a sequence has at a set of its
\* positions, in their order.
Nth(S, k) == CHOOSE n \in S : Cardinality({m \in S : m <= n}) = k
Kept(s, S) == [k \in 1..Cardinality(S) |-> s[Nth(S, k)]]

\* preflight picks, for every feature, the first config of the grid that uses
\* it, before any config is dropped.
Checks(g) ==
  LET Users(f) == {n \in DOMAIN g : Uses(g[n], f)}
      used == Kept(Feature, {k \in DOMAIN Feature : Users(Feature[k]) # {}})
  IN [k \in DOMAIN used |-> [feature |-> used[k], config |-> g[Min(Users(used[k]))]]]

Init ==
  /\ args \in [mode : Modes, rule : Rules]
  /\ broken \in SUBSET Range(Feature)
  /\ grid \in Grids
  /\ checks \in {Checks(grid), <<>>}   \* <<>> under --skip-preflight
  /\ pc = "preflight"
  /\ current = 1
  /\ running = {}
  /\ ladder = NoPoints
  /\ points = NoPoints
  /\ step = 1
  /\ rows = <<>>
  /\ configRows = <<>>
  /\ summary = None
  /\ io = <<>>
  /\ disk = [f \in Files |-> None]
-----------------------------------------------------------------------------
(***************************************************************************)
(* stop_index.                                                             *)
(***************************************************************************)

\* auto uses sol90 as soon as one of the points it is shown has ceilings.
RuleUsed(pts, rule) ==
  IF rule # "auto" THEN rule
  ELSE IF \E s \in DOMAIN pts : pts[s].ceilings THEN "sol90" ELSE "plateau"

\* The throughput grew by less than MinGain percent since the measured point
\* before.
Flat(pts, s) ==
  LET before == {t \in DOMAIN pts : t < s}
  IN before # {} /\ LET prev == pts[Max(before)].tps
                    IN prev > 0 /\ 100 * (pts[s].tps - prev) < MinGain * prev

Fires(pts, rule, s) ==
  \/ rule = "sol90" /\ pts[s].ceilings /\ pts[s].reached
  \/ rule = "plateau" /\ Flat(pts, s)

\* The first step where the rule fires, 0 when it never does.
StopIndex(pts, rule) ==
  LET fired == {s \in DOMAIN pts : Fires(pts, RuleUsed(pts, rule), s)}
  IN IF fired = {} THEN 0 ELSE Min(fired)
-----------------------------------------------------------------------------
(***************************************************************************)
(* start_servers, for a preflight check or for the config in hand.         *)
(***************************************************************************)

Booting == pc = "start" \/ (pc = "preflight" /\ checks # <<>>)
Config == IF pc = "preflight" THEN Head(checks).config ELSE grid[current]
Launched == running \ {Collector}
CanStart == Config.features \cap broken = {}

\* docker run -d of the next replica.  One that starts a container and fails all
\* the same leaves it out of reps, and so out of running.
Launch ==
  /\ Booting
  /\ Cardinality(Launched) < Config.replicas
  /\ running' = running \cup {Cardinality(Launched) + 1}
  /\ UNCHANGED <<inputs, grid, checks, pc, current, bench, results, io, disk>>

\* Every replica is healthy: the preflight is satisfied with the feature and
\* stops them.
CheckPasses ==
  /\ Booting /\ pc = "preflight"
  /\ Cardinality(Launched) = Config.replicas
  /\ CanStart
  /\ running' = {}
  /\ checks' = Tail(checks)
  /\ UNCHANGED <<inputs, grid, pc, current, bench, results, io, disk>>

\* docker run fails, a container dies or its health check times out:
\* start_servers removes the replicas and raises, and the preflight drops
\* every config that uses the feature it was checking.
CheckFails ==
  /\ Booting /\ pc = "preflight"
  /\ running' = {}
  /\ grid' = Kept(grid, {n \in DOMAIN grid : ~Uses(grid[n], Head(checks).feature)})
  /\ checks' = Tail(checks)
  /\ UNCHANGED <<inputs, pc, current, bench, results, io, disk>>

PreflightEnds ==
  /\ pc = "preflight" /\ checks = <<>>
  /\ pc' = "next"
  /\ UNCHANGED <<inputs, grid, checks, current, running, bench, results, io, disk>>
-----------------------------------------------------------------------------
(***************************************************************************)
(* main: one config.                                                       *)
(***************************************************************************)

\* The collector is started before the servers.
BeginConfig ==
  /\ pc = "next" /\ current <= Len(grid)
  /\ pc' = "start"
  /\ running' = {Collector}
  /\ UNCHANGED <<inputs, grid, checks, current, bench, results, io, disk>>

\* The steps of the ladder a config measures: those with a request for every
\* replica.
Measurable(cf) == {s \in DOMAIN Ladder : Ladder[s] >= cf.replicas}

ServersUp ==
  /\ pc = "start"
  /\ Cardinality(Launched) = Config.replicas
  /\ CanStart
  /\ pc' = "ladder"
  /\ ladder' \in [Measurable(Config) -> Point]
  /\ points' = NoPoints
  /\ step' = 1
  /\ UNCHANGED <<inputs, grid, checks, current, running, results, io, disk>>

\* Mutant: the containers of a failed boot stay.
ServersFail_KeepsContainers ==
  /\ pc = "start"
  /\ running' = running \ {Collector}
  /\ configRows' = Append(configRows, [config |-> current, status |-> "server_failed"])
  /\ current' = current + 1
  /\ pc' = "next"
  /\ UNCHANGED <<inputs, grid, checks, bench, rows, summary, io, disk>>

\* The config is recorded as server_failed and left with continue, past the
\* accounting and write_outputs.
ServersFail ==
  /\ pc = "start"
  /\ running' = {}
  /\ configRows' = Append(configRows, [config |-> current, status |-> "server_failed"])
  /\ current' = current + 1
  /\ pc' = "next"
  /\ UNCHANGED <<inputs, grid, checks, bench, rows, summary, io, disk>>

\* Live mode breaks out of the ladder when the rule fires on what it has.
LiveStops(pts) ==
  /\ args.mode = "live" /\ args.rule # "off"
  /\ StopIndex(pts, args.rule) # 0

\* Mutant: the rule is asked before the new point is appended.
Measure_StopsLate ==
  /\ pc = "ladder"
  /\ points' = IF step \in DOMAIN ladder
                 THEN [s \in DOMAIN points \cup {step} |-> ladder[s]] ELSE points
  /\ step' = step + 1
  /\ IF step = Len(Ladder) \/ (step \in DOMAIN ladder /\ LiveStops(points))
       THEN pc' = "ok" /\ running' = {}
       ELSE UNCHANGED <<pc, running>>
  /\ UNCHANGED <<inputs, grid, checks, current, ladder, results, io, disk>>

\* bench_point at one step, None below the replica count.  At the end of the
\* ladder, or where live mode breaks, the servers and the collector are stopped.
Measure ==
  /\ pc = "ladder"
  /\ points' = IF step \in DOMAIN ladder
                 THEN [s \in DOMAIN points \cup {step} |-> ladder[s]] ELSE points
  /\ step' = step + 1
  /\ IF step = Len(Ladder) \/ (step \in DOMAIN ladder /\ LiveStops(points'))
       THEN pc' = "ok" /\ running' = {}
       ELSE UNCHANGED <<pc, running>>
  /\ UNCHANGED <<inputs, grid, checks, current, ladder, results, io, disk>>

\* A bench fails or times out: the rest of the ladder is skipped.
BenchFails ==
  /\ pc = "ladder" /\ step \in DOMAIN ladder
  /\ pc' = "bench_failed"
  /\ running' = {}
  /\ UNCHANGED <<inputs, grid, checks, current, bench, results, io, disk>>
-----------------------------------------------------------------------------
(***************************************************************************)
(* main: the accounting of a config, summarize and write_outputs.          *)
(***************************************************************************)

\* The first of S with the largest value, as Python's max.
FirstBest(S, value(_)) == Min({n \in S : \A m \in S : value(m) <= value(n)})

BestOf(pts) == Max({0} \cup {pts[s].tps : s \in DOMAIN pts})

\* A config's id starts with its place in the grid.
Rows(id, pts, stop) ==
  [k \in 1..Cardinality(DOMAIN pts) |->
    LET s == Nth(DOMAIN pts, k)
    IN [config |-> id, step |-> s, tps |-> pts[s].tps, pruned |-> stop # 0 /\ s > stop]]

\* Replay prunes the points it measured after the stop, live the steps it did
\* not run.
PrunedPoints(pts, stop) ==
  IF stop = 0 THEN 0
  ELSE IF args.mode = "replay" THEN Cardinality({s \in DOMAIN pts : s > stop})
  ELSE Len(Ladder) - stop

ConfigRow(id, status, pts, stop) ==
  [config |-> id, status |-> status, rule |-> RuleUsed(pts, args.rule), stop |-> stop,
   measured |-> Cardinality(DOMAIN pts), pruned |-> PrunedPoints(pts, stop),
   best |-> BestOf(pts)]

Ok(crows) == {n \in DOMAIN crows : crows[n].status = "ok"}
MeasuredIn(crows) == SumFunctionOnSet([n \in Ok(crows) |-> crows[n].measured], Ok(crows))
PrunedIn(crows) == SumFunctionOnSet([n \in Ok(crows) |-> crows[n].pruned], Ok(crows))

Summary(rws, crows) ==
  LET ok == Ok(crows)
      kept == {k \in DOMAIN rws : ~rws[k].pruned}
  IN [configs |-> Cardinality(ok), failed |-> Len(crows) - Cardinality(ok),
      measured |-> MeasuredIn(crows), pruned |-> PrunedIn(crows),
      winnerFull |-> IF ok = {} THEN None
                     ELSE crows[FirstBest(ok, LAMBDA n : crows[n].best)].config,
      winnerPruned |-> IF kept = {} THEN None
                       ELSE rws[FirstBest(kept, LAMBDA k : rws[k].tps)].config]

WriteOutputs == <<[op |-> "open", file |-> "sweep.csv"], [op |-> "write", file |-> "sweep.csv"],
                  [op |-> "open", file |-> "configs.csv"], [op |-> "write", file |-> "configs.csv"],
                  [op |-> "open", file |-> "summary.json"], [op |-> "write", file |-> "summary.json"]>>

\* Mutant: the summary is made before the config's row is appended.
Account_StaleSummary ==
  /\ pc \in {"ok", "bench_failed"}
  /\ LET stop == StopIndex(points, args.rule)
     IN /\ rows' = rows \o Rows(current, points, stop)
        /\ configRows' = Append(configRows, ConfigRow(current, pc, points, stop))
        /\ summary' = Summary(rows', configRows)
  /\ io' = WriteOutputs
  /\ pc' = "write"
  /\ UNCHANGED <<inputs, grid, checks, current, running, bench, disk>>

\* The stop rule is evaluated again on all that was measured.
Account ==
  /\ pc \in {"ok", "bench_failed"}
  /\ LET stop == StopIndex(points, args.rule)
     IN /\ rows' = rows \o Rows(current, points, stop)
        /\ configRows' = Append(configRows, ConfigRow(current, pc, points, stop))
        /\ summary' = Summary(rows', configRows')
  /\ io' = WriteOutputs
  /\ pc' = "write"
  /\ UNCHANGED <<inputs, grid, checks, current, running, bench, disk>>

Content(f) == CASE f = "sweep.csv" -> rows
                [] f = "configs.csv" -> configRows
                [] f = "summary.json" -> summary

\* Mutant: main takes the next config before the last file is written.
WriteStep_SkipsLast ==
  /\ pc = "write"
  /\ LET next == Head(io)
     IN disk' = [disk EXCEPT ![next.file] =
                   IF next.op = "open" THEN <<>> ELSE Content(next.file)]
  /\ io' = Tail(io)
  /\ IF Len(io') = 1 THEN pc' = "next" /\ current' = current + 1
                      ELSE UNCHANGED <<pc, current>>
  /\ UNCHANGED <<inputs, grid, checks, running, bench, results>>

\* open(..., "w") truncates the file; what is written reaches it when it is
\* closed.  After the last file main takes the next config.
WriteStep ==
  /\ pc = "write"
  /\ LET next == Head(io)
     IN disk' = [disk EXCEPT ![next.file] =
                   IF next.op = "open" THEN <<>> ELSE Content(next.file)]
  /\ io' = Tail(io)
  /\ IF io' = <<>> THEN pc' = "next" /\ current' = current + 1
                   ELSE UNCHANGED <<pc, current>>
  /\ UNCHANGED <<inputs, grid, checks, running, bench, results>>

\* The summary is printed; it is an unbound name when no config was accounted.
Finish ==
  /\ pc = "next" /\ current > Len(grid)
  /\ pc' = IF summary = None THEN "raised" ELSE "done"
  /\ UNCHANGED <<inputs, grid, checks, current, running, bench, results, io, disk>>

\* The process ends in the middle: killed, interrupted, or by an exception
\* main does not catch, past which the finally stops the servers.
Crash ==
  /\ pc \notin {"done", "raised", "crashed"}
  /\ pc' = "crashed"
  /\ running' \in {running, {}}
  /\ rows' = <<>> /\ configRows' = <<>> /\ summary' = None /\ io' = <<>>
  /\ ladder' = NoPoints /\ points' = NoPoints /\ step' = 1
  /\ UNCHANGED <<inputs, grid, checks, current, disk>>

Next ==
  \/ Launch \/ CheckPasses \/ CheckFails \/ PreflightEnds
  \/ BeginConfig \/ ServersUp \/ ServersFail \/ Measure \/ BenchFails
  \/ Account \/ WriteStep \/ Finish \/ Crash

Spec == Init /\ [][Next]_vars
-----------------------------------------------------------------------------
Container == UNION {1..cf.replicas : cf \in UNION {Range(g) : g \in Grids}}

\* TypeOK: one type invariant; the points measured are always a prefix of what
\* the ladder would give, and main's place agrees with what is left to write.
TypeOK ==
  /\ args \in [mode : Modes, rule : Rules]
  /\ broken \subseteq Range(Feature)
  /\ pc \in {"preflight", "next", "start", "ladder", "ok", "bench_failed", "write",
             "done", "raised", "crashed"}
  /\ running \subseteq Container \cup {Collector}
  /\ \A s \in DOMAIN points : s < step /\ points[s] = ladder[s]
  /\ step \in 1..(Len(Ladder) + 1)
  /\ current \in 1..(Len(grid) + 1)
  /\ pc = "write" <=> io # <<>>
  /\ pc \in {"start", "ladder", "ok", "bench_failed", "write"} => current <= Len(grid)

\* GpusFree: whenever the harness is between two configs, writes its files or
\* has ended, no replica it started for an earlier config still holds the GPUs
\* and its collector is gone, however the config went (start_servers, the
\* finally of the ladder).
GpusFree == pc \in {"next", "ok", "bench_failed", "write", "done", "raised"} => running = {}

LastConfig == Last(configRows)

\* LiveMatchesReplay: for a config that was measured without a failure, and any
\* rule but auto, which live mode chooses from the points so far, live mode
\* stopped at the step where the rule fires on the whole ladder, ran the points
\* replay would keep and saved the points replay would prune ("its cost should
\* match replay's prediction").
LiveMatchesReplay ==
  (pc = "write" /\ args.mode = "live" /\ args.rule # "auto" /\ LastConfig.status = "ok") =>
    LET stop == StopIndex(ladder, args.rule)
    IN /\ LastConfig.stop = stop
       /\ DOMAIN points = {s \in DOMAIN ladder : stop = 0 \/ s <= stop}
       /\ LastConfig.pruned = Cardinality(DOMAIN ladder \ DOMAIN points)

RowsOf(ids, s) == {k \in DOMAIN s : s[k].config \in ids}
PrunedOf(s) == {k \in DOMAIN s : s[k].pruned}

\* FilesAgree: between two configs the three files tell one story.  sweep.csv
\* has, for every config of configs.csv that was measured, as many rows as it
\* counts points, marked pruned as often as it says in replay and never in
\* live; the totals of summary.json are those of the configs that are ok; and
\* configs.csv lacks only configs whose servers failed after the last one that
\* was accounted.
FilesAgree ==
  (pc \in {"next", "done"} /\ summary # None) =>
    LET swp == disk["sweep.csv"]
        cfs == disk["configs.csv"]
        smm == disk["summary.json"]
        ok == {cfs[n].config : n \in Ok(cfs)}
    IN /\ \A n \in DOMAIN cfs : cfs[n].status # "server_failed" =>
            LET mine == RowsOf({cfs[n].config}, swp)
            IN /\ Cardinality(mine) = cfs[n].measured
               /\ Cardinality(mine \cap PrunedOf(swp)) =
                    IF args.mode = "replay" THEN cfs[n].pruned ELSE 0
       /\ smm.measured = Cardinality(RowsOf(ok, swp))
       /\ args.mode = "replay" => smm.pruned = Cardinality(RowsOf(ok, swp) \cap PrunedOf(swp))
       /\ smm.configs + smm.failed = Len(cfs)
       /\ IsPrefix(cfs, configRows)
       /\ \A n \in DOMAIN configRows \ DOMAIN cfs : configRows[n].status = "server_failed"
=============================================================================
