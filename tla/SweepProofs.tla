------------------------------ MODULE SweepProofs ------------------------------
(***************************************************************************)
(* Theorems about the sweep harness, for every grid, ladder, set of modes  *)
(* and rules, and every measurement: its type invariant, that no container *)
(* outlives its config, that live mode stops where replay says it would,   *)
(* and that the three output files tell one story.                         *)
(***************************************************************************)
EXTENDS Sweep, SumLemmas, SequenceTheorems

(***************************************************************************)
(* Sets of numbers.                                                        *)
(***************************************************************************)

LEMMA MinIsLeast ==
  ASSUME NEW S \in SUBSET Nat, S # {}
  PROVE  Min(S) \in S /\ \A y \in S : Min(S) <= y
  <1>1. PICK x \in S : \A y \in S : x <= y
    BY HasLeast
  <1> QED BY <1>1 DEF Min

LEMMA MaxIsGreatest ==
  ASSUME NEW S \in SUBSET Nat, S # {}, NEW b \in Nat, \A x \in S : x <= b
  PROVE  Max(S) \in S /\ \A y \in S : y <= Max(S)
  <1> DEFINE U == {n \in Nat : \A x \in S : x <= n}
  <1>1. U \in SUBSET Nat /\ U # {}
    OBVIOUS
  <1>2. Min(U) \in U /\ \A y \in U : Min(U) <= y
    <2> HIDE DEF U
    <2> QED BY <1>1, MinIsLeast
  <1>3. PICK m \in U : \A y \in U : m <= y
    BY <1>2
  <1>4. m \in S
    <2> SUFFICES ASSUME m \notin S PROVE FALSE
      OBVIOUS
    <2>1. PICK x \in S : TRUE
      OBVIOUS
    <2>2. m \in Nat /\ x \in Nat /\ x <= m /\ x # m
      BY <2>1
    <2>3. m - 1 \in Nat
      BY <2>2
    <2>4. \A y \in S : y <= m - 1
      BY <2>2
    <2>5. m - 1 \in U
      BY <2>3, <2>4
    <2> QED BY <1>3, <2>2, <2>5
  <1>5. \E x \in S : \A y \in S : x >= y
    BY <1>4
  <1> QED BY <1>5 DEF Max

\* The rank of a number in a set: how many of its members are not greater.
Rank(S, n) == Cardinality({m \in S : m <= n})

LEMMA RankType ==
  ASSUME NEW S \in SUBSET Nat, IsFiniteSet(S), NEW n \in S
  PROVE  Rank(S, n) \in 1..Cardinality(S)
  <1> DEFINE T == {m \in S : m <= n}
  <1>1. T \in SUBSET S /\ n \in T
    OBVIOUS
  <1> HIDE DEF T
  <1>2. IsFiniteSet(T) /\ Cardinality(T) <= Cardinality(S)
    BY <1>1, FS_Subset
  <1>3. Cardinality(T) \in Nat /\ Cardinality(S) \in Nat /\ Cardinality(T) # 0
    BY <1>1, <1>2, FS_CardinalityType, FS_EmptySet
  <1>4. Cardinality(T) \in 1..Cardinality(S)
    BY <1>2, <1>3
  <1> QED BY <1>4 DEF T, Rank

LEMMA RankGrows ==
  ASSUME NEW S \in SUBSET Nat, IsFiniteSet(S), NEW n \in S, NEW k \in S, n < k
  PROVE  Rank(S, n) < Rank(S, k)
  <1> DEFINE T == {m \in S : m <= n}
             V == {m \in S : m <= k}
  <1>0. n \in Nat /\ k \in Nat /\ \A m \in S : m \in Nat /\ (m <= n => m <= k)
    OBVIOUS
  <1>1. T \in SUBSET V /\ V \in SUBSET S /\ k \in V /\ k \notin T
    <2>1. T \subseteq V
      BY <1>0
    <2>2. V \subseteq S
      OBVIOUS
    <2>3. k \in V /\ k \notin T
      BY <1>0
    <2> QED BY <2>1, <2>2, <2>3
  <1> HIDE DEF T, V
  <1>2. IsFiniteSet(V)
    BY <1>1, FS_Subset
  <1>3. IsFiniteSet(T) /\ Cardinality(T) <= Cardinality(V) /\ Cardinality(V) # Cardinality(T)
    BY <1>1, <1>2, FS_Subset
  <1>4. Cardinality(T) \in Nat /\ Cardinality(V) \in Nat
    BY <1>2, <1>3, FS_CardinalityType
  <1>5. Cardinality(T) < Cardinality(V)
    BY <1>3, <1>4
  <1> QED BY <1>5 DEF T, V, Rank

\* Every rank is taken, once.
Ranks(S) == [n \in S |-> Rank(S, n)]

LEMMA RanksBijection ==
  ASSUME NEW S \in SUBSET Nat, IsFiniteSet(S)
  PROVE  Ranks(S) \in Bijection(S, 1..Cardinality(S))
  <1> DEFINE f == Ranks(S)
             K == 1..Cardinality(S)
  <1>0. Cardinality(S) \in Nat
    BY FS_CardinalityType
  <1>1. \A n, k \in S : f[n] = f[k] => n = k
    <2> SUFFICES ASSUME NEW n \in S, NEW k \in S, f[n] = f[k] PROVE n = k
      OBVIOUS
    <2>1. Rank(S, n) \in Nat /\ Rank(S, k) \in Nat
      BY <1>0, RankType
    <2>2. Rank(S, n) = Rank(S, k)
      BY DEF Ranks
    <2>3. ~(n < k) /\ ~(k < n)
      BY <2>1, <2>2, RankGrows
    <2> QED BY <2>3
  <1>2. f \in [S -> K]
    BY RankType DEF Ranks
  <1>3. f \in Injection(S, K)
    <2> HIDE DEF f, K
    <2> QED BY <1>1, <1>2 DEF Injection, IsInjective
  <1>4. IsFiniteSet(K) /\ Cardinality(K) = Cardinality(S)
    BY <1>0, FS_Interval
  <1>5. f \in Surjection(S, K)
    <2> HIDE DEF f, K
    <2> QED BY <1>3, <1>4, FS_Injection
  <1> QED BY <1>3, <1>5 DEF Bijection

LEMMA NthIsMember ==
  ASSUME NEW S \in SUBSET Nat, IsFiniteSet(S), NEW k \in 1..Cardinality(S)
  PROVE  Nth(S, k) \in S /\ Rank(S, Nth(S, k)) = k
  <1>1. \A j \in 1..Cardinality(S) : \E n \in S : Ranks(S)[n] = j
    BY RanksBijection DEF Bijection, Surjection
  <1>2. \E n \in S : Rank(S, n) = k
    BY <1>1 DEF Ranks
  <1> QED BY <1>2 DEF Nth, Rank

LEMMA NthOfRank ==
  ASSUME NEW S \in SUBSET Nat, IsFiniteSet(S), NEW n \in S
  PROVE  Rank(S, n) \in 1..Cardinality(S) /\ Nth(S, Rank(S, n)) = n
  <1> DEFINE k == Rank(S, n)
  <1>1. k \in 1..Cardinality(S)
    BY RankType
  <1>2. Nth(S, k) \in S /\ Rank(S, Nth(S, k)) = k
    <2> HIDE DEF k
    <2> QED BY <1>1, NthIsMember
  <1>3. \A m, l \in S : Rank(S, m) = Rank(S, l) => m = l
    BY RanksBijection DEF Bijection, Injection, IsInjective, Ranks
  <1> QED BY <1>1, <1>2, <1>3

\* What is kept of a sequence is a sequence of its members.
LEMMA KeptType ==
  ASSUME NEW V, NEW s \in Seq(V), NEW S \in SUBSET (DOMAIN s)
  PROVE  /\ Kept(s, S) \in Seq(V) /\ Len(Kept(s, S)) = Cardinality(S)
         /\ \A k \in DOMAIN Kept(s, S) : \E n \in S : Kept(s, S)[k] = s[n]
  <1>1. S \in SUBSET Nat /\ IsFiniteSet(S)
    <2>1. DOMAIN s = 1..Len(s) /\ Len(s) \in Nat
      OBVIOUS
    <2>2. IsFiniteSet(DOMAIN s)
      BY <2>1, FS_Interval
    <2> QED BY <2>1, <2>2, FS_Subset
  <1>2. Cardinality(S) \in Nat
    BY <1>1, FS_CardinalityType
  <1>3. \A k \in 1..Cardinality(S) : Nth(S, k) \in S
    BY <1>1, NthIsMember
  <1>4. \A k \in 1..Cardinality(S) : s[Nth(S, k)] \in V
    BY <1>3
  <1> QED BY <1>2, <1>3, <1>4 DEF Kept
-----------------------------------------------------------------------------
(***************************************************************************)
(* The inductive invariant.                                                *)
(***************************************************************************)
GridConfig == UNION {Range(g) : g \in Grids}
Check == [feature : Range(Feature), config : GridConfig]

TypeInv ==
  /\ TypeOK
  /\ grid \in Seq(GridConfig)
  /\ checks \in Seq(Check)
  /\ DOMAIN disk = Files
  /\ pc = "preflight" => current = 1 /\ summary = None

\* Containers are launched in their order, none before the boot begins.
RunningInv ==
  /\ Booting => \E k \in 0..Config.replicas : Launched = 1..k
  /\ pc = "preflight" /\ checks = <<>> => running = {}
  /\ GpusFree

Benched == pc \in {"ladder", "ok", "bench_failed", "write"}
Stop == StopIndex(points, args.rule)

\* What was measured is the part of the ladder before the step in hand.
BenchInv ==
  /\ Benched => /\ ladder \in [Measurable(grid[current]) -> Point]
                /\ points = [s \in {t \in DOMAIN ladder : t < step} |-> ladder[s]]
  /\ pc = "ladder" => step <= Len(Ladder)

\* Live mode: the rule has not fired yet, or it did at the last point.
LiveInv ==
  args.mode = "live" =>
    /\ pc = "ladder" => Stop = 0
    /\ pc \in {"ok", "bench_failed"} => Stop = 0 \/ \A s \in DOMAIN points : s <= Stop
    /\ pc = "ok" => Stop # 0 \/ step = Len(Ladder) + 1

\* One row of configs.csv for every config taken, as many of sweep.csv as it
\* counts.
Booked(n) ==
  /\ configRows[n].config = n
  /\ configRows[n].status \in {"ok", "bench_failed", "server_failed"}
  /\ configRows[n].status # "server_failed" =>
       /\ Cardinality(RowsOf({n}, rows)) = configRows[n].measured
       /\ configRows[n].pruned \in Nat
       /\ Cardinality(RowsOf({n}, rows) \cap PrunedOf(rows)) =
            IF args.mode = "replay" THEN configRows[n].pruned ELSE 0

AccountsInv ==
  /\ rows \in Seq(Range(rows)) /\ configRows \in Seq(Range(configRows))
  /\ pc # "crashed" => Len(configRows) = IF pc = "write" THEN current ELSE current - 1
  /\ \A n \in DOMAIN configRows : Booked(n)
  /\ \A k \in DOMAIN rows : rows[k].config \in DOMAIN configRows
  /\ MeasuredIn(configRows) = Cardinality(RowsOf(Ok(configRows), rows))
  /\ args.mode = "replay" =>
       PrunedIn(configRows) = Cardinality(RowsOf(Ok(configRows), rows) \cap PrunedOf(rows))

\* The files hold what the last config that was accounted made of them; while
\* they are written, those whose turn is over do.
Written ==
  /\ disk["sweep.csv"] = rows
  /\ \E m \in 0..Len(configRows) :
       /\ disk["configs.csv"] = SubSeq(configRows, 1, m)
       /\ \A n \in (m + 1)..Len(configRows) : configRows[n].status = "server_failed"
  /\ disk["summary.json"] = summary
  /\ summary = Summary(rows, disk["configs.csv"])

FilesInv ==
  /\ pc \notin {"write", "crashed"} /\ summary # None => Written
  /\ pc = "write" =>
       /\ summary = Summary(rows, configRows)
       /\ io \in Seq(Range(io)) /\ Len(io) \in 1..6
       /\ \A k \in 1..Len(io) : io[k] = WriteOutputs[6 - Len(io) + k]
       /\ Len(io) <= 4 => disk["sweep.csv"] = rows
       /\ Len(io) <= 2 => disk["configs.csv"] = configRows

IInv == TypeInv /\ RunningInv /\ BenchInv /\ LiveInv /\ AccountsInv /\ FilesInv /\ LiveMatchesReplay
-----------------------------------------------------------------------------
(***************************************************************************)
(* The initial states, and the configs at hand.                            *)
(***************************************************************************)

ConfigRecord == [replicas : Nat \ {0}, features : SUBSET Range(Feature)]

LEMMA GridConfigType ==
  /\ \A cf \in GridConfig : cf.replicas \in Nat \ {0} /\ cf.features \subseteq Range(Feature)
  /\ \A cf \in GridConfig : 1..cf.replicas \subseteq Container
  /\ \A g \in Grids : g \in Seq(GridConfig)
  <1>1. \A g \in Grids : g \in Seq(ConfigRecord)
    BY SweepAssumption DEF ConfigRecord
  <1>2. GridConfig \subseteq ConfigRecord
    <2> SUFFICES ASSUME NEW g \in Grids, NEW n \in DOMAIN g
                 PROVE  g[n] \in ConfigRecord
      BY DEF GridConfig, Range
    <2> QED BY <1>1
  <1>3. \A g \in Grids : g \in Seq(GridConfig)
    <2> SUFFICES ASSUME NEW g \in Grids PROVE g \in Seq(GridConfig)
      OBVIOUS
    <2>1. \A n \in DOMAIN g : g[n] \in GridConfig
      BY DEF GridConfig, Range
    <2> QED BY <1>1, <2>1
  <1> QED BY <1>2, <1>3 DEF Container, GridConfig, ConfigRecord

LEMMA ChecksType ==
  ASSUME NEW g \in Seq(GridConfig)
  PROVE  Checks(g) \in Seq(Check)
  <1> DEFINE Users(f) == {n \in DOMAIN g : Uses(g[n], f)}
             S == {k \in DOMAIN Feature : Users(Feature[k]) # {}}
             used == Kept(Feature, S)
  <1>1. Feature \in Seq(Range(Feature)) /\ S \in SUBSET DOMAIN Feature
    BY SweepAssumption
  <1>2. /\ used \in Seq(Range(Feature))
        /\ \A k \in DOMAIN used : \E n \in S : used[k] = Feature[n]
    <2> HIDE DEF S
    <2> QED BY <1>1, KeptType
  <1>3. \A k \in DOMAIN used : g[Min(Users(used[k]))] \in GridConfig
    <2> SUFFICES ASSUME NEW k \in DOMAIN used PROVE g[Min(Users(used[k]))] \in GridConfig
      OBVIOUS
    <2>1. PICK n \in S : used[k] = Feature[n]
      BY <1>2
    <2> HIDE DEF used
    <2>2. Users(used[k]) # {} /\ Users(used[k]) \subseteq DOMAIN g
      BY <2>1
    <2>3. DOMAIN g \subseteq Nat
      OBVIOUS
    <2>4. Min(Users(used[k])) \in Users(used[k])
      <3> HIDE DEF Users
      <3> QED BY <2>2, <2>3, MinIsLeast
    <2> QED BY <2>4
  <1>4. Checks(g) = [k \in DOMAIN used |-> [feature |-> used[k], config |-> g[Min(Users(used[k]))]]]
    BY DEF Checks
  <1>5. \A k \in DOMAIN used : used[k] \in Range(Feature)
    BY <1>2
  <1> HIDE DEF used, Users
  <1>6. \A k \in DOMAIN used : [feature |-> used[k], config |-> g[Min(Users(used[k]))]] \in Check
    BY <1>3, <1>5 DEF Check
  <1>7. DOMAIN used = 1..Len(used) /\ Len(used) \in Nat
    BY <1>2
  <1> HIDE DEF Check
  <1> QED BY <1>4, <1>6, <1>7

NothingBooked == rows = <<>> /\ configRows = <<>>

LEMMA NoAccounts ==
  (NothingBooked /\ (pc = "crashed" \/ (pc # "write" /\ current = 1))) => AccountsInv
  <1> SUFFICES ASSUME rows = <<>>, configRows = <<>>, pc # "crashed" => pc # "write" /\ current = 1
               PROVE  AccountsInv
    BY DEF NothingBooked
  <1>1. Ok(configRows) = {}
    BY DEF Ok
  <1>2. RowsOf({}, rows) = {}
    BY DEF RowsOf
  <1>3. MeasuredIn(configRows) = 0 /\ PrunedIn(configRows) = 0
    BY <1>1, SumOfNone DEF MeasuredIn, PrunedIn
  <1>4. Cardinality({}) = 0 /\ {} \cap PrunedOf(rows) = {}
    BY FS_EmptySet
  <1>5. /\ Cardinality(RowsOf(Ok(configRows), rows)) = 0
        /\ Cardinality(RowsOf(Ok(configRows), rows) \cap PrunedOf(rows)) = 0
    BY <1>1, <1>2, <1>4
  <1>6. /\ rows \in Seq(Range(rows)) /\ configRows \in Seq(Range(configRows))
        /\ DOMAIN configRows = {} /\ DOMAIN rows = {}
        /\ Len(configRows) = 0
        /\ pc # "crashed" => pc # "write" /\ current = 1
    OBVIOUS
  <1> QED BY ONLY <1>3, <1>5, <1>6 DEF AccountsInv

LEMMA InitInv == ASSUME Init PROVE IInv
  <1> USE DEF Init
  <1>1. grid \in Seq(GridConfig)
    BY GridConfigType
  <1>2. checks \in Seq(Check)
    <2>1. checks = Checks(grid) \/ checks = <<>>
      OBVIOUS
    <2>2. Checks(grid) \in Seq(Check)
      BY <1>1, ChecksType
    <2>3. <<>> \in Seq(Check)
      OBVIOUS
    <2> QED BY ONLY <2>1, <2>2, <2>3
  <1>3. TypeInv
    BY <1>1, <1>2, SweepAssumption DEF TypeInv, TypeOK, NoPoints
  <1>4. RunningInv
    <2>1. Launched = 1..0
      BY DEF Launched
    <2>2. Booting => Config.replicas \in Nat
      <3> SUFFICES ASSUME Booting PROVE Config.replicas \in Nat
        OBVIOUS
      <3>1. checks # <<>> /\ Config = Head(checks).config
        BY DEF Booting, Config
      <3>2. Head(checks) \in Check
        BY <1>2, <3>1
      <3> QED BY <3>1, <3>2, GridConfigType DEF Check
    <2>3. Booting => 0 \in 0..Config.replicas
      BY <2>2
    <2> QED BY <2>1, <2>3 DEF RunningInv, GpusFree
  <1>5. BenchInv /\ LiveInv /\ FilesInv /\ LiveMatchesReplay
    BY DEF BenchInv, Benched, LiveInv, FilesInv, LiveMatchesReplay
  <1>6. AccountsInv
    BY NoAccounts DEF NothingBooked
  <1> QED BY <1>3, <1>4, <1>5, <1>6 DEF IInv

\* The config of a boot, or of a bench, is one of a grid.
LEMMA ConfigIsOfGrid ==
  ASSUME TypeInv
  PROVE  /\ Booting => Config \in GridConfig
         /\ Benched => grid[current] \in GridConfig
  <1>1. pc \in {"start", "ladder", "ok", "bench_failed", "write"} => grid[current] \in GridConfig
    BY DEF TypeInv, TypeOK
  <1>2. checks # <<>> => Head(checks).config \in GridConfig
    <2> SUFFICES ASSUME TypeInv, checks # <<>> PROVE Head(checks).config \in GridConfig
      OBVIOUS
    <2>1. Head(checks) \in Check
      BY DEF TypeInv
    <2> QED BY <2>1 DEF Check
  <1> QED BY <1>1, <1>2 DEF Booting, Config, Benched

\* Whoever boots has launched as many containers as there are, numbered from 1.
LEMMA LaunchedCount ==
  ASSUME TypeInv, RunningInv, Booting
  PROVE  /\ Cardinality(Launched) \in 0..Config.replicas /\ Config.replicas \in Nat
         /\ Launched = 1..Cardinality(Launched)
  <1>1. PICK k \in 0..Config.replicas : Launched = 1..k
    BY DEF RunningInv
  <1>2. Config.replicas \in Nat
    BY ConfigIsOfGrid, GridConfigType
  <1>3. Cardinality(1..k) = k
    BY <1>1, <1>2, FS_Interval
  <1> QED BY <1>1, <1>2, <1>3
-----------------------------------------------------------------------------
(***************************************************************************)
(* What every step does to the types and to the containers.                *)
(***************************************************************************)

LEMMA TypeKeeps ==
  ASSUME TypeInv, RunningInv, BenchInv, FilesInv, Next
  PROVE  TypeInv'
  <1> USE DEF inputs, results, bench
  <1>t. TypeOK /\ grid \in Seq(GridConfig) /\ checks \in Seq(Check) /\ DOMAIN disk = Files
    BY DEF TypeInv
  <1>l. Ladder \in Seq(Nat) /\ Len(Ladder) \in Nat /\ Len(Ladder) >= 1
    BY SweepAssumption
  <1>1. CASE Launch
    <2>1. /\ Cardinality(Launched) \in 0..Config.replicas /\ Config.replicas \in Nat
          /\ Booting /\ Cardinality(Launched) < Config.replicas
      BY <1>1, LaunchedCount DEF Launch
    <2>2. Cardinality(Launched) + 1 \in Container
      BY <2>1, ConfigIsOfGrid, GridConfigType
    <2>3. running' \subseteq Container \cup {Collector}
      BY <1>1, <2>2 DEF Launch, TypeInv, TypeOK
    <2> HIDE DEF Container
    <2> QED BY <1>1, <1>t, <2>3 DEF Launch, TypeInv, TypeOK
  <1>2. CASE CheckPasses
    <2>1. checks # <<>>
      BY <1>2 DEF CheckPasses, Booting
    <2> QED BY <1>2, <1>t, <2>1 DEF CheckPasses, TypeInv, TypeOK
  <1>3. CASE CheckFails
    <2>1. checks # <<>> /\ current = 1 /\ pc = "preflight" /\ summary = None
      BY <1>3 DEF CheckFails, Booting, TypeInv
    <2> DEFINE S == {n \in DOMAIN grid : ~Uses(grid[n], Head(checks).feature)}
    <2>2. S \in SUBSET DOMAIN grid /\ grid' = Kept(grid, S)
      BY <1>3 DEF CheckFails
    <2> HIDE DEF S
    <2>3. grid' \in Seq(GridConfig) /\ Len(grid') \in Nat
      BY <1>t, <2>2, KeptType
    <2> QED BY <1>3, <1>t, <2>1, <2>3 DEF CheckFails, TypeInv, TypeOK
  <1>4. CASE PreflightEnds
    BY <1>4, <1>t DEF PreflightEnds, TypeInv, TypeOK
  <1>5. CASE BeginConfig
    BY <1>5, <1>t DEF BeginConfig, TypeInv, TypeOK
  <1>6. CASE ServersUp
    BY <1>6, <1>t, <1>l DEF ServersUp, TypeInv, TypeOK, NoPoints
  <1>7. CASE ServersFail
    BY <1>7, <1>t DEF ServersFail, TypeInv, TypeOK
  <1>8. CASE Measure
    <2>1. step \in 1..Len(Ladder) /\ pc = "ladder" /\ step' = step + 1
      BY <1>8, <1>t, <1>l DEF Measure, BenchInv, TypeOK
    <2>2. step' \in 1..(Len(Ladder) + 1)
      BY <1>l, <2>1
    <2>3. \A s \in DOMAIN points : s \in DOMAIN ladder /\ s < step /\ s \in Int
      <3>1. DOMAIN points = {t \in DOMAIN ladder : t < step} /\ ladder \in [Measurable(grid[current]) -> Point]
        BY <2>1 DEF BenchInv, Benched
      <3>2. Measurable(grid[current]) \subseteq Nat
        BY <1>l DEF Measurable
      <3> QED BY <3>1, <3>2
    <2>4. \A s \in DOMAIN points' : s < step' /\ points'[s] = ladder'[s]
      <3>1. ladder' = ladder
        BY <1>8 DEF Measure
      <3>2. CASE step \in DOMAIN ladder
        <4>1. points' = [s \in DOMAIN points \cup {step} |-> ladder[s]]
          BY <1>8, <3>2 DEF Measure
        <4>2. \A s \in DOMAIN points \cup {step} : s < step + 1
          BY <2>1, <2>3
        <4> QED BY <2>1, <3>1, <4>1, <4>2
      <3>3. CASE step \notin DOMAIN ladder
        <4>1. points' = points
          BY <1>8, <3>3 DEF Measure
        <4>2. \A s \in DOMAIN points : s < step + 1
          BY <2>1, <2>3
        <4>3. \A s \in DOMAIN points : points[s] = ladder[s]
          BY <1>t DEF TypeOK
        <4> QED BY <2>1, <3>1, <4>1, <4>2, <4>3
      <3> QED BY <3>2, <3>3
    <2>5. /\ (pc' = "ok" /\ running' = {}) \/ (pc' = pc /\ running' = running)
          /\ UNCHANGED <<inputs, grid, checks, current, results, io, disk>>
      BY <1>8 DEF Measure
    <2> QED BY <1>t, <2>1, <2>2, <2>4, <2>5 DEF TypeInv, TypeOK
  <1>9. CASE BenchFails
    BY <1>9, <1>t DEF BenchFails, TypeInv, TypeOK
  <1>10. CASE Account
    BY <1>10, <1>t DEF Account, WriteOutputs, TypeInv, TypeOK
  <1>11. CASE WriteStep
    <2>1. pc = "write" /\ io # <<>> /\ io' = Tail(io) /\ current <= Len(grid)
      BY <1>11, <1>t DEF WriteStep, TypeOK
    <2>2. \/ io' = <<>> /\ pc' = "next" /\ current' = current + 1
          \/ io' # <<>> /\ pc' = "write" /\ current' = current
      BY <1>11, <2>1 DEF WriteStep
    <2>3. DOMAIN disk' = Files /\ UNCHANGED <<inputs, grid, checks, running, bench, results>>
      BY <1>11, <1>t DEF WriteStep
    <2>4. current' \in 1..(Len(grid) + 1) /\ (pc' = "write" => current' <= Len(grid))
      BY <1>t, <2>1, <2>2 DEF TypeOK
    <2> QED BY <1>t, <2>2, <2>3, <2>4 DEF TypeInv, TypeOK
  <1>12. CASE Finish
    BY <1>12, <1>t DEF Finish, TypeInv, TypeOK
  <1>13. CASE Crash
    BY <1>13, <1>t, <1>l DEF Crash, TypeInv, TypeOK, NoPoints
  <1> QED BY <1>1, <1>2, <1>3, <1>4, <1>5, <1>6, <1>7, <1>8, <1>9, <1>10, <1>11, <1>12, <1>13
          DEF Next

\* A boot begins with no container launched.
NoneLaunched ==
  /\ Booting => Config.replicas \in Nat
  /\ Launched = {}
  /\ running = {} \/ pc = "start"

LEMMA NoneLaunchedIsFine == NoneLaunched => RunningInv
  <1> SUFFICES ASSUME NoneLaunched PROVE RunningInv
    OBVIOUS
  <1>1. Launched = 1..0
    BY DEF NoneLaunched
  <1>2. Booting => 0 \in 0..Config.replicas
    BY DEF NoneLaunched
  <1> QED BY <1>1, <1>2 DEF RunningInv, NoneLaunched, GpusFree

LEMMA ReplicasAreNumbers == TypeInv => (Booting => Config.replicas \in Nat)
  BY ConfigIsOfGrid, GridConfigType

LEMMA RunningKeeps ==
  ASSUME TypeInv, RunningInv, Next, TypeInv'
  PROVE  RunningInv'
  <1> USE DEF inputs, results, bench
  <1>a. (Booting => Config.replicas \in Nat)'
    BY ReplicasAreNumbers, PTL
  <1>b. running' = {} => RunningInv'
    <2> SUFFICES ASSUME running' = {} PROVE NoneLaunched'
      BY NoneLaunchedIsFine, PTL
    <2> QED BY <1>a DEF NoneLaunched, Launched
  <1>1. CASE Launch
    <2> DEFINE k == Cardinality(Launched)
    <2>1. k \in 0..Config.replicas /\ Config.replicas \in Nat /\ Launched = 1..k
      BY <1>1, LaunchedCount DEF Launch
    <2> HIDE DEF k
    <2>2. k < Config.replicas /\ Booting /\ running' = running \cup {k + 1}
      BY <1>1 DEF Launch, k
    <2>3. Launched' = 1..(k + 1)
      BY <2>1, <2>2 DEF Launched, Collector
    <2>4. Config' = Config /\ pc' = pc /\ checks' = checks
      BY <1>1 DEF Launch, Config
    <2>5. k + 1 \in 0..Config'.replicas
      BY <2>1, <2>2, <2>4
    <2> QED BY <2>2, <2>3, <2>4, <2>5 DEF RunningInv, GpusFree, Booting
  <1>2. CASE CheckPasses \/ CheckFails
    BY <1>2, <1>b DEF CheckPasses, CheckFails
  <1>3. CASE PreflightEnds
    <2>1. running' = {}
      BY <1>3 DEF PreflightEnds, RunningInv
    <2> QED BY <1>b, <2>1
  <1>4. CASE BeginConfig
    <2>1. pc' = "start" /\ Launched' = {}
      BY <1>4 DEF BeginConfig, Launched
    <2>2. NoneLaunched'
      BY <1>a, <2>1 DEF NoneLaunched
    <2> QED BY <2>2, NoneLaunchedIsFine, PTL
  <1>5. CASE ServersUp
    BY <1>5 DEF ServersUp, RunningInv, Booting, GpusFree
  <1>6. CASE ServersFail \/ BenchFails
    BY <1>6, <1>b DEF ServersFail, BenchFails
  <1>7. CASE Measure
    <2>1. running' = {} \/ pc' = "ladder"
      BY <1>7 DEF Measure
    <2> QED BY <1>b, <2>1 DEF RunningInv, Booting, GpusFree
  <1>8. CASE Account \/ WriteStep \/ Finish
    <2>1. running' = {}
      BY <1>8 DEF Account, WriteStep, Finish, RunningInv, GpusFree
    <2> QED BY <1>b, <2>1
  <1>9. CASE Crash
    BY <1>9 DEF Crash, RunningInv, Booting, GpusFree
  <1> QED BY <1>1, <1>2, <1>3, <1>4, <1>5, <1>6, <1>7, <1>8, <1>9 DEF Next
-----------------------------------------------------------------------------
(***************************************************************************)
(* The stop rule.                                                          *)
(***************************************************************************)

\* The first step where the rule fires.
LEMMA StopIndexIs ==
  ASSUME NEW pts, DOMAIN pts \subseteq Nat \ {0}, NEW rule
  PROVE  LET stop == StopIndex(pts, rule)
             fires(s) == Fires(pts, RuleUsed(pts, rule), s)
         IN /\ stop \in Nat
            /\ stop = 0 <=> \A s \in DOMAIN pts : ~fires(s)
            /\ stop # 0 => /\ stop \in DOMAIN pts /\ fires(stop)
                           /\ \A s \in DOMAIN pts : fires(s) => stop <= s
  <1> DEFINE fired == {s \in DOMAIN pts : Fires(pts, RuleUsed(pts, rule), s)}
  <1>1. StopIndex(pts, rule) = IF fired = {} THEN 0 ELSE Min(fired)
    BY DEF StopIndex
  <1>2. fired # {} => Min(fired) \in fired /\ \A y \in fired : Min(fired) <= y
    <2>1. fired \in SUBSET Nat
      OBVIOUS
    <2> HIDE DEF fired
    <2> QED BY <2>1, MinIsLeast
  <1>3. CASE fired = {}
    BY <1>1, <1>3
  <1>4. CASE fired # {}
    <2> DEFINE m == Min(fired)
    <2>1. m \in fired /\ \A y \in fired : m <= y
      BY <1>2, <1>4
    <2>2. StopIndex(pts, rule) = m
      BY <1>1, <1>4
    <2> HIDE DEF m
    <2> QED BY <2>1, <2>2
  <1> QED BY <1>3, <1>4

\* Whether a rule fires at a step depends on what was measured up to there.
LEMMA FiresSame ==
  ASSUME NEW p, NEW q, NEW s \in Nat, s \in DOMAIN p, NEW rule,
         DOMAIN p \subseteq Nat, DOMAIN q \subseteq Nat,
         \A t \in Nat : t <= s => (t \in DOMAIN p <=> t \in DOMAIN q),
         \A t \in DOMAIN p : t <= s => p[t] = q[t]
  PROVE  Fires(p, rule, s) <=> Fires(q, rule, s)
  <1> DEFINE before == {t \in DOMAIN p : t < s}
  <1>1. before = {t \in DOMAIN q : t < s}
    <2>1. \A t \in Nat : t < s => t <= s
      OBVIOUS
    <2> QED BY <2>1
  <1>2. before # {} => Max(before) \in before
    <2>1. before \in SUBSET Nat /\ \A t \in before : t <= s
      OBVIOUS
    <2> HIDE DEF before
    <2> QED BY <2>1, MaxIsGreatest
  <1>3. before # {} => p[Max(before)] = q[Max(before)]
    <2> SUFFICES ASSUME NEW t \in before PROVE p[t] = q[t]
      BY <1>2
    <2>1. t \in Nat /\ t <= s
      OBVIOUS
    <2> QED BY <2>1
  <1>4. p[s] = q[s]
    OBVIOUS
  <1>5. Flat(p, s) = (before # {} /\ LET prev == p[Max(before)].tps
                                   IN prev > 0 /\ 100 * (p[s].tps - prev) < MinGain * prev)
    BY DEF Flat
  <1>6. Flat(q, s) = (before # {} /\ LET prev == q[Max(before)].tps
                                   IN prev > 0 /\ 100 * (q[s].tps - prev) < MinGain * prev)
    BY <1>1 DEF Flat
  <1> HIDE DEF before
  <1>7. Flat(p, s) <=> Flat(q, s)
    BY <1>3, <1>4, <1>5, <1>6
  <1> QED BY <1>4, <1>7 DEF Fires

\* The steps are positions in the ladder; every step after a measured one is
\* measured.
LEMMA MeasuredSteps ==
  ASSUME TypeInv, BenchInv, Benched
  PROVE  /\ ladder \in [DOMAIN ladder -> Point]
         /\ DOMAIN ladder \subseteq 1..Len(Ladder) /\ Len(Ladder) \in Nat
         /\ DOMAIN points = {t \in DOMAIN ladder : t < step} /\ step \in Nat \ {0}
         /\ \A s \in DOMAIN points : points[s] = ladder[s]
         /\ \A s \in DOMAIN ladder : \A t \in s..Len(Ladder) : t \in DOMAIN ladder
         /\ DOMAIN points \subseteq Nat \ {0}
  <1>1. Ladder \in Seq(Nat) /\ \A s, t \in DOMAIN Ladder : s < t => Ladder[s] < Ladder[t]
    BY SweepAssumption
  <1>2. /\ DOMAIN ladder = Measurable(grid[current]) /\ ladder \in [DOMAIN ladder -> Point]
        /\ points = [s \in {t \in DOMAIN ladder : t < step} |-> ladder[s]]
        /\ step \in Nat \ {0}
    BY <1>1 DEF BenchInv, TypeInv, TypeOK
  <1>3. DOMAIN ladder \subseteq 1..Len(Ladder) /\ Len(Ladder) \in Nat
    BY <1>1, <1>2 DEF Measurable
  <1>4. ASSUME NEW s \in DOMAIN ladder, NEW t \in s..Len(Ladder) PROVE t \in DOMAIN ladder
    <2>1. grid[current].replicas \in Nat
      BY ConfigIsOfGrid, GridConfigType
    <2>2. s \in 1..Len(Ladder) /\ t \in 1..Len(Ladder) /\ s <= t
      BY <1>3
    <2>3. Ladder[s] \in Nat /\ Ladder[t] \in Nat /\ Ladder[s] <= Ladder[t]
      BY <1>1, <2>2
    <2>4. Ladder[s] >= grid[current].replicas
      BY <1>2 DEF Measurable
    <2>5. Ladder[t] >= grid[current].replicas
      BY <2>1, <2>3, <2>4
    <2>6. DOMAIN Ladder = 1..Len(Ladder)
      BY <1>1
    <2> QED BY <1>2, <2>2, <2>5, <2>6 DEF Measurable
  <1> QED BY <1>2, <1>3, <1>4

LEMMA BenchKeeps ==
  ASSUME TypeInv, BenchInv, Next
  PROVE  BenchInv'
  <1> USE DEF inputs, results, bench
  <1>1. CASE ServersUp
    <2>1. /\ ladder' \in [Measurable(grid[current]) -> Point] /\ pc' = "ladder"
          /\ points' = [s \in {} |-> None] /\ step' = 1 /\ grid' = grid /\ current' = current
      BY <1>1 DEF ServersUp, Config, NoPoints
    <2>2. Ladder \in Seq(Nat) /\ Len(Ladder) >= 1
      BY SweepAssumption
    <2>3. {t \in DOMAIN ladder' : t < 1} = {}
      BY <2>1, <2>2 DEF Measurable
    <2>4. points' = [s \in {t \in DOMAIN ladder' : t < 1} |-> ladder'[s]]
      BY <2>1, <2>3
    <2>5. Measurable(grid'[current']) = Measurable(grid[current])
      BY <2>1
    <2> QED BY <2>1, <2>2, <2>4, <2>5 DEF BenchInv, Benched
  <1>2. CASE Measure
    <2>1. pc = "ladder" /\ Benched /\ step' = step + 1 /\ UNCHANGED <<ladder, grid, current>>
      BY <1>2 DEF Measure, Benched
    <2>2. /\ DOMAIN points = {t \in DOMAIN ladder : t < step} /\ step \in Nat \ {0}
          /\ \A s \in DOMAIN points : points[s] = ladder[s]
          /\ DOMAIN ladder \subseteq 1..Len(Ladder) /\ Len(Ladder) \in Nat
          /\ points = [s \in {t \in DOMAIN ladder : t < step} |-> ladder[s]]
      BY <2>1, MeasuredSteps DEF BenchInv
    <2>3. points' = [s \in {t \in DOMAIN ladder : t < step + 1} |-> ladder[s]]
      <3>1. \A t \in DOMAIN ladder : t < step + 1 <=> t < step \/ t = step
        BY <2>2
      <3>2. CASE step \in DOMAIN ladder
        <4>1. points' = [s \in DOMAIN points \cup {step} |-> ladder[s]]
          BY <1>2, <3>2 DEF Measure
        <4>2. DOMAIN points \cup {step} = {t \in DOMAIN ladder : t < step + 1}
          BY <2>2, <3>1, <3>2
        <4> QED BY <4>1, <4>2
      <3>3. CASE step \notin DOMAIN ladder
        <4>1. points' = points
          BY <1>2, <3>3 DEF Measure
        <4>2. {t \in DOMAIN ladder : t < step} = {t \in DOMAIN ladder : t < step + 1}
          BY <3>1, <3>3
        <4> QED BY <2>2, <4>1, <4>2
      <3> QED BY <3>2, <3>3
    <2>4. pc' = "ladder" => step' <= Len(Ladder)
      <3>1. pc' = "ladder" => step # Len(Ladder)
        BY <1>2 DEF Measure
      <3>2. step <= Len(Ladder)
        BY <2>1 DEF BenchInv
      <3> QED BY <2>1, <2>2, <3>1, <3>2
    <2>5. ladder' \in [Measurable(grid'[current']) -> Point]
      BY <2>1 DEF BenchInv
    <2> QED BY <2>1, <2>3, <2>4, <2>5 DEF BenchInv
  <1>3. CASE BenchFails \/ Account
    BY <1>3 DEF BenchFails, Account, BenchInv, Benched
  <1>4. CASE WriteStep
    <2>1. pc = "write" /\ (pc' = "next" \/ (pc' = pc /\ current' = current))
          /\ UNCHANGED <<ladder, points, step, grid>>
      BY <1>4 DEF WriteStep
    <2> QED BY <2>1 DEF BenchInv, Benched
  <1>5. CASE Launch \/ CheckPasses \/ CheckFails \/ PreflightEnds \/ BeginConfig
    BY <1>5 DEF Launch, Booting, CheckPasses, CheckFails, PreflightEnds, BeginConfig, BenchInv, Benched
  <1>6. CASE ServersFail \/ Finish \/ Crash
    BY <1>6 DEF ServersFail, Finish, Crash, BenchInv, Benched
  <1> QED BY <1>1, <1>2, <1>3, <1>4, <1>5, <1>6 DEF Next

\* One more point, of a ladder on which the rule had not fired: it fires at
\* that point or nowhere, also when the point decides which rule auto uses.
LEMMA OnePointMore ==
  ASSUME NEW pts, DOMAIN pts \subseteq Nat \ {0}, NEW more, NEW n \in Nat \ {0},
         DOMAIN more = DOMAIN pts \cup {n}, \A s \in DOMAIN pts : s < n /\ more[s] = pts[s],
         NEW rule, StopIndex(pts, rule) = 0
  PROVE  StopIndex(more, rule) \in {0, n}
  <1> DEFINE r == RuleUsed(pts, rule)
             r2 == RuleUsed(more, rule)
  <1>1. \A s \in DOMAIN pts : ~Fires(pts, r, s)
    BY StopIndexIs
  <1>2. ASSUME NEW s \in DOMAIN pts PROVE ~Fires(more, r2, s)
    <2>1. s \in Nat /\ s < n /\ s \in DOMAIN more
      OBVIOUS
    <2>2. \A t \in Nat : t <= s => (t \in DOMAIN pts <=> t \in DOMAIN more)
      BY <2>1
    <2>3. ASSUME NEW x PROVE Fires(pts, x, s) <=> Fires(more, x, s)
      <3>1. DOMAIN pts \subseteq Nat /\ DOMAIN more \subseteq Nat
        OBVIOUS
      <3> QED BY <2>1, <2>2, <3>1, FiresSame
    <2>4. CASE r2 = r
      BY <1>1, <2>3, <2>4
    <2>5. CASE r2 # r
      <3>1. rule = "auto" /\ r2 = "sol90" /\ \A t \in DOMAIN pts : ~pts[t].ceilings
        BY <2>5 DEF RuleUsed
      <3>2. ~Fires(pts, "sol90", s)
        BY <3>1 DEF Fires
      <3> QED BY <2>3, <3>1, <3>2
    <2> QED BY <2>4, <2>5
  <1>3. DOMAIN more \subseteq Nat \ {0}
    OBVIOUS
  <1> HIDE DEF r, r2
  <1>4. StopIndex(more, rule) # 0 =>
          StopIndex(more, rule) \in DOMAIN more /\ Fires(more, r2, StopIndex(more, rule))
    BY <1>3, StopIndexIs DEF r2
  <1> QED BY <1>2, <1>4

LEMMA OffNeverFires ==
  ASSUME NEW pts, DOMAIN pts \subseteq Nat \ {0}
  PROVE  StopIndex(pts, "off") = 0
  <1>1. \A s \in DOMAIN pts : ~Fires(pts, RuleUsed(pts, "off"), s)
    BY DEF Fires, RuleUsed
  <1> QED BY <1>1, StopIndexIs

LEMMA LiveKeeps ==
  ASSUME TypeInv, BenchInv, LiveInv, Next
  PROVE  LiveInv'
  <1> USE DEF inputs, results, bench
  <1>a. args' = args
    BY DEF Next, Launch, CheckPasses, CheckFails, PreflightEnds, BeginConfig, ServersUp,
           ServersFail, Measure, BenchFails, Account, WriteStep, Finish, Crash
  <1>1. CASE ServersUp
    <2>1. DOMAIN points' = {} /\ pc' = "ladder"
      BY <1>1 DEF ServersUp, NoPoints
    <2>2. StopIndex(points', args'.rule) = 0
      BY <2>1, StopIndexIs
    <2> QED BY <2>1, <2>2 DEF LiveInv, Stop
  <1>2. CASE Measure
    <2> SUFFICES ASSUME args.mode = "live" PROVE LiveInv'
      BY <1>a DEF LiveInv
    <2>0. pc = "ladder" /\ Benched /\ step' = step + 1 /\ Stop = 0 /\ ladder' = ladder
      BY <1>2 DEF Measure, Benched, LiveInv
    <2>1. /\ DOMAIN points = {t \in DOMAIN ladder : t < step} /\ step \in Nat \ {0}
          /\ \A s \in DOMAIN points : points[s] = ladder[s]
          /\ DOMAIN points \subseteq Nat \ {0}
          /\ step <= Len(Ladder) /\ Len(Ladder) \in Nat
      BY <2>0, MeasuredSteps DEF BenchInv
    <2> DEFINE stop == StopIndex(points', args.rule)
    <2>s. Stop' = stop
      BY <1>a DEF Stop
    <2>2. CASE step \in DOMAIN ladder
      <3>1. /\ points' = [s \in DOMAIN points \cup {step} |-> ladder[s]]
            /\ IF step = Len(Ladder) \/ LiveStops(points') THEN pc' = "ok" ELSE pc' = pc
        BY <1>2, <2>2 DEF Measure
      <3>2. /\ DOMAIN points' = DOMAIN points \cup {step}
            /\ \A s \in DOMAIN points : s < step /\ points'[s] = points[s]
            /\ DOMAIN points' \subseteq Nat \ {0}
        BY <2>1, <3>1
      <3>3. stop \in {0, step}
        BY <2>0, <2>1, <3>2, OnePointMore DEF Stop
      <3>4. stop = 0 \/ \A s \in DOMAIN points' : s <= stop
        BY <2>1, <3>2, <3>3
      <3>5. args.rule = "off" => stop = 0
        BY <3>2, OffNeverFires
      <3>6. LiveStops(points') <=> args.rule # "off" /\ stop # 0
        BY DEF LiveStops
      <3> HIDE DEF stop
      <3>7. pc' = "ok" => stop # 0 \/ step' = Len(Ladder) + 1
        BY <2>0, <3>1, <3>6
      <3>8. pc' = "ladder" => stop = 0
        BY <3>1, <3>5, <3>6
      <3>9. pc' \in {"ok", "ladder"}
        BY <2>0, <3>1
      <3> QED BY <2>s, <3>4, <3>7, <3>8, <3>9 DEF LiveInv
    <2>3. CASE step \notin DOMAIN ladder
      <3>1. /\ points' = points
            /\ IF step = Len(Ladder) THEN pc' = "ok" ELSE pc' = pc
        BY <1>2, <2>3 DEF Measure
      <3>2. Stop' = 0
        BY <2>0, <2>s, <3>1 DEF Stop
      <3> QED BY <2>0, <3>1, <3>2 DEF LiveInv
    <2> QED BY <2>2, <2>3
  <1>3. CASE BenchFails
    <2>1. pc = "ladder" /\ pc' = "bench_failed" /\ points' = points
      BY <1>3 DEF BenchFails
    <2> QED BY <1>a, <2>1 DEF LiveInv, Stop
  <1>4. CASE Launch \/ CheckPasses \/ CheckFails \/ PreflightEnds \/ BeginConfig
    BY <1>4 DEF Launch, Booting, CheckPasses, CheckFails, PreflightEnds, BeginConfig, LiveInv
  <1>5. CASE ServersFail \/ Account \/ WriteStep \/ Finish \/ Crash
    BY <1>5 DEF ServersFail, Account, WriteStep, Finish, Crash, LiveInv
  <1> QED BY <1>1, <1>2, <1>3, <1>4, <1>5 DEF Next

\* Where live mode stopped is where the rule fires on the whole ladder.
LEMMA LiveStopIsReplays ==
  ASSUME TypeInv, BenchInv, LiveInv, pc = "ok", args.mode = "live", args.rule # "auto"
  PROVE  /\ StopIndex(ladder, args.rule) = Stop
         /\ DOMAIN points = {s \in DOMAIN ladder : Stop = 0 \/ s <= Stop}
         /\ PrunedPoints(points, Stop) = Cardinality(DOMAIN ladder \ DOMAIN points)
  <1> DEFINE r == args.rule
             last == Len(Ladder)
  <1>1. /\ DOMAIN ladder \subseteq 1..last /\ last \in Nat
        /\ DOMAIN points = {t \in DOMAIN ladder : t < step} /\ step \in Nat \ {0}
        /\ \A s \in DOMAIN points : points[s] = ladder[s]
        /\ \A s \in DOMAIN ladder : \A t \in s..last : t \in DOMAIN ladder
        /\ DOMAIN points \subseteq Nat \ {0} /\ DOMAIN ladder \subseteq Nat \ {0}
        /\ ladder \in [DOMAIN ladder -> Point]
    BY MeasuredSteps DEF Benched
  <1>2. RuleUsed(points, r) = r /\ RuleUsed(ladder, r) = r
    BY DEF RuleUsed
  <1>3. CASE Stop = 0
    <2>1. step = last + 1
      BY <1>3 DEF LiveInv
    <2>2. DOMAIN points = DOMAIN ladder
      <3>1. \A t \in DOMAIN ladder : t \in Nat /\ t <= last
        BY <1>1
      <3>2. \A t \in DOMAIN ladder : t < step
        BY <1>1, <2>1, <3>1
      <3>3. DOMAIN points = {t \in DOMAIN ladder : t < step}
        BY <1>1
      <3> QED BY <3>2, <3>3
    <2>3. points = ladder
      <3>1. points = [s \in DOMAIN points |-> points[s]]
        BY DEF BenchInv, Benched
      <3> QED BY <1>1, <2>2, <3>1
    <2>4. DOMAIN ladder \ DOMAIN points = {}
      BY <2>2
    <2> QED BY <1>3, <2>2, <2>3, <2>4, FS_EmptySet DEF Stop, PrunedPoints
  <1>4. CASE Stop # 0
    <2>1. /\ Stop \in DOMAIN points /\ Fires(points, r, Stop)
          /\ \A s \in DOMAIN points : Fires(points, r, s) => Stop <= s
      BY <1>1, <1>2, <1>4, StopIndexIs DEF Stop
    <2>2. \A s \in DOMAIN points : s <= Stop
      BY <1>4 DEF LiveInv
    <2>3. ASSUME NEW s \in DOMAIN points PROVE Fires(points, r, s) <=> Fires(ladder, r, s)
      <3>1. s \in Nat /\ s < step /\ DOMAIN points \subseteq Nat /\ DOMAIN ladder \subseteq Nat
        BY <1>1
      <3>2. \A t \in Nat : t <= s => (t \in DOMAIN points <=> t \in DOMAIN ladder)
        BY <1>1, <3>1
      <3> QED BY <1>1, <3>1, <3>2, FiresSame
    <2>4. Stop \in DOMAIN ladder /\ Fires(ladder, r, Stop)
      BY <1>1, <2>1, <2>3
    <2> DEFINE stop == StopIndex(ladder, r)
    <2>5. /\ stop \in Nat
          /\ stop # 0 /\ stop \in DOMAIN ladder /\ Fires(ladder, r, stop) /\ stop <= Stop
      BY <1>1, <1>2, <2>4, StopIndexIs
    <2> HIDE DEF stop
    <2>6. Stop \in Nat /\ Stop < step
      <3>1. DOMAIN points \subseteq Nat /\ DOMAIN points = {t \in DOMAIN ladder : t < step}
        BY <1>1
      <3> QED BY <2>1, <3>1
    <2>7. stop \in DOMAIN points
      BY <1>1, <2>5, <2>6
    <2>8. stop = Stop
      BY <2>1, <2>3, <2>5, <2>6, <2>7
    <2>9. DOMAIN points = {s \in DOMAIN ladder : s <= Stop}
      BY <1>1, <2>2, <2>6
    <2>10. DOMAIN ladder \ DOMAIN points = (Stop + 1)..last
      <3>1. DOMAIN ladder \ DOMAIN points = {s \in DOMAIN ladder : ~(s <= Stop)}
        BY <2>9
      <3>2. \A s \in DOMAIN ladder : s \in 1..last
        BY <1>1
      <3>3. \A t \in Stop..last : t \in DOMAIN ladder
        BY <1>1, <2>4
      <3> QED BY <1>1, <2>6, <3>1, <3>2, <3>3
    <2>11. Cardinality((Stop + 1)..last) = last - Stop
      <3>1. Stop <= last
        BY <1>1, <2>4
      <3>2. Cardinality((Stop + 1)..last) = IF Stop + 1 > last THEN 0 ELSE last - (Stop + 1) + 1
        <4>1. Stop + 1 \in Int /\ last \in Int
          BY <1>1, <2>6
        <4> QED BY <4>1, FS_Interval
      <3> QED BY <1>1, <2>6, <3>1, <3>2
    <2>12. PrunedPoints(points, Stop) = last - Stop
      BY <1>4 DEF PrunedPoints
    <2> QED BY <1>4, <2>8, <2>9, <2>10, <2>11, <2>12 DEF stop
  <1> QED BY <1>3, <1>4

LEMMA LiveMatchesReplayKeeps ==
  ASSUME TypeInv, BenchInv, LiveInv, AccountsInv, LiveMatchesReplay, Next
  PROVE  LiveMatchesReplay'
  <1> USE DEF inputs, results, bench
  <1>1. CASE Account
    <2> SUFFICES ASSUME args'.mode = "live", args'.rule # "auto", LastConfig'.status = "ok"
                 PROVE  LET stop == StopIndex(ladder', args'.rule)
                        IN /\ LastConfig'.stop = stop
                           /\ DOMAIN points' = {s \in DOMAIN ladder' : stop = 0 \/ s <= stop}
                           /\ LastConfig'.pruned = Cardinality(DOMAIN ladder' \ DOMAIN points')
      BY DEF LiveMatchesReplay
    <2> DEFINE row == ConfigRow(current, pc, points, Stop)
    <2>1. /\ UNCHANGED <<args, ladder, points>>
          /\ configRows' = Append(configRows, row)
      BY <1>1 DEF Account, Stop
    <2>2. row.status = pc /\ row.stop = Stop /\ row.pruned = PrunedPoints(points, Stop)
      BY DEF ConfigRow
    <2> HIDE DEF row
    <2>3. LastConfig' = row
      BY <2>1 DEF LastConfig, Last, AccountsInv
    <2>4. pc = "ok" /\ args.mode = "live" /\ args.rule # "auto"
      BY <2>1, <2>2, <2>3
    <2> QED BY <2>1, <2>2, <2>3, <2>4, LiveStopIsReplays
  <1>2. CASE WriteStep
    <2>1. pc = "write" /\ UNCHANGED <<args, ladder, points, configRows>>
      BY <1>2 DEF WriteStep
    <2> QED BY <2>1 DEF LiveMatchesReplay, LastConfig
  <1>3. CASE Launch \/ CheckPasses \/ CheckFails \/ PreflightEnds \/ BeginConfig \/ ServersUp
    BY <1>3 DEF Launch, Booting, CheckPasses, CheckFails, PreflightEnds, BeginConfig, ServersUp,
                LiveMatchesReplay
  <1>4. CASE ServersFail \/ Measure \/ BenchFails \/ Finish \/ Crash
    BY <1>4 DEF ServersFail, Measure, BenchFails, Finish, Crash, LiveMatchesReplay
  <1> QED BY <1>1, <1>2, <1>3, <1>4 DEF Next
-----------------------------------------------------------------------------
(***************************************************************************)
(* The accounts.                                                           *)
(***************************************************************************)
NewRows == Rows(current, points, Stop)
Cut(s) == Stop # 0 /\ s > Stop

LEMMA NewRowsAre ==
  ASSUME TypeInv, BenchInv, Benched
  PROVE  /\ DOMAIN points \in SUBSET Nat /\ IsFiniteSet(DOMAIN points)
         /\ Len(NewRows) = Cardinality(DOMAIN points) /\ Len(NewRows) \in Nat
         /\ NewRows \in Seq(Range(NewRows))
         /\ \A k \in 1..Len(NewRows) : /\ NewRows[k].config = current
                                       /\ NewRows[k].pruned = Cut(Nth(DOMAIN points, k))
  <1> DEFINE D == DOMAIN points
             c == Cardinality(D)
  <1>1. D \in SUBSET Nat /\ D \subseteq 1..Len(Ladder) /\ Len(Ladder) \in Nat
    BY MeasuredSteps
  <1>2. IsFiniteSet(D)
    <2> HIDE DEF D
    <2>1. IsFiniteSet(1..Len(Ladder))
      BY <1>1, FS_Interval
    <2> QED BY <1>1, <2>1, FS_Subset
  <1>3. c \in Nat
    BY <1>2, FS_CardinalityType
  <1> DEFINE row(k) == [config |-> current, step |-> Nth(D, k), tps |-> points[Nth(D, k)].tps,
                        pruned |-> Cut(Nth(D, k))]
  <1>4. NewRows = [k \in 1..c |-> row(k)]
    BY DEF NewRows, Rows, Cut
  <1>5. \A k \in 1..c : row(k).config = current /\ row(k).pruned = Cut(Nth(D, k))
    OBVIOUS
  <1> HIDE DEF row, c
  <1>6. Len(NewRows) = c /\ DOMAIN NewRows = 1..c
    BY <1>3, <1>4
  <1>7. NewRows \in Seq(Range(NewRows))
    <2>1. \A k \in 1..c : row(k) \in Range(NewRows)
      BY <1>4 DEF Range
    <2> QED BY <1>3, <1>4, <2>1
  <1> QED BY <1>1, <1>2, <1>3, <1>4, <1>5, <1>6, <1>7 DEF c

\* Shifted by the rows there are, the rows marked are as many as the steps cut.
LEMMA MarkedRows ==
  ASSUME TypeInv, BenchInv, Benched, NEW b \in Nat
  PROVE  Cardinality({j \in (b + 1)..(b + Len(NewRows)) : NewRows[j - b].pruned}) =
           Cardinality({s \in DOMAIN points : Cut(s)})
  <1> DEFINE D == DOMAIN points
             C == {s \in D : Cut(s)}
             M == {j \in (b + 1)..(b + Len(NewRows)) : NewRows[j - b].pruned}
             f == [s \in C |-> b + Rank(D, s)]
  <1>1. /\ D \in SUBSET Nat /\ IsFiniteSet(D)
        /\ Len(NewRows) = Cardinality(D) /\ Len(NewRows) \in Nat
        /\ \A k \in 1..Len(NewRows) : NewRows[k].pruned = Cut(Nth(D, k))
    BY NewRowsAre
  <1>2. C \in SUBSET D /\ IsFiniteSet(C)
    BY <1>1, FS_Subset
  <1>3. \A s \in D : Rank(D, s) \in 1..Len(NewRows) /\ Nth(D, Rank(D, s)) = s
    <2> HIDE DEF D
    <2> QED BY <1>1, NthOfRank
  <1>4. \A k \in 1..Len(NewRows) : Nth(D, k) \in D /\ Rank(D, Nth(D, k)) = k
    <2> HIDE DEF D
    <2> QED BY <1>1, NthIsMember
  <1>5. ASSUME NEW s \in C PROVE f[s] \in M
    <2> DEFINE k == Rank(D, s)
    <2>1. k \in 1..Len(NewRows) /\ Nth(D, k) = s
      BY <1>3
    <2> HIDE DEF k
    <2>2. NewRows[k].pruned
      BY <1>1, <2>1
    <2>3. (b + k) - b = k /\ b + k \in (b + 1)..(b + Len(NewRows))
      BY <1>1, <2>1
    <2>4. b + k \in M
      BY <2>2, <2>3
    <2> QED BY <2>4 DEF k
  <1>6. ASSUME NEW s \in C, NEW t \in C, f[s] = f[t] PROVE s = t
    <2>1. Rank(D, s) \in Nat /\ Rank(D, t) \in Nat /\ b + Rank(D, s) = b + Rank(D, t)
      BY <1>1, <1>3, <1>6
    <2>2. Rank(D, s) = Rank(D, t)
      BY <2>1
    <2> QED BY <1>3, <2>2
  <1>7. ASSUME NEW j \in M PROVE \E s \in C : f[s] = j
    <2> DEFINE k == j - b
    <2>1. k \in 1..Len(NewRows) /\ b + k = j /\ NewRows[k].pruned
      BY <1>1
    <2> HIDE DEF k
    <2>2. Nth(D, k) \in C /\ Rank(D, Nth(D, k)) = k
      BY <1>1, <1>4, <2>1
    <2> QED BY <2>1, <2>2
  <1>8. f \in Bijection(C, M)
    <2>1. f \in [C -> M]
      <3> DEFINE g(s) == b + Rank(D, s)
      <3>1. \A s \in C : g(s) \in M
        BY <1>5
      <3> HIDE DEF C, M
      <3> QED BY <3>1
    <2> HIDE DEF f, C, M
    <2> QED BY <1>6, <1>7, <2>1 DEF Bijection, Injection, IsInjective, Surjection
  <1> HIDE DEF f, C, M
  <1>9. Cardinality(M) = Cardinality(C)
    BY <1>2, <1>8, FS_Bijection DEF ExistsBijection
  <1> QED BY <1>9 DEF M, C

\* Replay counts the steps it cuts, live mode cuts none of those it measured.
LEMMA CutSteps ==
  ASSUME TypeInv, BenchInv, LiveInv, pc \in {"ok", "bench_failed"}
  PROVE  /\ PrunedPoints(points, Stop) \in Nat
         /\ Cardinality({s \in DOMAIN points : Cut(s)}) =
              IF args.mode = "replay" THEN PrunedPoints(points, Stop) ELSE 0
  <1> DEFINE C == {s \in DOMAIN points : Cut(s)}
  <1>1. /\ DOMAIN points \subseteq Nat \ {0} /\ DOMAIN points \subseteq 1..Len(Ladder)
        /\ Len(Ladder) \in Nat /\ IsFiniteSet(DOMAIN points)
    BY MeasuredSteps, NewRowsAre DEF Benched
  <1>2. Stop \in Nat /\ (Stop # 0 => Stop \in DOMAIN points)
    BY <1>1, StopIndexIs DEF Stop
  <1>3. IsFiniteSet(C) /\ Cardinality(C) \in Nat
    <2>1. C \in SUBSET DOMAIN points
      OBVIOUS
    <2> QED BY <1>1, <2>1, FS_Subset, FS_CardinalityType
  <1>4. CASE Stop = 0
    <2>1. C = {}
      BY <1>4 DEF Cut
    <2>2. Cardinality(C) = 0
      BY <2>1, FS_EmptySet
    <2> QED BY <1>4, <2>2 DEF PrunedPoints
  <1>5. CASE Stop # 0
    <2>1. CASE args.mode = "replay"
      <3>1. PrunedPoints(points, Stop) = Cardinality(C)
        BY <1>5, <2>1 DEF PrunedPoints, Cut
      <3> QED BY <1>3, <2>1, <3>1
    <2>2. CASE args.mode # "replay"
      <3>1. args.mode = "live"
        BY <2>2, SweepAssumption DEF TypeInv, TypeOK
      <3>2. \A s \in DOMAIN points : s <= Stop
        BY <1>5, <3>1 DEF LiveInv
      <3>3. C = {}
        BY <1>1, <1>2, <3>2 DEF Cut
      <3>4. Cardinality(C) = 0
        BY <3>3, FS_EmptySet
      <3>5. PrunedPoints(points, Stop) = Len(Ladder) - Stop
        BY <1>5, <2>2 DEF PrunedPoints
      <3>6. Stop \in 1..Len(Ladder)
        BY <1>1, <1>2, <1>5
      <3>7. Len(Ladder) - Stop \in Nat
        BY <1>1, <3>6
      <3> QED BY <2>2, <3>4, <3>5, <3>7
    <2> QED BY <2>1, <2>2
  <1> QED BY <1>4, <1>5

\* all is s and the rows of new, which are of c, a config no row of s is of.
Added(s, new, c, all) ==
  /\ all \in Seq(Range(all))
  /\ Len(s) \in Nat
  /\ RowsOf({c}, all) = (Len(s) + 1)..(Len(s) + Len(new))
  /\ RowsOf({c}, all) \cap PrunedOf(all) =
       {j \in (Len(s) + 1)..(Len(s) + Len(new)) : new[j - Len(s)].pruned}
  /\ \A ids : c \notin ids =>
       /\ RowsOf(ids, all) = RowsOf(ids, s)
       /\ RowsOf(ids, all) \cap PrunedOf(all) = RowsOf(ids, s) \cap PrunedOf(s)
  /\ DOMAIN all = 1..(Len(s) + Len(new))

LEMMA RowsAdded ==
  ASSUME NEW s, s \in Seq(Range(s)), NEW new, new \in Seq(Range(new)), NEW c,
         NEW all, all = s \o new,
         \A k \in DOMAIN s : s[k].config # c, \A k \in DOMAIN new : new[k].config = c
  PROVE  Added(s, new, c, all)
  <1> DEFINE a == Len(s)
             b == Len(new)
  <1>1. /\ a \in Nat /\ b \in Nat /\ DOMAIN s = 1..a /\ DOMAIN new = 1..b
        /\ DOMAIN all = 1..(a + b) /\ Len(all) = a + b
        /\ \A k \in 1..a : all[k] = s[k]
        /\ \A k \in (a + 1)..(a + b) : all[k] = new[k - a]
    OBVIOUS
  <1>2. all \in Seq(Range(all))
    <2>1. \A k \in 1..(a + b) : all[k] \in Range(all)
      BY <1>1 DEF Range
    <2>2. all \in Seq(Range(s) \cup Range(new))
      BY SeqMonotonic, ConcatProperties
    <2> HIDE DEF a, b
    <2> QED BY ONLY <1>1, <2>1, <2>2
  <1> HIDE DEF a, b
  <1>3. \A k \in (a + 1)..(a + b) : k - a \in 1..b /\ k \in 1..(a + b) /\ k \notin 1..a
    BY <1>1
  <1>4. \A k \in 1..(a + b) : k \in 1..a \/ k \in (a + 1)..(a + b)
    BY <1>1
  <1>5. \A k \in 1..a : k \in 1..(a + b)
    BY <1>1
  <1>o. \A k \in 1..a : all[k].config # c
    BY <1>1
  <1>n. ASSUME NEW k \in (a + 1)..(a + b) PROVE all[k].config = c
    <2>1. k - a \in DOMAIN new
      BY <1>1, <1>3
    <2>2. all[k] = new[k - a]
      BY <1>1
    <2> QED BY <2>1, <2>2
  <1>6. RowsOf({c}, all) = (a + 1)..(a + b)
    <2>1. \A k \in DOMAIN all : all[k].config \in {c} <=> k \in (a + 1)..(a + b)
      BY <1>1, <1>4, <1>o, <1>n
    <2>2. (a + 1)..(a + b) \subseteq DOMAIN all
      BY <1>1, <1>3
    <2> QED BY <2>1, <2>2 DEF RowsOf
  <1>7. \A k \in (a + 1)..(a + b) : all[k] = new[k - a]
    BY <1>1
  <1>8. RowsOf({c}, all) \cap PrunedOf(all) = {j \in (a + 1)..(a + b) : new[j - a].pruned}
    BY <1>1, <1>3, <1>6, <1>7 DEF PrunedOf
  <1>9. ASSUME NEW ids, c \notin ids
        PROVE  /\ RowsOf(ids, all) = RowsOf(ids, s)
               /\ RowsOf(ids, all) \cap PrunedOf(all) = RowsOf(ids, s) \cap PrunedOf(s)
    <2>2. RowsOf(ids, all) = RowsOf(ids, s)
      BY <1>1, <1>4, <1>5, <1>9, <1>n DEF RowsOf
    <2>3. \A k \in RowsOf(ids, s) : k \in 1..a
      BY <1>1 DEF RowsOf
    <2>4. \A k \in 1..a : k \in PrunedOf(all) <=> k \in PrunedOf(s)
      <3> SUFFICES ASSUME NEW k \in 1..a PROVE k \in PrunedOf(all) <=> k \in PrunedOf(s)
        OBVIOUS
      <3>1. all[k] = s[k] /\ k \in DOMAIN all /\ k \in DOMAIN s
        BY <1>1, <1>5
      <3> QED BY <3>1 DEF PrunedOf
    <2> QED BY <2>2, <2>3, <2>4
  <1> QED BY <1>1, <1>2, <1>6, <1>8, <1>9 DEF Added, a, b

\* A row appended to configs.csv.
LEMMA ConfigRowAdded ==
  ASSUME AccountsInv, NEW row
  PROVE  LET new == Append(configRows, row)
             n == Len(configRows) + 1
         IN /\ new \in Seq(Range(new)) /\ Len(configRows) \in Nat
            /\ DOMAIN configRows = 1..Len(configRows)
            /\ Len(new) = n /\ DOMAIN new = DOMAIN configRows \cup {n} /\ n \notin DOMAIN configRows
            /\ \A k \in DOMAIN configRows : new[k] = configRows[k]
            /\ new[n] = row
  <1>1. configRows \in Seq(Range(configRows))
    BY DEF AccountsInv
  <1> DEFINE new == Append(configRows, row)
             n == Len(configRows) + 1
  <1>2. configRows \in Seq(Range(configRows) \cup {row})
    BY <1>1, SeqMonotonic
  <1>3. /\ Len(configRows) \in Nat /\ DOMAIN configRows = 1..Len(configRows)
        /\ Len(new) = n /\ DOMAIN new = 1..n
        /\ \A k \in DOMAIN configRows : new[k] = configRows[k]
        /\ new[n] = row
    BY <1>2
  <1>4. new \in Seq(Range(configRows) \cup {row})
    BY <1>2
  <1>5. new \in Seq(Range(new))
    <2>1. \A k \in DOMAIN new : new[k] \in Range(new)
      BY DEF Range
    <2> HIDE DEF new
    <2> QED BY <1>4, <2>1
  <1>6. 1..n = 1..Len(configRows) \cup {n} /\ n \notin 1..Len(configRows)
    BY <1>3
  <1> HIDE DEF new
  <1> QED BY <1>3, <1>5, <1>6 DEF new

LEMMA FailedRowKeeps ==
  ASSUME TypeInv, AccountsInv, ServersFail
  PROVE  AccountsInv'
  <1> DEFINE row == [config |-> current, status |-> "server_failed"]
             n == Len(configRows) + 1
             S == Ok(configRows)
  <1>1. /\ configRows' = Append(configRows, row) /\ pc = "start" /\ pc' = "next"
        /\ rows' = rows /\ args' = args /\ current' = current + 1
    BY DEF ServersFail, inputs
  <1>2. row.config = current /\ row.status = "server_failed"
    OBVIOUS
  <1> HIDE DEF row
  <1>3. /\ configRows' \in Seq(Range(configRows')) /\ Len(configRows) \in Nat
        /\ Len(configRows') = n /\ DOMAIN configRows' = DOMAIN configRows \cup {n}
        /\ n \notin DOMAIN configRows
        /\ \A k \in DOMAIN configRows : configRows'[k] = configRows[k]
        /\ configRows'[n] = row
    BY <1>1, ConfigRowAdded
  <1>4. n = current
    BY <1>1, <1>3 DEF AccountsInv, TypeInv, TypeOK
  <1> HIDE DEF n
  <1>5. Ok(configRows') = S
    BY <1>2, <1>3 DEF Ok
  <1>6. ASSUME NEW k \in DOMAIN configRows' PROVE Booked(k)'
    <2>1. CASE k = n
      <3>1. configRows'[k].config = k /\ configRows'[k].status = "server_failed"
        BY <1>2, <1>3, <1>4, <2>1
      <3> QED BY <3>1 DEF Booked
    <2>2. CASE k # n
      <3>1. k \in DOMAIN configRows /\ configRows'[k] = configRows[k]
        BY <1>3, <2>2
      <3>2. Booked(k)
        BY <3>1 DEF AccountsInv
      <3> QED BY <1>1, <3>1, <3>2 DEF Booked
    <2> QED BY <2>1, <2>2
  <1>7. MeasuredIn(configRows') = MeasuredIn(configRows) /\ PrunedIn(configRows') = PrunedIn(configRows)
    <2>1. [k \in S |-> configRows'[k].measured] = [k \in S |-> configRows[k].measured]
      BY <1>3 DEF Ok
    <2>2. [k \in S |-> configRows'[k].pruned] = [k \in S |-> configRows[k].pruned]
      BY <1>3 DEF Ok
    <2> QED BY <1>5, <2>1, <2>2 DEF MeasuredIn, PrunedIn
  <1>8. /\ rows' \in Seq(Range(rows')) /\ \A k \in DOMAIN rows' : rows'[k].config \in DOMAIN configRows'
        /\ MeasuredIn(configRows') = Cardinality(RowsOf(Ok(configRows'), rows'))
        /\ args'.mode = "replay" =>
             PrunedIn(configRows') = Cardinality(RowsOf(Ok(configRows'), rows') \cap PrunedOf(rows'))
    BY <1>1, <1>3, <1>5, <1>7 DEF AccountsInv
  <1>9. Len(configRows') = current' - 1
    BY <1>1, <1>3, <1>4 DEF TypeInv, TypeOK
  <1> QED BY <1>1, <1>3, <1>6, <1>8, <1>9 DEF AccountsInv

\* One config more to sum over.
LEMMA OneConfigMore ==
  ASSUME NEW S, IsFiniteSet(S), NEW n, n \notin S, NEW T, T = S \cup {n}, NEW f, NEW g,
         \A k \in S : f[k] = g[k], \A k \in S : f[k] \in Nat, g[n] \in Nat
  PROVE  SumFunctionOnSet(g, T) = g[n] + SumFunctionOnSet(f, S)
  <1>1. IsFiniteSet(T) /\ n \in T /\ T \ {n} = S
    BY FS_AddElement
  <1>2. \A k \in T : g[k] \in Nat
    OBVIOUS
  <1>3. SumFunctionOnSet(g, T) = g[n] + SumFunctionOnSet(g, T \ {n})
    BY <1>1, <1>2, SumWithout
  <1>4. SumFunctionOnSet(g, S) = SumFunctionOnSet(f, S)
    BY SumSame
  <1> QED BY <1>1, <1>3, <1>4

\* The rows of a config are among the rows there are.
LEMMA RowsOfFinite ==
  ASSUME NEW s, s \in Seq(Range(s)), NEW ids, NEW T
  PROVE  /\ IsFiniteSet(RowsOf(ids, s) \cap T) /\ Cardinality(RowsOf(ids, s) \cap T) \in Nat
         /\ IsFiniteSet(RowsOf(ids, s)) /\ Cardinality(RowsOf(ids, s)) \in Nat
  <1>1. DOMAIN s = 1..Len(s) /\ Len(s) \in Nat
    OBVIOUS
  <1>2. IsFiniteSet(DOMAIN s)
    BY <1>1, FS_Interval
  <1>3. RowsOf(ids, s) \in SUBSET DOMAIN s /\ RowsOf(ids, s) \cap T \in SUBSET DOMAIN s
    BY DEF RowsOf
  <1>4. IsFiniteSet(RowsOf(ids, s)) /\ IsFiniteSet(RowsOf(ids, s) \cap T)
    BY <1>2, <1>3, FS_Subset
  <1> QED BY <1>4, FS_CardinalityType

\* The rows of one config more.
AddUp(s, ids, c, more, T) ==
  /\ Cardinality(RowsOf(more, s)) = Cardinality(RowsOf(ids, s)) + Cardinality(RowsOf({c}, s))
  /\ Cardinality(RowsOf(more, s) \cap T) =
       Cardinality(RowsOf(ids, s) \cap T) + Cardinality(RowsOf({c}, s) \cap T)

LEMMA RowsOfMore ==
  ASSUME NEW s, s \in Seq(Range(s)), NEW ids, NEW c, c \notin ids,
         NEW more, more = ids \cup {c}, NEW T
  PROVE  AddUp(s, ids, c, more, T)
  <1> DEFINE A == RowsOf(ids, s)
             B == RowsOf({c}, s)
  <1>1. RowsOf(more, s) = A \cup B /\ A \cap B = {}
    BY DEF RowsOf
  <1>2. /\ IsFiniteSet(A) /\ IsFiniteSet(B) /\ IsFiniteSet(A \cap T) /\ IsFiniteSet(B \cap T)
        /\ Cardinality(A) \in Nat /\ Cardinality(B) \in Nat
        /\ Cardinality(A \cap T) \in Nat /\ Cardinality(B \cap T) \in Nat
    BY RowsOfFinite
  <1> HIDE DEF A, B
  <1>3. ASSUME NEW X, NEW Y, IsFiniteSet(X), IsFiniteSet(Y), X \cap Y = {}
        PROVE  Cardinality(X \cup Y) = Cardinality(X) + Cardinality(Y)
    <2>1. Cardinality(X \cup Y) = Cardinality(X) + Cardinality(Y) - Cardinality(X \cap Y)
      BY <1>3, FS_Union
    <2>2. Cardinality(X) \in Nat /\ Cardinality(Y) \in Nat /\ Cardinality(X \cap Y) = 0
      BY <1>3, FS_CardinalityType, FS_EmptySet
    <2> QED BY <2>1, <2>2
  <1>4. Cardinality(A \cup B) = Cardinality(A) + Cardinality(B)
    BY <1>1, <1>2, <1>3
  <1>5. Cardinality((A \cap T) \cup (B \cap T)) = Cardinality(A \cap T) + Cardinality(B \cap T)
    <2>1. (A \cap T) \cap (B \cap T) = {}
      BY <1>1
    <2> QED BY <1>2, <1>3, <2>1
  <1>6. RowsOf(more, s) \cap T = (A \cap T) \cup (B \cap T)
    BY <1>1
  <1> QED BY <1>1, <1>4, <1>5, <1>6 DEF AddUp, A, B

LEMMA AccountKeeps ==
  ASSUME TypeInv, BenchInv, LiveInv, AccountsInv, Account
  PROVE  AccountsInv'
  <1> DEFINE row == ConfigRow(current, pc, points, Stop)
             n == Len(configRows) + 1
             S == Ok(configRows)
             P == PrunedOf(rows')
             replay == args.mode = "replay"
  <1>1. /\ configRows' = Append(configRows, row) /\ pc \in {"ok", "bench_failed"} /\ pc' = "write"
        /\ rows' = rows \o NewRows /\ args' = args /\ current' = current /\ Benched
    BY DEF Account, inputs, NewRows, Stop, Benched
  <1>2. /\ row.config = current /\ row.status = pc
        /\ row.measured = Cardinality(DOMAIN points) /\ row.pruned = PrunedPoints(points, Stop)
    BY DEF ConfigRow
  <1> HIDE DEF row
  <1>3. /\ configRows' \in Seq(Range(configRows')) /\ Len(configRows) \in Nat
        /\ DOMAIN configRows = 1..Len(configRows)
        /\ Len(configRows') = n /\ DOMAIN configRows' = DOMAIN configRows \cup {n}
        /\ n \notin DOMAIN configRows
        /\ \A k \in DOMAIN configRows : configRows'[k] = configRows[k]
        /\ configRows'[n] = row
    BY <1>1, ConfigRowAdded
  <1>4. n = current
    <2>1. current \in Nat /\ pc # "write" /\ pc # "crashed"
      BY <1>1 DEF TypeInv, TypeOK
    <2>2. Len(configRows) = current - 1
      BY <2>1 DEF AccountsInv
    <2> QED BY <1>3, <2>1, <2>2
  <1> HIDE DEF n
  <1>5. /\ Len(NewRows) = Cardinality(DOMAIN points) /\ Len(NewRows) \in Nat
        /\ NewRows \in Seq(Range(NewRows))
        /\ \A k \in DOMAIN NewRows : NewRows[k].config = n
    BY <1>1, <1>4, NewRowsAre
  <1>6. /\ rows \in Seq(Range(rows)) /\ \A k \in DOMAIN rows : rows[k].config # n
        /\ \A k \in DOMAIN rows : rows[k].config \in DOMAIN configRows
    BY <1>3 DEF AccountsInv
  <1>7. /\ rows' \in Seq(Range(rows')) /\ Len(rows) \in Nat
        /\ RowsOf({n}, rows') = (Len(rows) + 1)..(Len(rows) + Len(NewRows))
        /\ RowsOf({n}, rows') \cap P =
             {j \in (Len(rows) + 1)..(Len(rows) + Len(NewRows)) : NewRows[j - Len(rows)].pruned}
        /\ \A ids : n \notin ids =>
             /\ RowsOf(ids, rows') = RowsOf(ids, rows)
             /\ RowsOf(ids, rows') \cap P = RowsOf(ids, rows) \cap PrunedOf(rows)
        /\ DOMAIN rows' = 1..(Len(rows) + Len(NewRows))
    <2>1. rows' = rows \o NewRows
      BY <1>1
    <2>2. Added(rows, NewRows, n, rows')
      BY ONLY <1>5, <1>6, <2>1, RowsAdded
    <2> QED BY <2>2 DEF Added, P
  <1> HIDE DEF P
  <1>8. Cardinality(RowsOf({n}, rows')) = row.measured /\ row.measured \in Nat
    <2>1. Cardinality((Len(rows) + 1)..(Len(rows) + Len(NewRows))) = Len(NewRows)
      <3>1. Len(rows) + 1 \in Int /\ Len(rows) + Len(NewRows) \in Int
        BY <1>5, <1>7
      <3>2. Cardinality((Len(rows) + 1)..(Len(rows) + Len(NewRows))) =
              IF Len(rows) + 1 > Len(rows) + Len(NewRows) THEN 0
              ELSE (Len(rows) + Len(NewRows)) - (Len(rows) + 1) + 1
        BY <3>1, FS_Interval
      <3> QED BY <1>5, <1>7, <3>2
    <2> QED BY <1>2, <1>5, <1>7, <2>1
  <1>9. /\ Cardinality(RowsOf({n}, rows') \cap P) = IF replay THEN row.pruned ELSE 0
        /\ row.pruned \in Nat
    <2>1. Cardinality(RowsOf({n}, rows') \cap P) = Cardinality({s \in DOMAIN points : Cut(s)})
      BY <1>1, <1>7, MarkedRows
    <2> QED BY <1>1, <1>2, <2>1, CutSteps
  <1>10. ASSUME NEW k \in DOMAIN configRows' PROVE Booked(k)'
    <2>1. CASE k = n
      <3>1. configRows'[k] = row /\ row.config = n /\ row.status \in {"ok", "bench_failed"}
        BY <1>1, <1>2, <1>3, <1>4, <2>1
      <3> QED BY <1>1, <1>8, <1>9, <2>1, <3>1 DEF Booked, P
    <2>2. CASE k # n
      <3>1. k \in DOMAIN configRows /\ configRows'[k] = configRows[k]
        BY <1>3, <2>2
      <3>2. Booked(k)
        BY <3>1 DEF AccountsInv
      <3>3. /\ RowsOf({k}, rows') = RowsOf({k}, rows)
            /\ RowsOf({k}, rows') \cap P = RowsOf({k}, rows) \cap PrunedOf(rows)
        <4>1. n \notin {k}
          BY <2>2
        <4> QED BY <1>7, <4>1
      <3> QED BY <1>1, <3>1, <3>2, <3>3 DEF Booked, P
    <2> QED BY <2>1, <2>2
  <1>11. \A k \in DOMAIN rows' : rows'[k].config \in DOMAIN configRows'
    <2> SUFFICES ASSUME NEW k \in DOMAIN rows' PROVE rows'[k].config \in DOMAIN configRows'
      OBVIOUS
    <2>1. CASE k \in RowsOf({n}, rows')
      <3>1. rows'[k].config = n
        BY <2>1 DEF RowsOf
      <3> QED BY <1>3, <3>1
    <2>2. CASE k \notin RowsOf({n}, rows')
      <3>1. k \in 1..Len(rows)
        BY <1>5, <1>7, <2>2
      <3>2. k \in DOMAIN rows /\ rows'[k] = rows[k]
        BY <1>1, <1>5, <1>6, <3>1
      <3> QED BY <1>3, <1>6, <3>2
    <2> QED BY <2>1, <2>2
  <1>12. IsFiniteSet(S) /\ n \notin S /\ S \subseteq DOMAIN configRows
    <2>1. S \in SUBSET DOMAIN configRows
      BY DEF Ok
    <2>2. IsFiniteSet(DOMAIN configRows)
      BY <1>3, FS_Interval
    <2> HIDE DEF S
    <2> QED BY <1>3, <2>1, <2>2, FS_Subset
  <1>13. \A k \in S : configRows[k].measured \in Nat /\ configRows[k].pruned \in Nat
    <2> SUFFICES ASSUME NEW k \in S
                 PROVE  configRows[k].measured \in Nat /\ configRows[k].pruned \in Nat
      OBVIOUS
    <2>1. k \in DOMAIN configRows /\ configRows[k].status = "ok"
      BY DEF Ok
    <2>2. /\ Cardinality(RowsOf({k}, rows)) = configRows[k].measured
          /\ configRows[k].pruned \in Nat
      BY <2>1 DEF AccountsInv, Booked
    <2> QED BY <1>6, <2>2, RowsOfFinite
  <1>14. /\ MeasuredIn(configRows') = Cardinality(RowsOf(Ok(configRows'), rows'))
         /\ replay => PrunedIn(configRows') = Cardinality(RowsOf(Ok(configRows'), rows') \cap P)
    <2> DEFINE f == [k \in S |-> configRows[k].measured]
               g == [k \in S |-> configRows[k].pruned]
    <2>1. /\ MeasuredIn(configRows) = SumFunctionOnSet(f, S)
          /\ PrunedIn(configRows) = SumFunctionOnSet(g, S)
          /\ SumFunctionOnSet(f, S) = Cardinality(RowsOf(S, rows))
          /\ replay => SumFunctionOnSet(g, S) = Cardinality(RowsOf(S, rows) \cap PrunedOf(rows))
      BY DEF AccountsInv, MeasuredIn, PrunedIn
    <2>2. RowsOf(S, rows') = RowsOf(S, rows) /\ RowsOf(S, rows') \cap P = RowsOf(S, rows) \cap PrunedOf(rows)
      BY <1>7, <1>12
    <2>3. CASE pc = "ok"
      <3> DEFINE T == S \cup {n}
                 f2 == [k \in T |-> configRows'[k].measured]
                 g2 == [k \in T |-> configRows'[k].pruned]
      <3>1. Ok(configRows') = T
        BY <1>2, <1>3, <2>3 DEF Ok
      <3>2. MeasuredIn(configRows') = SumFunctionOnSet(f2, T) /\ PrunedIn(configRows') = SumFunctionOnSet(g2, T)
        BY <3>1 DEF MeasuredIn, PrunedIn
      <3>3. /\ \A k \in S : f[k] = f2[k]
            /\ \A k \in S : f[k] \in Nat
            /\ f2[n] = row.measured /\ f2[n] \in Nat /\ T = S \cup {n}
        BY <1>3, <1>8, <1>12, <1>13
      <3>m. /\ \A k \in S : g[k] = g2[k]
            /\ \A k \in S : g[k] \in Nat
            /\ g2[n] = row.pruned /\ g2[n] \in Nat /\ T = S \cup {n}
        BY <1>3, <1>9, <1>12, <1>13
      <3> HIDE DEF f, g, f2, g2, S, T
      <3>4. SumFunctionOnSet(f2, T) = row.measured + SumFunctionOnSet(f, S)
        BY ONLY <1>12, <3>3, OneConfigMore, SMTT(30)
      <3>5. SumFunctionOnSet(g2, T) = row.pruned + SumFunctionOnSet(g, S)
        BY ONLY <1>12, <3>m, OneConfigMore, SMTT(30)
      <3>6. /\ Cardinality(RowsOf(T, rows')) =
                 Cardinality(RowsOf(S, rows')) + Cardinality(RowsOf({n}, rows'))
            /\ Cardinality(RowsOf(T, rows') \cap P) =
                 Cardinality(RowsOf(S, rows') \cap P) + Cardinality(RowsOf({n}, rows') \cap P)
        <4>1. AddUp(rows', S, n, T, P)
          BY ONLY <1>7, <1>12, <3>3, RowsOfMore
        <4> QED BY <4>1 DEF AddUp
      <3>7. /\ Cardinality(RowsOf(S, rows')) \in Nat
            /\ Cardinality(RowsOf(S, rows') \cap P) \in Nat
        BY <1>7, RowsOfFinite
      <3>8. SumFunctionOnSet(f2, T) = Cardinality(RowsOf(T, rows'))
        BY <1>8, <2>1, <2>2, <3>4, <3>6, <3>7
      <3>9. replay => SumFunctionOnSet(g2, T) = Cardinality(RowsOf(T, rows') \cap P)
        <4> SUFFICES ASSUME replay PROVE SumFunctionOnSet(g2, T) = Cardinality(RowsOf(T, rows') \cap P)
          OBVIOUS
        <4>1. Cardinality(RowsOf({n}, rows') \cap P) = row.pruned /\ row.pruned \in Nat
          BY <1>9
        <4>2. SumFunctionOnSet(g, S) = Cardinality(RowsOf(S, rows') \cap P)
          BY <2>1, <2>2
        <4> QED BY ONLY <3>5, <3>6, <3>7, <4>1, <4>2
      <3> QED BY <3>1, <3>2, <3>8, <3>9
    <2>4. CASE pc = "bench_failed"
      <3>1. Ok(configRows') = S
        BY <1>2, <1>3, <2>4 DEF Ok
      <3>2. /\ [k \in S |-> configRows'[k].measured] = f
            /\ [k \in S |-> configRows'[k].pruned] = g
        BY <1>3, <1>12
      <3>3. /\ MeasuredIn(configRows') = SumFunctionOnSet(f, S)
            /\ PrunedIn(configRows') = SumFunctionOnSet(g, S)
        BY <3>1, <3>2 DEF MeasuredIn, PrunedIn
      <3> QED BY <2>1, <2>2, <3>1, <3>3
    <2> QED BY <1>1, <2>3, <2>4
  <1>15. Len(configRows') = current'
    BY <1>1, <1>3, <1>4
  <1> QED BY <1>1, <1>3, <1>7, <1>10, <1>11, <1>14, <1>15 DEF AccountsInv, P

LEMMA AccountsKeep ==
  ASSUME TypeInv, BenchInv, LiveInv, AccountsInv, Next
  PROVE  AccountsInv'
  <1> USE DEF inputs, results, bench
  <1>1. CASE Account
    BY <1>1, AccountKeeps
  <1>2. CASE ServersFail
    BY <1>2, FailedRowKeeps
  <1>3. CASE Crash
    <2>1. (NothingBooked /\ pc = "crashed")'
      BY <1>3 DEF Crash, NothingBooked
    <2> QED BY <2>1, NoAccounts, PTL
  <1>4. ASSUME UNCHANGED <<args, rows, configRows>>,
               pc # "crashed" /\ pc' # "crashed" =>
                 (IF pc' = "write" THEN current' ELSE current' - 1) =
                   (IF pc = "write" THEN current ELSE current - 1),
               pc # "crashed"
        PROVE  AccountsInv'
    <2>1. \A n \in DOMAIN configRows : Booked(n)' <=> Booked(n)
      BY <1>4 DEF Booked
    <2> QED BY <1>4, <2>1 DEF AccountsInv
  <1>5. CASE WriteStep
    <2>1. /\ pc = "write" /\ UNCHANGED <<args, rows, configRows>>
          /\ (pc' = "next" /\ current' = current + 1) \/ (pc' = pc /\ current' = current)
      BY <1>5 DEF WriteStep
    <2>2. current \in Nat
      BY DEF TypeInv, TypeOK
    <2>3. (IF pc' = "write" THEN current' ELSE current' - 1) = current
      BY <2>1, <2>2
    <2> QED BY <1>4, <2>1, <2>3
  <1>6. CASE Launch \/ CheckPasses \/ CheckFails \/ PreflightEnds \/ BeginConfig
    <2>1. /\ pc \notin {"write", "crashed"} /\ pc' \notin {"write", "crashed"}
          /\ UNCHANGED <<args, rows, configRows, current>>
      BY <1>6 DEF Launch, Booting, CheckPasses, CheckFails, PreflightEnds, BeginConfig
    <2> QED BY <1>4, <2>1
  <1>7. CASE ServersUp \/ Measure \/ BenchFails \/ Finish
    <2>1. /\ pc \notin {"write", "crashed"} /\ pc' \notin {"write", "crashed"}
          /\ UNCHANGED <<args, rows, configRows, current>>
      BY <1>7 DEF ServersUp, Measure, BenchFails, Finish
    <2> QED BY <1>4, <2>1
  <1> QED BY <1>1, <1>2, <1>3, <1>5, <1>6, <1>7 DEF Next
-----------------------------------------------------------------------------
(***************************************************************************)
(* The files.                                                              *)
(***************************************************************************)

\* The beginning of configs.csv stays when a row is appended.
LEMMA StillWritten ==
  ASSUME AccountsInv, Written, UNCHANGED <<rows, summary, disk>>,
         NEW row, configRows' = Append(configRows, row), row.status = "server_failed"
  PROVE  Written'
  <1>1. PICK m \in 0..Len(configRows) :
          /\ disk["configs.csv"] = SubSeq(configRows, 1, m)
          /\ \A n \in (m + 1)..Len(configRows) : configRows[n].status = "server_failed"
    BY DEF Written
  <1> DEFINE new == Append(configRows, row)
             l == Len(configRows)
  <1>2. /\ l \in Nat /\ DOMAIN configRows = 1..l /\ Len(new) = l + 1
        /\ \A k \in 1..l : new[k] = configRows[k]
        /\ new[l + 1] = row
    BY ConfigRowAdded
  <1> HIDE DEF new, l
  <1>3. SubSeq(new, 1, m) = SubSeq(configRows, 1, m)
    <2>1. m \in Nat /\ \A k \in 1..m : new[k] = configRows[k]
      BY <1>2 DEF l
    <2> QED BY <2>1
  <1>4. \A n \in (m + 1)..Len(new) : new[n].status = "server_failed"
    <2> SUFFICES ASSUME NEW n \in (m + 1)..(l + 1) PROVE new[n].status = "server_failed"
      BY <1>2
    <2>1. m \in Nat /\ (n = l + 1 \/ n \in (m + 1)..l)
      BY <1>2 DEF l
    <2>2. CASE n = l + 1
      BY <1>2, <2>2
    <2>3. CASE n \in (m + 1)..l
      <3>1. n \in 1..l
        BY <1>2, <2>1, <2>3
      <3> QED BY <1>1, <1>2, <2>3, <3>1 DEF l
    <2> QED BY <2>1, <2>2, <2>3
  <1>5. m \in 0..Len(new)
    BY <1>2 DEF l
  <1>6. configRows' = new
    BY DEF new
  <1> QED BY <1>1, <1>3, <1>4, <1>5, <1>6 DEF Written

LEMMA SequenceOfItsRange == ASSUME NEW V, NEW s \in Seq(V) PROVE s \in Seq(Range(s))
  <1>1. s = [k \in 1..Len(s) |-> s[k]] /\ Len(s) \in Nat
    OBVIOUS
  <1>2. \A k \in 1..Len(s) : s[k] \in Range(s)
    BY <1>1 DEF Range
  <1> QED BY <1>1, <1>2

LEMMA WriteStepKeeps ==
  ASSUME TypeInv, AccountsInv, FilesInv, WriteStep
  PROVE  FilesInv'
  <1> DEFINE L == Len(io)
             next == WriteOutputs[7 - L]
  <1>1. /\ pc = "write" /\ summary = Summary(rows, configRows)
        /\ io \in Seq(Range(io)) /\ L \in 1..6 /\ DOMAIN io = 1..L
        /\ \A k \in 1..L : io[k] = WriteOutputs[6 - L + k]
        /\ L <= 4 => disk["sweep.csv"] = rows
        /\ L <= 2 => disk["configs.csv"] = configRows
    BY DEF WriteStep, FilesInv
  <1>2. Head(io) = next /\ io' = Tail(io) /\ UNCHANGED <<rows, configRows, summary, args>>
    <2>1. Head(io) = io[1] /\ 6 - L + 1 = 7 - L /\ 1 \in 1..L
      BY <1>1
    <2> QED BY <1>1, <2>1 DEF WriteStep, inputs, results
  <1>3. /\ io' \in Seq(Range(io')) /\ Len(io') = L - 1
        /\ \A k \in 1..(L - 1) : io'[k] = WriteOutputs[6 - (L - 1) + k]
    <2>1. /\ Len(Tail(io)) = L - 1 /\ DOMAIN Tail(io) = 1..(L - 1)
          /\ \A k \in 1..(L - 1) : Tail(io)[k] = io[k + 1]
      BY <1>1
    <2>2. ASSUME NEW k \in 1..(L - 1) PROVE io[k + 1] = WriteOutputs[6 - (L - 1) + k]
      <3>1. k + 1 \in 1..L /\ 6 - L + (k + 1) = 6 - (L - 1) + k
        BY <1>1
      <3> QED BY <1>1, <3>1
    <2>3. Tail(io) \in Seq(Range(Tail(io)))
      <3>1. Tail(io) \in Seq(Range(io))
        BY <1>1, SMTT(30)
      <3> QED BY <3>1, SequenceOfItsRange
    <2> QED BY <1>2, <2>1, <2>2, <2>3
  <1>4. disk' = [disk EXCEPT ![next.file] = IF next.op = "open" THEN <<>> ELSE Content(next.file)]
    BY <1>2 DEF WriteStep
  <1>5. DOMAIN disk = {"sweep.csv", "configs.csv", "summary.json"}
    BY DEF TypeInv, Files
  <1> HIDE DEF L, next
  <1>6. /\ L - 1 <= 4 => disk'["sweep.csv"] = rows
        /\ L - 1 <= 2 => disk'["configs.csv"] = configRows
        /\ L - 1 = 0 => disk'["summary.json"] = summary
    <2>1. CASE L = 6
      BY <2>1
    <2>2. CASE L = 5
      <3>1. next = [op |-> "write", file |-> "sweep.csv"]
        BY <2>2 DEF next, WriteOutputs
      <3> QED BY <1>4, <1>5, <2>2, <3>1 DEF Content
    <2>3. CASE L = 4
      <3>1. next = [op |-> "open", file |-> "configs.csv"]
        BY <2>3 DEF next, WriteOutputs
      <3> QED BY <1>1, <1>4, <1>5, <2>3, <3>1
    <2>4. CASE L = 3
      <3>1. next = [op |-> "write", file |-> "configs.csv"]
        BY <2>4 DEF next, WriteOutputs
      <3> QED BY <1>1, <1>4, <1>5, <2>4, <3>1 DEF Content
    <2>5. CASE L = 2
      <3>1. next = [op |-> "open", file |-> "summary.json"]
        BY <2>5 DEF next, WriteOutputs
      <3> QED BY <1>1, <1>4, <1>5, <2>5, <3>1
    <2>6. CASE L = 1
      <3>1. next = [op |-> "write", file |-> "summary.json"]
        BY <2>6 DEF next, WriteOutputs
      <3> QED BY <1>1, <1>4, <1>5, <2>6, <3>1 DEF Content
    <2> QED BY <1>1, <2>1, <2>2, <2>3, <2>4, <2>5, <2>6
  <1>7. io' = <<>> <=> L - 1 = 0
    <2>1. io' = <<>> => Len(io') = 0
      OBVIOUS
    <2>2. L - 1 = 0 => io' = <<>>
      BY <1>3
    <2> QED BY <1>3, <2>1, <2>2
  <1>8. CASE L = 1
    <2>1. pc' = "next"
      BY <1>7, <1>8 DEF WriteStep
    <2>2. /\ disk'["sweep.csv"] = rows /\ disk'["configs.csv"] = configRows
          /\ disk'["summary.json"] = summary
      BY <1>6, <1>8
    <2>3. /\ SubSeq(configRows, 1, Len(configRows)) = configRows
          /\ Len(configRows) \in 0..Len(configRows)
          /\ \A n \in (Len(configRows) + 1)..Len(configRows) : FALSE
      <3>1. configRows \in Seq(Range(configRows)) /\ Len(configRows) \in Nat
        BY DEF AccountsInv
      <3> QED BY <3>1, SubSeqFull
    <2>4. Written'
      BY <1>1, <1>2, <2>2, <2>3 DEF Written
    <2> QED BY <2>1, <2>4 DEF FilesInv
  <1>9. CASE L # 1
    <2>1. pc' = "write" /\ L - 1 \in 1..6
      BY <1>1, <1>7, <1>9 DEF WriteStep
    <2> QED BY <1>1, <1>2, <1>3, <1>6, <2>1 DEF FilesInv
  <1> QED BY <1>8, <1>9

LEMMA FilesKeep ==
  ASSUME TypeInv, AccountsInv, FilesInv, Next
  PROVE  FilesInv'
  <1> USE DEF inputs, results, bench
  <1>1. CASE Account
    <2>1. pc' = "write" /\ io' = WriteOutputs /\ summary' = Summary(rows', configRows')
      BY <1>1 DEF Account
    <2>2. WriteOutputs \in Seq(Range(WriteOutputs)) /\ Len(WriteOutputs) = 6
      <3>1. Len(WriteOutputs) = 6 /\ WriteOutputs \in Seq([op : {"open", "write"}, file : Files])
        BY DEF WriteOutputs, Files
      <3> QED BY <3>1, SequenceOfItsRange
    <2>3. \A k \in 1..6 : 6 - 6 + k = k
      OBVIOUS
    <2> QED BY <2>1, <2>2, <2>3 DEF FilesInv
  <1>2. CASE ServersFail
    <2> DEFINE row == [config |-> current, status |-> "server_failed"]
    <2>1. /\ configRows' = Append(configRows, row) /\ row.status = "server_failed"
          /\ pc = "start" /\ pc' = "next" /\ UNCHANGED <<rows, summary, disk>>
      BY <1>2 DEF ServersFail
    <2> HIDE DEF row
    <2>2. summary # None => Written'
      BY <2>1, StillWritten DEF FilesInv
    <2> QED BY <2>1, <2>2 DEF FilesInv
  <1>3. CASE WriteStep
    BY <1>3, WriteStepKeeps
  <1>4. CASE Crash
    BY <1>4 DEF Crash, FilesInv
  <1>5. ASSUME UNCHANGED <<rows, configRows, summary, disk>>,
               pc \notin {"write", "crashed"}, pc' # "write"
        PROVE  FilesInv'
    <2>1. Written => Written'
      BY <1>5 DEF Written
    <2> QED BY <1>5, <2>1 DEF FilesInv
  <1>6. CASE Launch \/ CheckPasses \/ CheckFails \/ PreflightEnds \/ BeginConfig
    <2>1. /\ pc \notin {"write", "crashed"} /\ pc' # "write"
          /\ UNCHANGED <<rows, configRows, summary, disk>>
      BY <1>6 DEF Launch, Booting, CheckPasses, CheckFails, PreflightEnds, BeginConfig
    <2> QED BY <1>5, <2>1
  <1>7. CASE ServersUp \/ Measure \/ BenchFails \/ Finish
    <2>1. /\ pc \notin {"write", "crashed"} /\ pc' # "write"
          /\ UNCHANGED <<rows, configRows, summary, disk>>
      BY <1>7 DEF ServersUp, Measure, BenchFails, Finish
    <2> QED BY <1>5, <2>1
  <1> QED BY <1>1, <1>2, <1>3, <1>4, <1>6, <1>7 DEF Next
-----------------------------------------------------------------------------
(***************************************************************************)
(* The invariant holds, and what it says of the files.                     *)
(***************************************************************************)

LEMMA NextInv == ASSUME IInv, [Next]_vars PROVE IInv'
  <1>1. CASE Next
    <2>1. TypeInv'
      BY <1>1, TypeKeeps DEF IInv
    <2>2. RunningInv'
      BY <1>1, <2>1, RunningKeeps DEF IInv
    <2>3. BenchInv'
      BY <1>1, BenchKeeps DEF IInv
    <2>4. LiveInv' /\ LiveMatchesReplay'
      BY <1>1, LiveKeeps, LiveMatchesReplayKeeps DEF IInv
    <2>5. AccountsInv' /\ FilesInv'
      BY <1>1, AccountsKeep, FilesKeep DEF IInv
    <2> QED BY <2>1, <2>2, <2>3, <2>4, <2>5 DEF IInv
  <1>2. CASE UNCHANGED vars
    <2> USE <1>2 DEF IInv, vars
    <2>1. TypeInv'
      BY DEF TypeInv, TypeOK
    <2>2. RunningInv'
      BY DEF RunningInv, Booting, Config, Launched, GpusFree
    <2>3. BenchInv' /\ LiveInv'
      BY DEF BenchInv, Benched, LiveInv, Stop
    <2>4. LiveMatchesReplay'
      BY DEF LiveMatchesReplay, LastConfig
    <2>5. AccountsInv'
      BY DEF AccountsInv, Booked
    <2>6. FilesInv'
      BY DEF FilesInv, Written
    <2> QED BY <2>1, <2>2, <2>3, <2>4, <2>5, <2>6
  <1> QED BY <1>1, <1>2

LEMMA Invariant == Spec => []IInv
  BY InitInv, NextInv, PTL DEF Spec

\* What configs.csv holds is the beginning of the rows, and the rows past it
\* are of no config that is ok.
LEMMA OkOfBeginning ==
  ASSUME NEW crows, crows \in Seq(Range(crows)), NEW m \in 0..Len(crows),
         \A n \in (m + 1)..Len(crows) : crows[n].status = "server_failed"
  PROVE  /\ Len(SubSeq(crows, 1, m)) = m /\ DOMAIN SubSeq(crows, 1, m) = 1..m
         /\ \A n \in 1..m : SubSeq(crows, 1, m)[n] = crows[n]
         /\ Ok(SubSeq(crows, 1, m)) = Ok(crows)
         /\ MeasuredIn(SubSeq(crows, 1, m)) = MeasuredIn(crows)
         /\ PrunedIn(SubSeq(crows, 1, m)) = PrunedIn(crows)
         /\ Cardinality(Ok(crows)) \in Nat
  <1> DEFINE s == SubSeq(crows, 1, m)
             S == Ok(crows)
  <1>1. Len(crows) \in Nat /\ DOMAIN crows = 1..Len(crows) /\ m \in Nat
    OBVIOUS
  <1>2. Len(s) = m /\ DOMAIN s = 1..m /\ \A n \in 1..m : s[n] = crows[n]
    BY <1>1
  <1> HIDE DEF s
  <1>3. Ok(s) = S
    <2>1. ASSUME NEW n \in 1..Len(crows), crows[n].status = "ok" PROVE n \in 1..m
      BY <1>1, <2>1
    <2> QED BY <1>1, <1>2, <2>1 DEF Ok
  <1>4. IsFiniteSet(S)
    <2>1. S \in SUBSET (1..Len(crows))
      BY <1>1 DEF Ok
    <2>2. IsFiniteSet(1..Len(crows))
      BY <1>1, FS_Interval
    <2> QED BY <2>1, <2>2, FS_Subset
  <1>5. \A n \in S : s[n] = crows[n]
    BY <1>2, <1>3 DEF Ok
  <1>6. MeasuredIn(s) = MeasuredIn(crows)
    <2> DEFINE f == [n \in S |-> s[n].measured]
               g == [n \in S |-> crows[n].measured]
    <2>1. \A n \in S : f[n] = g[n]
      BY <1>5
    <2>2. SumFunctionOnSet(f, S) = SumFunctionOnSet(g, S)
      <3> HIDE DEF f, g, S
      <3> QED BY <1>4, <2>1, SumSame
    <2> QED BY <1>3, <2>2 DEF MeasuredIn
  <1>7. PrunedIn(s) = PrunedIn(crows)
    <2> DEFINE f == [n \in S |-> s[n].pruned]
               g == [n \in S |-> crows[n].pruned]
    <2>1. \A n \in S : f[n] = g[n]
      BY <1>5
    <2>2. SumFunctionOnSet(f, S) = SumFunctionOnSet(g, S)
      <3> HIDE DEF f, g, S
      <3> QED BY <1>4, <2>1, SumSame
    <2> QED BY <1>3, <2>2 DEF PrunedIn
  <1>8. Cardinality(S) \in Nat
    BY <1>4, FS_CardinalityType
  <1> QED BY <1>2, <1>3, <1>6, <1>7, <1>8 DEF s

LEMMA FilesAgreeFollows == ASSUME IInv PROVE FilesAgree
  <1> SUFFICES ASSUME pc \in {"next", "done"}, summary # None PROVE FilesAgree
    BY DEF FilesAgree
  <1> DEFINE swp == disk["sweep.csv"]
             cfs == disk["configs.csv"]
             smm == disk["summary.json"]
             ok == {cfs[n].config : n \in Ok(cfs)}
  <1>1. Written /\ AccountsInv
    BY DEF IInv, FilesInv
  <1>2. PICK m \in 0..Len(configRows) :
          /\ cfs = SubSeq(configRows, 1, m)
          /\ \A n \in (m + 1)..Len(configRows) : configRows[n].status = "server_failed"
    BY <1>1 DEF Written
  <1>3. swp = rows /\ smm = Summary(rows, cfs)
    BY <1>1 DEF Written
  <1>4. /\ configRows \in Seq(Range(configRows)) /\ Len(configRows) \in Nat
        /\ DOMAIN configRows = 1..Len(configRows)
        /\ \A n \in DOMAIN configRows : Booked(n)
    BY <1>1 DEF AccountsInv
  <1>5. /\ Len(cfs) = m /\ DOMAIN cfs = 1..m /\ \A n \in 1..m : cfs[n] = configRows[n]
        /\ Ok(cfs) = Ok(configRows) /\ MeasuredIn(cfs) = MeasuredIn(configRows)
        /\ PrunedIn(cfs) = PrunedIn(configRows) /\ Cardinality(Ok(configRows)) \in Nat
    BY <1>2, <1>4, OkOfBeginning
  <1> HIDE DEF cfs, swp, smm
  <1>6. \A n \in 1..m : n \in DOMAIN configRows
    BY <1>4
  <1>7. \A n \in DOMAIN cfs : cfs[n].status # "server_failed" =>
          LET mine == RowsOf({cfs[n].config}, swp)
          IN /\ Cardinality(mine) = cfs[n].measured
             /\ Cardinality(mine \cap PrunedOf(swp)) =
                  IF args.mode = "replay" THEN cfs[n].pruned ELSE 0
    <2> SUFFICES ASSUME NEW n \in 1..m, cfs[n].status # "server_failed"
                 PROVE  /\ Cardinality(RowsOf({cfs[n].config}, rows)) = cfs[n].measured
                        /\ Cardinality(RowsOf({cfs[n].config}, rows) \cap PrunedOf(rows)) =
                             IF args.mode = "replay" THEN cfs[n].pruned ELSE 0
      BY <1>3, <1>5
    <2>1. Booked(n) /\ cfs[n] = configRows[n]
      BY <1>4, <1>5, <1>6
    <2>2. cfs[n].config = n
      BY <2>1 DEF Booked
    <2> QED BY <2>1, <2>2 DEF Booked
  <1>8. ok = Ok(configRows)
    <2>1. \A n \in Ok(cfs) : cfs[n].config = n
      BY <1>4, <1>5, <1>6 DEF Booked, Ok
    <2> QED BY <1>5, <2>1
  <1> HIDE DEF ok
  <1>9. smm.measured = MeasuredIn(cfs) /\ smm.pruned = PrunedIn(cfs)
    BY <1>3 DEF Summary
  <1>10. smm.measured = Cardinality(RowsOf(ok, swp))
    BY <1>1, <1>3, <1>5, <1>8, <1>9 DEF AccountsInv
  <1>11. args.mode = "replay" => smm.pruned = Cardinality(RowsOf(ok, swp) \cap PrunedOf(swp))
    BY <1>1, <1>3, <1>5, <1>8, <1>9 DEF AccountsInv
  <1>12. smm.configs + smm.failed = Len(cfs)
    <2>1. smm.configs = Cardinality(Ok(cfs)) /\ smm.failed = Len(cfs) - Cardinality(Ok(cfs))
      BY <1>3 DEF Summary
    <2>2. Cardinality(Ok(cfs)) \in Nat /\ Len(cfs) \in Nat
      BY <1>4, <1>5
    <2> QED BY <2>1, <2>2
  <1>13. IsPrefix(cfs, configRows)
    <2>1. SubSeq(cfs, 1, m) = cfs
      <3>1. cfs \in Seq(Range(configRows))
        BY <1>2, <1>4
      <3> QED BY <1>5, <3>1
    <2> QED BY <1>2, <1>5, <2>1 DEF IsPrefix
  <1>14. \A n \in DOMAIN configRows \ DOMAIN cfs : configRows[n].status = "server_failed"
    BY <1>2, <1>4, <1>5
  <1> QED BY <1>7, <1>10, <1>11, <1>12, <1>13, <1>14 DEF FilesAgree, cfs, swp, smm, ok

\* TypeCorrect: for every grid, ladder, mode and rule, the harness keeps the
\* shape TypeOK gives its state: what it measured is a prefix of what the
\* ladder would give, and it writes exactly while something is left to write.
THEOREM TypeCorrect == Spec => []TypeOK
  <1>1. IInv => TypeOK
    BY DEF IInv, TypeInv
  <1> QED BY <1>1, Invariant, PTL

\* NoContainerOutlives: between two configs, while the files are written and at
\* the end, no server and no collector of an earlier config runs, whatever
\* failed (start_servers' and the ladder's cleanup).
THEOREM NoContainerOutlives == Spec => []GpusFree
  <1>1. IInv => GpusFree
    BY DEF IInv, RunningInv
  <1> QED BY <1>1, Invariant, PTL

\* LiveCostsWhatReplaySays: for every ladder and every outcome of the benches,
\* under a rule live mode does not choose as it goes, live stops at the step
\* replay stops at on the whole ladder and saves the points replay prunes.
THEOREM LiveCostsWhatReplaySays == Spec => []LiveMatchesReplay
  <1>1. IInv => LiveMatchesReplay
    BY DEF IInv
  <1> QED BY <1>1, Invariant, PTL

\* FilesTellOneStory: between two configs sweep.csv, configs.csv and
\* summary.json agree, however many configs there are (write_outputs after
\* every config but those whose servers failed).
THEOREM FilesTellOneStory == Spec => []FilesAgree
  <1>1. IInv => FilesAgree
    BY FilesAgreeFollows
  <1> QED BY <1>1, Invariant, PTL
=============================================================================
