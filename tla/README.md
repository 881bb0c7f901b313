# A verification of utilyze

`utlz` (the Go and C++ program in `utilyze/`) samples GPU hardware counters,
draws them in a terminal, serves them over a websocket, and reports them, with
workload statistics scraped from the local vLLM servers, to a backend that
answers with attainable ceilings. `scripts/` drives benchmarks with it;
`scripts/sweep/sweep.py` is a sweep harness with logic of its own. This
directory holds TLA+ models of the parts that are hard to test, the TLC
configurations that check them, and proofs checked by TLAPS.

Paths below are relative to the repository; Go paths to `utilyze/internal/`
unless they start with `cmd/`, `native/` or `scripts/`.

## 1. Inventory

| component | source | state it keeps | operations | module |
|---|---|---|---|---|
| live service | `service/service.go`, `client.go` | `clients` (one 32-event channel per connection), `lastInit` | register, broadcast, write, remove; `Stream` at the far end | `LiveService`, `LiveFeed` |
| device ownership | `ffi/sampler/sampler.go`, `native/src/sampler_multi.cpp`, `sampler_state.cpp`, `cmd/main.go` | the driver's session per device, the Go handle, `initState` | `Init`, `Poll`, `Close`, shutdown of both modes | `SamplerLifecycle` |
| sampling engine | `native/src/sampler_engine.cpp`, `sampler_state.cpp` | counter data image, ring, worker flags | rotate passes, decode, publish, poll, `Cleanup` | `SamplerEngine` |
| NVML client, collector | `ffi/nvml/nvml.go`, `metrics/collector.go` | `deviceState` per device with `initOnce`, last NVLink totals | `device`, `pollBandwidth`, `GetComputeProcesses`, the collector's tick | `NvmlClient` |
| workload windows | `metrics/vllmstats.go` | `prev`, `lastEmit` per endpoint | `Scrape`, `prune` | `VllmScraper` |
| reporter | `metrics/reporter.go` | `windowBuf`, contexts | `Observe`, `Start`, `tick`, post, `Stop` | `Reporter`, `ReportFeed` |
| attribution | `inference/scanner.go` | cache of one entry per GPU | `Scan` | `InferenceScanner` |
| terminal screen | `tui/screens/top/*` | settings, samples, what was last drawn, the chain of `drawMsg`s | every key and message | `TopScreen` |
| sweep harness | `scripts/sweep/sweep.py` | grid, ladder, rows, three output files | preflight, boot, bench, stop rule, accounting, rewriting | `Sweep` |
| procfs readers, vLLM backend | `inference/procfs`, `inference/vllm` | none | parse `/proc` and one HTTP answer | used by `InferenceScanner` |
| CUPTI loader and cache | `ffi/cupti` | a cache directory per release, libraries opened | search, prompt, download, extract, load | `CuptiCache` |
| config store | `config/config.go` | a file with the client ID | `Load`, `Save` | `ConfigStore` |
| startup and mode | `cmd/main.go` | who has the GPU, who listens on the port | server, local or client, in the order of `main.go` | `Startup` |
| time-series chart | `tui/components/tschart` | samples, a grid per series and threshold, the range, cached labels and picture | push, layout, modes, thresholds, draw | `TsChart` (one point per line in `TopScreen`) |
| spinner, format, theme, pypi, version, payload | | none of interest | | not modelled |
| other scripts | `scripts/*.py`, `run_all.sh` | none | sequential | not modelled |

How they interact. The collector goroutine polls the native sampler and NVML
and sends snapshots on a channel. In server mode `RunCollector` hands each to
the reporter (`Observe`) and broadcasts it through the service; the reporter's
goroutine takes what it observed at each tick, asks the scanner which models
run where, scrapes their servers, posts the window and passes the ceilings of
the answer to `OnCeiling`, which broadcasts them. A viewer's `Stream` feeds the
events to the screen's event loop. In local mode the same snapshots and
ceilings go to the screen of the process itself. Several starts of `utlz` on one
machine share the config file, the CUPTI cache, the GPUs and the port. The
screen pushes samples to its charts and has them drawn. The sweep harness is a viewer
too, through a collector script.

What is hard here, and what makes each part correct:

- *live service*: two broadcasters, one goroutine per connection, channels that
  overflow, peers that stall. A viewer must be told the devices first and
  once, miss only what overflowed, and never hold up the others.
- *device ownership*: one driver session per device for all processes, failure
  in the middle of creation, `Close` while a poll is inside the native code.
  Nothing may stay locked.
- *sampling engine*: a worker between two SDK calls, each of which may fail,
  and a caller that stops it anywhere. A window must be one whole rotation.
- *NVML client*: counters that are read in vain or start again; a list probed
  and filled in two calls.
- *workload windows*: cumulative counters of engines that restart, join and
  leave between scrapes.
- *reporter*: posts that arrive and whose answers are lost; stopping early.
- *attribution*: sessions that end, whose ID is used again, or that change
  models between two reads of a scan and between two scans.
- *screen*: a chain of timers that must neither break nor multiply.
- *startup*: files written in place or one after the other, by processes that
  are killed and started again; the order in which the GPU and the port are taken.
- *chart*: grids, labels, thresholds and range are renewed by different calls,
  in any order; rounding at the ends of the range.
- *sweep*: a rule asked of a part or of the whole, files rewritten in place,
  boots and benches that fail.

`PROJECT.json` lists each such hazard with its line and the properties that
cover it, or why none does.

## 2. Plan

Done in this order: the live service with its abstract feed and proofs, device
ownership, the engine, the workload windows, the reporter with its abstract
feed, attribution, the screen, the sweep, the NVML client, the startup with
config store and CUPTI cache, the chart.

The set of runs is kept small, one for each question: a component to come is composed
with one that is there, or takes the place of a run that has said its part.

Next:

- Theorems that join components: that what `Startup` promises of the port and the GPU follows
  with `SamplerLifecycle` in the place of its single step.
- A `Pipeline` that composes collector, service, reporter and a viewer, and
  gives the server and the viewer clocks of their own (`model.go:134` seeds
  the time of the bandwidth chart with the viewer's: a server whose clock is
  behind has its bandwidth samples dropped until it has caught up).
- `mergeWorkloads` and `mergeHistograms` of the reporter, and `diffHistogram`
  with several edges, against reference definitions.

Modules that are to be proved about have no RECURSIVE operator, one action per
operation and invariants in named parts. One module of proofs may be about two
components; the definitions both would have are then prefixed in one of them
(`ScannerSpec`, `ScraperSpec`, `EngineSpec`, `ChartSpec`, ...).

## 3. The modules

**LiveFeed** says what one viewer is promised: the events of one sequence, the
first of which is init; each viewer is shown init first, then newer and newer
events, some possibly left out; an ended feed shows nothing more. It counts what
was shown, so that showing an event twice is not a stutter.

**LiveService** is the hub. `log` is the sequence of all broadcasts; an event is
its position in it. Each critical section of `Service.mu` is one action
(`AddClient` registers and copies `lastInit`; `BroadcastLocked` sends to every
channel with room and drops for the others). A handler goroutine is the program
counter `handler[c]` (accepted, select, write, leaving, removed, returned),
following `handleLive` and its deferred calls in reverse order. `FeedSpec` is
`LiveFeed` with `seen` the last event `Stream` handed over and `shown` their number.

**SamplerLifecycle** has several processes over one set of devices. `Init`
creates one native state after the other, each of which may fail to get its
session; `Close` destroys the native sampler, clears the handle and unregisters, in the order
of `sampler.go`. `NewCollector` may fail before `Init`, and `newMetricsReporter` after it,
whose error runs the deferred `Close` before any collector goroutine is there. A
cancellation may come at any time, but only the collector looks at it. The collector's poll is split in the check of the handle, the
entry in native code and the return. Local processes close after their
collector has ended, servers from the deferred call of `runServer`.

**SamplerEngine** is one device: the worker rotates `NumPasses` passes, starts
and stops each, triggers, decodes into the image and publishes the image as a
window when a rotation is complete; SDK calls fail at will, a decode also after it
has written the image. An image or window
is the set of (rotation, pass) pairs decoded into it, which is all the
properties need to tell a good window from a mixed one.

**NvmlClient** has the two goroutines that share the client. `entry[d]` is the
`sync.Once` of a device; initialization asks for the links one by one, and the
other caller waits. That is more than this program does: `newMetricsReporter` asks for
the UUID of every GPU (`main.go:441`), which initializes it, before either goroutine is
started; the client itself does not require it. `CollectLinks` is `pollBandwidth` with single fields that
may fail, and `prevLink` the total and time the next rate is taken from; `window`
records, as history, the traffic and time since that poll. A device listed twice
has no rate at its second turn, whose time is that of the first (`HasRate`).
`Tick`, `Collected` and `NextDevice` are the collector's loop.

**VllmScraper** has endpoints with engines whose counters start at zero when an
engine does, and the scraper's two maps. A tick may end before the prune and the
scrapes (`IdleTick`: no snapshot, or a failed scan). A request is short or long (either
side of one histogram edge).

**Reporter** numbers snapshots. The HTTP client and the backend are apart: a
request may be received after the client gave up, an answer lost. **ReportFeed**
promises: windows are disjoint and in order, each posted once, and ceilings
shown never go back to an older window.

**InferenceScanner** is `Scan` for one GPU, in the steps in which it reads the
host: list the processes on the GPU, stat each, stat the leader of each session found,
use the cache, or probe and store. The host moves between any two. A process that has
gone when its stat is read is put in session 0, as in the code.

**TopScreen** is the event loop of the screen. A chart is the set of its lines'
last times; what is on the terminal is `drawn`. Draw messages and timers on
their way are counted, so that a broken or a doubled chain shows.

**ConfigStore** is `Load` and `Save` for several processes on one file: the
truncation and the write of a save are two steps, either may fail or be the last
of a killed process. `ReadFile` may fail whatever the file holds, and `Load` then makes and
saves a new ID as if there were none (`ReadFails`). A process stands for the one random ID it can make. `sole` is
history: whose start no other save overlapped, whose own did not fail, and after whom no start failed to read.

**CuptiCache** is `load` with `loadFromDirs`, library by library, and
`installWheel` up to its deferred `Remove`, for several processes that share the cache.
A release is a directory; the system's directories are one. `spared` and `excused`
are history: who started when an installed directory was complete, and who met an
error, a refusal or a rival. In which order the directories of a search are tried is
left open, so that what holds does not rest on it.

**Startup** composes both in the order of `cmd/main.go`: config, mode, CUPTI, GPU,
reporter, port, and the shutdown of each mode. It extends `CuptiCache` and
instantiates `ConfigStore`; taking the GPU is one step here and a module there
(`SamplerLifecycle`), a process that `sampler.Init` does not return to is `stuck`.

**TsChart** is one chart. A grid is its size and the set of its marks, a cell with a
direction for plain lines and a dot of the 2 by 4 of a cell in detail mode. Draws resample
the window, find the range, clear and plot the grids and render the picture, which
is the set of cells in which each series is seen. What was plotted is kept as
history, so that marks can be compared with values. The y axis is there, as the
screen asks for it; its labels are what they were rendered for.

**Sweep** is `sweep.py` from the preflight to the last print. What the servers
of a config would measure is fixed when they are up (`ladder`), and `points` is
what was measured of it, so that a live ladder can be compared with replay's.
The output files are modelled by the truncation and the write of each. Costs are
counted in points, and a point either reaches 90% of its ceiling or does not. A
config's id begins with its place in the grid (`config_id`), and that place stands
for it. What a list comprehension keeps is `Kept`, which takes the positions in their order.

## 4. Runs

Each run answers one question; bounds are in its `.cfg`.

| run | question | bounds, and why they are enough |
|---|---|---|
| `live_feed` | Does every viewer get the promised feed, is a closed one forgotten, one that stays caught up? | two viewers, a channel and a socket of one event, one snapshot: channels fill with init, a snapshot and a broadcast of ceilings; viewers are alike and interact only through the broadcast |
| `sampler_lifecycle` | Is every session accounted for, and is no freed sampler polled? | a local process and a server, two devices, one of them listed twice |
| `sampler_engine` | Are windows whole, the ring right, does `Cleanup` return? | two passes of two triggers, one warm-up rotation, five rotations, a ring of two: it overflows |
| `nvml_client` | Are links known before they are read, rates the traffic, lists whole? | one device of two links, listed twice, three ticks (two rates), one unit of traffic per link, one reset, two processes and no padding, so that the fill overflows |
| `vllm_windows` | Do the windows count what happened? | one endpoint, two engines, three restarts, joins or leaves, five ticks with a TTL of three |
| `reporter` | Is each snapshot in one window, once? | four snapshots: up to four windows in flight |
| `inference_scans` | Is an attribution true of a session that is there? | two session IDs, three starts (one ID is used again), three scans, a cache for one of them |
| `screen` | Does the screen freeze, show the present while paused, leave a change undrawn; do header and charts agree? | every key and terminal message, two of them pressed (a pause and its end, a pause and a reset, ...), one GPU, two ceilings, two clock steps at a resolution of two, so that times are truncated |
| `startup` | Does a machine keep its ID, is CUPTI loaded from one good directory and installed whatever an earlier install left, does the listener have the GPU? | two processes started again and again, killed anywhere; two releases, the second published at any time; the system has a stub host library, the case that is hard to tell from a good one; the ID of a start that is past `Load` and does not count is left out of the view, since nothing reads it any more |
| `chart` | Do the marks fit, tell their values, on one scale, and only those asked for? | two series, two samples at two times, drawn at two, at a resolution of two, so that both draws are truncated (a value may lie before the window or after the draw, replace one of its time or come too late), a canvas of 3 by 3, of 3 by 2 with an axis and of none; values in the lowest 0.5% of a range, in its middle, above the fixed one, and none; one threshold |
| `sweep` | Are the harness's stops, files and containers right? | two grids of two configs with one, two and four replicas, two features, a ladder of three steps, two throughputs; replay and live; every rule |

`CHECK_DEADLOCK FALSE` is given where the system may stop: viewers have left,
the processes have ended, the counters of a bound are used up, the sweep is done.
`nvml_client` never stops, because scans go on.

### What the properties say

- `InitFirst`, `NoSilentLoss`: init is the first event written to a connection
  and no other; a live handler misses nothing but what overflowed its channel.
- `ViewersServed`: a connection whose `Stream` ended leaves the hub, although its
  handler may be in a write that nobody reads (`GoneIsForgotten`); one that stays
  registered is shown all that was queued for it (`CaughtUp`).
- `SessionsAccounted` (`NothingLeaked`, `RegistryHeld`, `NoPollAfterDestroy`): a device in session
  belongs to a sampler that can still release it, and what the registry
  lists is held; no local process polls a sampler that is gone. `CancelReleases`: a cancelled local
  process gives everything back.
- `Windows` (`OneRotationEach`, `WholeRotations`, `WarmupHidden`, `EachOnce`,
  `RingIsRecent`), `SessionOutlivesWorker`, `CleanupReturns`.
- `ReportsTrue` (`TrafficCounted`, `NothingMissed`): between two polls that read every field, the rate is the
  traffic of the links over the time between them, although polls between
  failed, and no more when the counters were reset; a process
  that was there throughout the call is in the list, or the call fails.
- `Counted` (`NeverOvercounted`, `SharedOut`, `NoFalseReset`, `NoGhost`): windows count
  what happened, are thrown away only for a reset, and what is shown is fresh and from since the endpoint was last attributed.
- `Conserved`: every snapshot is in exactly one place, in order. `Progresses`
  (`Settles`, `StopEnds`). `FeedSpec`: the refinement.
- `AttributionsTrue` (`AnswersHold`, itself `SameIncarnation` and `NotStale`, and
  `NoResurrection`).
- `DrawChain` (`NeverFrozen`, `ChangesAreDrawn`, `OneChainPerInput`),
  `PausedShowsThePast`, `CatchesUp`, `HeaderAgrees` (`MetricAgrees`, `CeilingAgrees`).
- `IdentitySticks`: a start whose `Load` no other save overlapped, and nothing
  failed, has the ID the file holds, until a start cannot read the file. `OneLibrary`: who has loaded CUPTI holds
  both libraries of one whole directory and nothing of the others; who failed or
  prompts holds none. `InstallsLast` (`PromptsOnce`, `LeftoversHarmless`): nobody is
  asked to install what is there, and an install fails only by an error of its
  own or a rival at the same time. `ListenerCollects`: who listens on the port has
  the GPU, until it stops.
- `LineTells`: columns of a line join from value to value without holes, gaps are
  empty, order is kept, edge rows are for edge values. `OneScale`: lines, thresholds
  and labels are on the range last drawn, which holds every value seen. `OnlyAsked`.
- `GpusFree`: between configs no replica that was started for an earlier one runs.
  `LiveMatchesReplay`: under a fixed rule live stops where replay says it would,
  and saves what replay says it would. `FilesAgree`: rows, configs and summary tell one story.

Every property is violated when one definition of its model is replaced by the
mutant beside it, a slip the code could have had; `PROJECT.json` pairs them.

### Where code and documentation part

This run ends with a counterexample.

| run | what happens |
|---|---|
| `sampler_init_returns` | No device can be initialized: `Init` calls `Close` while it holds the mutex `Close` takes, and never returns (`sampler.go:88`). |

The models show more, for which no run of their own is kept:

- `Load` takes any error of `ReadFile` for a file that is not there (`config.go:96`): one start
  that cannot read a good file, for want of a descriptor say, replaces the machine's ID by a
  new one. `IdentitySticks` excepts who loaded before such a start, and fails without the exception.
- An engine that restarts and counts past the baseline before the next scrape, or whose
  loss another engine makes up, yields a window that spans a reset. The comment on
  `monotonic` says it rejects those (`vllmstats.go:197`); `SharedOut` excepts such windows.
- A sweep that ends after `sweep.csv` was truncated and before it is written
  again leaves none of the earlier rows (`sweep.py:328`), where `sweep.py:19` says a
  crash "keeps everything measured so far". `FilesAgree` speaks of the time between two configs.
- Of two installs of one release at a time, one may fail because the other's
  deferred `Remove` takes the wheel (`download.go:71`), and be told so although the
  libraries are there in the end. `LeftoversHarmless` excuses just those.
- `SetDetailMode` (`tschart.go:502`) does not render the labels of the y axis again,
  although their rows depend on the mode; they move at the next layout or change of range.
- In local mode the question whether to install CUPTI is read from standard input
  (`download.go:54`) by a goroutine next to the screen's program, which reads the
  same terminal (`main.go:291`). The model lets the answer be yes, no or an error.
- Under rule auto a live ladder whose first points have no ceilings may stop by
  plateau where replay, which sees ceilings later in the ladder, uses sol90.
  `LiveMatchesReplay` therefore excepts auto, and fails without the exception.
- A config whose servers fail is left out of `configs.csv` and `summary.json`
  unless a later config is accounted (`sweep.py:19`: "rewritten after every config");
  `FilesAgree` allows just that.
- The preflight boots the first config that uses a feature. When that config
  also uses another, broken one, configs are dropped whose features all start.

## 5. Fairness

- `LiveService`: weak fairness of each connection's handler and of each `Stream`
  (a runnable goroutine runs). Dialling, quitting and new snapshots are not fair.
  A write to a stalled peer is covered because the five seconds of its timeout
  make `WriteFails` enabled.
- `SamplerLifecycle`: weak for the goroutines of a process; strong for the
  collector's return, because its `select` between the ticker and the cancelled
  context is taken again and again and Go chooses among ready cases at random;
  a local process calls `Close` when its collector has ended.
- `SamplerEngine`: weak for the worker thread and for `Cleanup`, which joins it.
- `Reporter`: weak for the goroutine, strong for its return (the same kind of
  `select`), weak for the deferred cancellation of the parent context in `main`.
- `TopScreen`: weak for the screen's own messages together (`Own`): a draw message or a
  timer on its way is handled, in whatever order.
- `NvmlClient`, `VllmScraper`, `InferenceScanner`, `Sweep`, `Startup`, `TsChart`: safety only.

## 6. Proofs

Each proof module EXTENDS the model it is about. `LiveServiceProofs` proves for every set of connections, every capacity and
every number of snapshots, from `LiveAssumption` (capacities are positive):

- `TypeCorrect`: `TypeOK` always holds, with the bound on each channel.
- `InitComesFirst`: `InitFirst` always holds.
- `WrittenInOrder`: every connection is written strictly newer events (`InOrder`).
- `ImplementsFeed`: `Spec` implements `LiveFeed`; every step is a step of the feed
  or a stutter.

The argument. `InitFirst` speaks of what was written only, and is not inductive:
an event about to be written could be init again. `IInv` adds what is on its way:

- `LogInv`: init is event 1 and no other event, and `lastInit` is 1 once it
  was broadcast, which is before anything else is.
- `OrderInv(c)`: written, in hand and queued, in this order, are sorted and in
  the log. A broadcast appends the newest event (lemma `AppendSorted`), taking
  and writing move along the pipeline (`TailSorted`), and registering copies
  `lastInit` into an empty one.
- `FirstInv(c)`: the first event of the pipeline is 1, because a connection that
  registers after init holds a copy and one that registers before is in
  `clients` when init is broadcast, with an empty channel.
- `DialInv`: what a connection has before it is accepted.

One step of the inductive proof per action; `OthersUntouched` says that an action of
one connection leaves the others alone. `ImplementsFeed` follows from `SeenAdvances`
(an event read is newer, and the first is init) and `SeenKept`.

`StartupProofs` proves for every set of processes, every sequence of releases and
whatever the system's directories hold, from `ProcAssumption` (a process is none of
the marks the file or a variable may hold instead of one) and `CuptiAssumption`
(there is a release, and only a host library can be a stub, which is the one
`loadFromDir` probes):

- `TypeCorrect`: `TypeOK` always holds.
- `KeepsIdentity`: `IdentitySticks`, the client ID of whoever loaded or saved alone, as long as
  no later start fails to read the file.
- `LoadsOneLibrary`: `OneLibrary`, what is open after a load and after a failed one.
- `InstallsOnce`: `InstallsLast`, no second prompt, no harm from what a failed install left.
- `ListenersCollect`: `ListenerCollects`, the port goes with the GPU.

The invariant is the conjunction of three that share no variable but those of
`Startup`. `ConfigInv` adds to `IdentitySticks` that while a process that counts is
done nobody saves, and that one that counts saves alone: without it a save under way
could change the file after the fact. A start that fails to read leaves none of those who are
done among them, so that its save changes nobody's ID who counts. `CuptiInv` says for each process what it has
open at each point of `loadFromDir` and that it is of a directory it still tries
(`HandlesInv`); that an install has its directory, its wheel and the libraries it
extracted, or an excuse (`InstallInv`); that a start which a whole directory spared the
prompt still has one to try (`SparedInv`); and that of two who install one release
both are excused (`RivalsInv`), because the `Remove` of one takes the wheel of the other.
Libraries only ever become whole and directories stay (`DirsGrow`), so a step of one
process keeps what holds of the others (`StepKeeps`), and each action's lemma looks at
its own process only. `OwnerInv` relates the port, the GPU and the stage of a process.

The other theorems of `LiveServiceProofs`, and those of the remaining modules:

- `LosesNothing` (`NoSilentLoss`): for a connection that is registered, is not leaving and
  never overflowed, what was written, in hand and queued is exactly init and the
  broadcasts since it joined (`LossInv`: `Pipeline(c) = Due(c)`).
- `ReporterProofs`, for every number of snapshots: `TypeCorrect`, `Conserves`
  (`Conserved`) and `ImplementsFeed`, the refinement of `ReportFeed`. The invariant adds
  that no request is empty and that while one is posted its ceilings cannot have been
  shown; `WindowSettled` and `Cuts` say which windows the feed sees at each step.
- `SamplerProofs`, on ownership, for every set of processes and devices, from
  `LifecycleAssumption` (each process asks for some devices, and `"none"` is no
  process): `TypeCorrect` and `AccountsForSessions` (`SessionsAccounted`). The invariant
  speaks of one process at a time: what it holds at each point of `Init` and `Close`
  (`HeldInv`), what its registry lists (`RegistryInv`), and that the collector of a
  local process has ended before `Close` begins (`PollerInv`). `OthersKeep` shows that a step
  of one process leaves these alone for the others.
- `ReporterProofs`, on attribution, from `ScannerAssumption`: `ScannerTypeCorrect` and `AttributesTruly`
  (`AttributionsTrue`). `EntryInv` orders the times behind a cached entry: the start it was
  stored for, the probe, the last update; `ListInv` says that a session read so far
  is no older than a probe of its ID, which a key that is read now brings with it (`NewKey`), so that
  every read of a scan keeps it (`ReadsOn`); `IdleInv` that between scans nothing is remembered that the
  latest did not return. Steps of the host come in anywhere (`HostKeeps`).
- `ScreenProofs`, on the screen, from `ScreenAssumption`: `TypeCorrect`, `DrawsOn` (`DrawChain`),
  `PauseHolds` (`PausedShowsThePast`) and `OneStory` (`HeaderAgrees`). `LoopInv` adds to the
  chain that nothing draws before there are charts; `PastInv` that nothing drawn is later than
  the time at which a pause stops the screen, because the right edge of a line is made
  of samples up to the draw (`EdgeIsPast`); `HeaderInv` that no line ends after the latest snapshot
  or the time, so that what comes next is pushed and not dropped (`Pushed`).
- `SamplerProofs`, on the engine, for every number of passes, triggers and records, from
  `EngineAssumption`: `EngineTypeCorrect`, `SessionOutlives` (`SessionOutlivesWorker`) and
  `WindowsAreWhole` (`Windows`). `PassInv` is the heart: unless it was told to stop, the image holds
  the passes of the current rotation done so far (`Done`), so after the last it holds all
  (`AllPasses`, by arithmetic modulo `NumPasses`). `HistoryInv` and `WarmInv` count: a rotation
  that was not shown has no window and has yet to count for the warm-up. `RingPlaces` describes the ring by position,
  which is what a step that overwrites one place disturbs.

Rates, windows and summaries are sums, over links, engines, requests and configs. `SumLemmas`
has what the proofs need to know of `SumFunctionOnSet`: sums of numbers are numbers
(`SumOfNumbers`), add up pointwise (`SumAdds`), lose a summand with its element (`SumWithout`),
and depend on the summands alone (`SumSame`). The library's induction on finite sets cannot
be instantiated here; `NumberInduction` (a set of numbers with 0 and every successor is `Nat`,
by the least number that is missing) and `SubsetInduction` take its place, for sets
instead of predicates. `HasLeast` and `HasGreatest` do the same
for `Min` and `Max`. These lemmas carry:

- `CounterProofs`, on the client, from `NvmlAssumption`, for any devices, links and list of
  monitored devices, also one with repetitions: `TypeCorrect`, and `TellsTheTruth`
  (`ReportsTrue`: `TrafficCounted` and `NothingMissed`). `OnceInv` says that at most one
  caller runs the init of a device and whoever passed it finds no link unasked, so that no
  total is of a part of the links; `TotalInv` that a total that is kept is the sum of what
  the counters stood at then (`Before`: now less what moved since), or, after a reset, that no counter is past
  what moved; `SentInv` that what is on its way to a snapshot is true; `CallInv`
  that who was there throughout a call is there now.
- `CounterProofs`, on the scraper, from `ScraperAssumption`: `ScraperTypeCorrect` and
  `CountsTruly` (`Counted`). `BaseInv` is the heart: what the listed engines have served of
  a kind is no more than the baseline of the endpoint and what was done since it was taken, and exactly that
  as long as no engine restarted, joined or left. `EmitInv` ties the last window to
  the attribution it was emitted in, and `ToldInv` says what an answer told is true of the steps behind it.
- `SweepProofs`, from `SweepAssumption`, for any grids, features, modes, rules and any
  increasing ladder (which `LADDER`, `sweep.py:39`, is): `TypeCorrect`, `NoContainerOutlives` (`GpusFree`),
  `LiveCostsWhatReplaySays` (`LiveMatchesReplay`) and `FilesTellOneStory` (`FilesAgree`).
  `RunningInv` says that a boot has launched replicas 1 to k. `BenchInv` says that what is
  measured is the ladder before the step in hand, and `LiveInv` that live mode has not seen the rule fire, or
  saw it at its last point: then the stop of the part is that of the whole
  (`LiveStopIsReplays`), because whether the rule fires at a step depends on the steps up to it
  and a fixed rule does not change. That the ladder increases makes what a config can measure an
  upper end of it, so that no step is missing in between. `AccountsInv`
  relates each row of `configs.csv` to its rows of `sweep.csv` and the sums to all of them
  (`Booked`); `FilesInv` says what has reached the disk at each step of `write_outputs`, and that afterwards
  only rows of failed boots are missing (`Written`), which change no total (`OkOfBeginning`).
  The rank of a number in a set and its inverse `Nth` (`RanksBijection`) stand behind every list of points or configs that was filtered.
- `ScreenProofs`, on the chart, from `ChartAssumption` (the range begins at 0 or above, and for each value
  there is a nice number that is enough for an automatic range), for any sizes, resolution, lists of names,
  thresholds, values and gaps: `ChartTypeCorrect` (`ChartTypeOK`), `LinesTell` (`LineTells`), `DrawsOnOneScale`
  (`OneScale`) and `ShowsOnlyAsked` (`OnlyAsked`). Three parts need no state. Rows: `RowOf` stays among
  the rows and falls as values grow (`RowOfBounds`, `RowOfFalls`, from what a quotient is), also with the first and
  last rows kept (`PlainRowFalls`, `EndsAreNear`). Lines: `LineRounds` gives Bresenham's walk to the
  next column in closed form, one row at a time with the first half of them in the left column; that it is the
  walk of `drawLine` is an induction over the rounds (`RoundsOnce`), and `LineJoins` says what follows
  for the marks; `SegmentIs` does it for connectors. `DotsTell` and `ConnectorsTell`
  then say of all the columns which rows they hold and why. Values: what a column shows is 0
  or lies in the window (`ResampleIs`), so the range holds it (`RangeHolds`). The
  invariant `ChartIInv` adds to the properties that all grids have the size of the canvas (`GridsOK`) and that the grid of
  a series that was plotted has the marks of its values in the mode, canvas and range of now (`PlottedOK`):
  without it, a layout, a mode or a range that changes between two draws could leave marks of
  the old one. `AskedAreShown` finds who is seen in a cell: the first series asked for that covers it.

Every invariant the runs check is proved. Only model-checked are the liveness properties (and
with them what rests on fairness), for which, as for ENABLED, the prover has no rules.

## 7. Not modelled

Formats, colours, wording and layout; values of metrics beyond what the
properties tell apart; the parsing of `/proc`, of Prometheus text and of JSON;
the SDK, NVML, docker and the backend, which appear through the outcomes their
callers distinguish; which mode the flags and the environment ask for, `--endpoints`
and the update check of `main`; the spinner; the styles of a chart, the text of its axes and its
cached view, its x axis;
samples older than any window (`trimSamples`); events that cannot be encoded (`WriteFails` is the
write's failure); of `monotonic` the comparison of the latency sum and of the bucket count, which
restart with the rest; an `InitMsg` that comes twice or without a GPU; a docker run that
starts a container and returns an error, and a docker rm -f that fails, which leave a
container the harness does not know of; `--dry-run` and runs of the sweep without `--utlz-url`; the
components of section 1 marked not modelled.
