------------------------------ MODULE TopScreen ------------------------------
(***************************************************************************)
(* The terminal screen (tui/screens/top): one event loop that handles      *)
(* keys, the messages of the feed, and the drawMsg its own commands send.  *)
(* Each chart is reduced to the right edge of its lines.  Time is counted  *)
(* in clock steps, one clock for the collector and the viewer.  What a     *)
(* metric sample says is the time it was polled.                           *)
(***************************************************************************)
EXTENDS Integers, Sequences, FiniteSets, SequencesExt

CONSTANTS
  GPU,            \* the monitored devices
  Ceiling,        \* attainable ceilings the backend may give
  Report,         \* the sets of kinds of metrics that a snapshot may have of a GPU
  Resolution,     \* model.resolution, in clock steps
  Key,            \* the keys pressed; "size" and "colour" stand for the terminal's messages
  MaxClock,       \* bound on time
  MaxInputs       \* bound on keys pressed and terminal messages

Kind == {"sol", "gr_active", "sm_activity", "bandwidth"}

ASSUME ScreenAssumption ==
  /\ GPU # {} /\ "bandwidth" \notin GPU
  /\ "none" \notin Ceiling
  /\ Report \subseteq SUBSET Kind
  /\ Resolution \in Nat \ {0} /\ MaxClock \in Nat /\ MaxInputs \in Nat

VARIABLES
  initialized,    \* InitMsg has been handled: there are charts
  mode,           \* metricsMode
  enabled,        \* enabledSeries
  detail,         \* detailMode
  showBandwidth,
  paused,
  pausedAt,       \* the time of the pause
  samples,        \* samples[chart, series] is what the chart keeps of the series
  header,         \* the last values the header shows
  gpuCeilings,    \* ceilings the header shows
  drawn,          \* what the charts show: their lines at the latest draw, or blank
  draws,          \* drawMsgs on their way
  ticks,          \* timers that will send a drawMsg
  clock,          \* time
  polled,         \* time stamp of the latest snapshot
  inputs          \* keys and terminal messages so far

loop == <<draws, ticks>>
settings == <<mode, enabled, detail, showBandwidth>>
pause == <<paused, pausedAt>>
vars == <<initialized, settings, pause, samples, header, gpuCeilings, drawn, loop,
          clock, polled, inputs>>

blank == [lines |-> {}, style |-> "none"]

Modes == <<"sol", "gr_active", "sm_activity">>

\* seriesNames: the series of a mode; "bandwidth" is that of the other chart.
SeriesOf(kind) ==
  CASE kind = "sol" -> {"compute", "memory"}
    [] kind = "gr_active" -> {"gr_active"}
    [] kind = "sm_activity" -> {"sm_activity"}
    [] kind = "bandwidth" -> {"nvlink", "pcie"}

MetricSeries == UNION {SeriesOf(Modes[i]) : i \in DOMAIN Modes}

\* The lines there may be, by chart.
Line == (GPU \X (MetricSeries \union {"attainable"})) \union ({"bandwidth"} \X SeriesOf("bandwidth"))

Init ==
  /\ initialized = FALSE
  /\ mode = "sol" /\ showBandwidth = TRUE /\ detail = "plain"
  /\ enabled = MetricSeries \union SeriesOf("bandwidth")
  /\ paused = FALSE /\ pausedAt = 0
  /\ samples = [l \in Line |-> <<>>]
  /\ header = [l \in Line |-> 0]
  /\ gpuCeilings = [g \in GPU |-> "none"]
  /\ drawn = blank
  /\ draws = 0 /\ ticks = 0
  /\ clock = 0 /\ polled = 0
  /\ inputs = 0
-----------------------------------------------------------------------------
(***************************************************************************)
(* The charts.                                                             *)
(***************************************************************************)

\* Mutant: a second sample of the same time is dropped.
Push_KeepsFirst(kept, t, value) ==
  IF kept = <<>> \/ t > Last(kept).t THEN Append(kept, [t |-> t, value |-> value]) ELSE kept

\* A sample older than the last one is dropped, one of the same time replaces it.
Push(kept, t, value) ==
  IF kept = <<>> \/ t > Last(kept).t THEN Append(kept, [t |-> t, value |-> value])
  ELSE IF t = Last(kept).t THEN [kept EXCEPT ![Len(kept)].value = value]
  ELSE kept

\* resample's last column: the latest sample up to then, or 0.
Edge(kept, end) ==
  LET upTo == {i \in DOMAIN kept : kept[i].t <= end}
  IN IF upTo = {} THEN [t |-> 0, value |-> 0] ELSE kept[CHOOSE i \in upTo : \A j \in upTo : j <= i]

\* Mutant: the charts run on while paused.
DrawTime_IgnoresPause == clock - (clock % Resolution)

\* draw's now, truncated to the resolution.
DrawTime == LET now == IF paused THEN pausedAt ELSE clock IN now - (now % Resolution)

\* The lines the current mode shows.
Shown ==
  LET series == SeriesOf(mode) \intersect enabled
      attainable == IF mode = "sol" /\ "compute" \in enabled THEN {"attainable"} ELSE {}
  IN (GPU \X (series \union attainable)) \union ({"bandwidth"} \X (SeriesOf("bandwidth") \intersect enabled))

\* What a draw puts on the charts.
Picture(kept) ==
  [style |-> detail,
   lines |-> {<<l, Edge(kept[l], DrawTime)>> : l \in {k \in Shown : kept[k] # <<>>}}]

\* beginDraw: a drawMsg, when there is something to draw on.
BeginDraw == draws' = IF initialized THEN draws + 1 ELSE draws
-----------------------------------------------------------------------------
(***************************************************************************)
(* The loop's own messages.                                                *)
(***************************************************************************)

\* A draw goes on to the next by a timer, unless paused.
Draw ==
  /\ draws > 0
  /\ drawn' = Picture(samples)
  /\ draws' = draws - 1
  /\ ticks' = IF paused THEN ticks ELSE ticks + 1
  /\ UNCHANGED <<initialized, settings, pause, samples, header, gpuCeilings, clock, polled,
                 inputs>>

\* Mutant: the timer is not counted off when it has fired already.
Tick_Again ==
  /\ initialized
  /\ ticks' = ticks - 1
  /\ draws' = draws + 1
  /\ UNCHANGED <<initialized, settings, pause, samples, header, gpuCeilings, drawn, clock,
                 polled, inputs>>

Tick ==
  /\ ticks > 0
  /\ ticks' = ticks - 1
  /\ draws' = draws + 1
  /\ UNCHANGED <<initialized, settings, pause, samples, header, gpuCeilings, drawn, clock,
                 polled, inputs>>

Advance ==
  /\ clock < MaxClock
  /\ clock' = clock + 1
  /\ UNCHANGED <<initialized, settings, pause, samples, header, gpuCeilings, drawn, loop,
                 polled, inputs>>
-----------------------------------------------------------------------------
(***************************************************************************)
(* The feed.                                                               *)
(***************************************************************************)

\* initCharts: empty charts, but for the bandwidth chart, which starts at zero.
NewCharts == [l \in Line |-> IF l[1] = "bandwidth" THEN Push(<<>>, clock, 0) ELSE <<>>]

\* The charts are laid out and still blank.
InitMsg ==
  /\ ~initialized
  /\ initialized' = TRUE
  /\ samples' = NewCharts
  /\ drawn' = blank
  /\ draws' = draws + 1
  /\ UNCHANGED <<settings, pause, header, gpuCeilings, ticks, clock, polled, inputs>>

\* The lines that a snapshot with these kinds of metrics feeds.
Fed(valid) ==
  {l \in Line : \E g \in DOMAIN valid, k \in Kind :
     /\ k \in valid[g] /\ l[2] \in SeriesOf(k)
     /\ l[1] = IF k = "bandwidth" THEN "bandwidth" ELSE g}

\* A snapshot polled at t; while paused it is dropped, but for the dot that
\* says a GPU is online.
MetricsSnapshot(t, valid) ==
  /\ initialized
  /\ polled' = t
  /\ LET fed == IF paused THEN {} ELSE Fed(valid)
     IN /\ samples' = [l \in Line |-> IF l \in fed THEN Push(samples[l], t, t) ELSE samples[l]]
        /\ header' = [l \in Line |-> IF l \in fed THEN t ELSE header[l]]
  /\ UNCHANGED <<initialized, settings, pause, gpuCeilings, drawn, loop, clock, inputs>>

\* New ceilings: the header's are replaced, the line of each GPU with one is
\* extended even while paused, and the charts are laid out and drawn at once.
RooflineCeiling(perGPU) ==
  /\ gpuCeilings' = perGPU
  /\ samples' = [l \in Line |->
       IF initialized /\ l[2] = "attainable" /\ perGPU[l[1]] # "none"
       THEN Push(samples[l], clock, perGPU[l[1]]) ELSE samples[l]]
  /\ drawn' = IF initialized THEN Picture(samples') ELSE drawn
  /\ UNCHANGED <<initialized, settings, pause, header, loop, clock, polled, inputs>>
-----------------------------------------------------------------------------
(***************************************************************************)
(* The user and the terminal.                                              *)
(***************************************************************************)
Press(key) == key \in Key /\ inputs < MaxInputs /\ inputs' = inputs + 1

\* applyLayout and applyTheme resize the charts, which blanks them.
Blank == drawn' = blank

NextMode(m) == LET i == CHOOSE j \in DOMAIN Modes : Modes[j] = m IN Modes[(i % Len(Modes)) + 1]

CycleMode ==
  /\ Press("tab")
  /\ mode' = NextMode(mode)
  /\ Blank /\ BeginDraw
  /\ UNCHANGED <<initialized, enabled, detail, showBandwidth, pause, samples, header,
                 gpuCeilings, ticks, clock, polled>>

Toggled(s) == IF s \in enabled THEN enabled \ {s} ELSE enabled \union {s}

\* A hotkey of the mode, or of the bandwidth chart while it is shown.
ToggleSeries(s) ==
  /\ Press(s)
  /\ s \in SeriesOf(mode) \/ (showBandwidth /\ s \in SeriesOf("bandwidth"))
  /\ enabled' = Toggled(s)
  /\ BeginDraw
  /\ UNCHANGED <<initialized, mode, detail, showBandwidth, pause, samples, header,
                 gpuCeilings, drawn, ticks, clock, polled>>

\* Mutant: the charts are not drawn again.
Reset_NoDraw ==
  /\ Press("r")
  /\ samples' = [l \in Line |-> <<>>]
  /\ Blank
  /\ UNCHANGED <<initialized, settings, pause, header, gpuCeilings, loop, clock, polled>>

\* resetCharts empties every chart.
Reset ==
  /\ Press("r")
  /\ samples' = [l \in Line |-> <<>>]
  /\ Blank /\ BeginDraw
  /\ UNCHANGED <<initialized, settings, pause, header, gpuCeilings, ticks, clock, polled>>

\* Mutant: leaving the pause waits for the timer.
Pause_NoDraw ==
  /\ Press("space")
  /\ paused' = ~paused
  /\ pausedAt' = IF paused THEN 0 ELSE clock
  /\ UNCHANGED <<initialized, settings, samples, header, gpuCeilings, drawn, loop, clock,
                 polled>>

Pause ==
  /\ Press("space")
  /\ paused' = ~paused
  /\ pausedAt' = IF paused THEN 0 ELSE clock
  /\ BeginDraw
  /\ UNCHANGED <<initialized, settings, samples, header, gpuCeilings, drawn, ticks, clock,
                 polled>>

Detail ==
  /\ Press("d")
  /\ detail' = IF detail = "plain" THEN "braille" ELSE "plain"
  /\ BeginDraw
  /\ UNCHANGED <<initialized, mode, enabled, showBandwidth, pause, samples, header,
                 gpuCeilings, drawn, ticks, clock, polled>>

ToggleBandwidth ==
  /\ Press("b")
  /\ showBandwidth' = ~showBandwidth
  /\ Blank /\ BeginDraw
  /\ UNCHANGED <<initialized, mode, enabled, detail, pause, samples, header, gpuCeilings,
                 ticks, clock, polled>>

WindowSize ==
  /\ Press("size")
  /\ Blank /\ BeginDraw
  /\ UNCHANGED <<initialized, settings, pause, samples, header, gpuCeilings, ticks, clock,
                 polled>>

\* applyTheme.
BackgroundColor ==
  /\ Press("colour")
  /\ Blank /\ BeginDraw
  /\ UNCHANGED <<initialized, settings, pause, samples, header, gpuCeilings, ticks, clock,
                 polled>>
-----------------------------------------------------------------------------
Feed ==
  \/ InitMsg
  \/ \E t \in polled + 1 .. clock, valid \in [GPU -> Report] : MetricsSnapshot(t, valid)
  \/ \E perGPU \in [GPU -> Ceiling \union {"none"}] : RooflineCeiling(perGPU)

User ==
  \/ CycleMode \/ Reset \/ Pause \/ Detail \/ ToggleBandwidth \/ WindowSize \/ BackgroundColor
  \/ \E s \in MetricSeries \union SeriesOf("bandwidth") : ToggleSeries(s)

Own == Draw \/ Tick
Next == Own \/ Advance \/ Feed \/ User
Spec == Init /\ [][Next]_vars

\* The event loop goes on: a drawMsg or a timer on its way is handled.
FairSpec == Spec /\ WF_vars(Own)
-----------------------------------------------------------------------------
SampleOf(l) ==
  [t : 0 .. MaxClock, value : IF l[2] = "attainable" THEN Ceiling ELSE 0 .. MaxClock]

TypeOK ==
  /\ initialized \in BOOLEAN /\ paused \in BOOLEAN /\ showBandwidth \in BOOLEAN
  /\ detail \in {"plain", "braille"} /\ drawn.style \in {"none", "plain", "braille"}
  /\ mode \in Range(Modes) /\ enabled \subseteq MetricSeries \union SeriesOf("bandwidth")
  /\ clock \in 0 .. MaxClock /\ polled \in 0 .. clock /\ pausedAt \in 0 .. clock
  /\ DOMAIN samples = Line /\ \A l \in Line : samples[l] \in Seq(SampleOf(l))
  /\ header \in [Line -> 0 .. MaxClock]
  /\ gpuCeilings \in [GPU -> Ceiling \union {"none"}]
  /\ {l[1] : l \in drawn.lines} \subseteq Line
  /\ draws \in Nat /\ ticks \in Nat
  /\ inputs \in 0 .. MaxInputs

\* While the screen is live there is always another draw to come, however
\* pauses fall between a draw and its timer.
NeverFrozen == initialized /\ ~paused => draws + ticks > 0

\* Charts that are blank, or show other lines than the settings ask for, have a
\* draw on its way: no change of the settings waits for the timer.
ChangesAreDrawn ==
  initialized /\ (drawn = blank \/ drawn.style # detail \/ ~({l[1] : l \in drawn.lines} \subseteq Shown))
    => draws > 0

\* A paused screen shows nothing from after the pause, though ceilings are
\* still taken and drawn.
PausedShowsThePast == paused => \A l \in drawn.lines : l[2].t <= pausedAt

\* No message starts more than one chain of draws, and no draw starts a second.
OneChainPerInput == draws + ticks <= 1 + inputs

\* DrawChain: as long as something is to be drawn there is a draw to come, and
\* never more of them than inputs asked for, however pauses, changes and timers
\* fall together.
DrawChain == NeverFrozen /\ ChangesAreDrawn /\ OneChainPerInput

\* The number in a GPU's header is the end of its line, also across a pause.
MetricAgrees ==
  \A l \in GPU \X MetricSeries : samples[l] # <<>> => Last(samples[l]).value = header[l]

\* An attainable line ends at the ceiling in the header, if that has one.
CeilingAgrees ==
  \A g \in GPU :
    LET kept == samples[<<g, "attainable">>]
    IN kept # <<>> /\ gpuCeilings[g] # "none" => Last(kept).value = gpuCeilings[g]

\* Header and charts never tell two stories.
HeaderAgrees == MetricAgrees /\ CeilingAgrees

\* The screen catches up with its settings and its samples, paused or not.
CatchesUp == initialized ~> drawn = Picture(samples)
=============================================================================
