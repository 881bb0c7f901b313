------------------------------ MODULE ScreenProofs -----------------------------
(***************************************************************************)
(* Proofs about the screen, for every set of devices, every resolution and *)
(* every number of keys: it goes on drawing and catches up with no more    *)
(* than one chain of draws per input, shows nothing newer than its pause,  *)
(* and tells in the header what its charts tell.  And about a chart, for   *)
(* every size, range, resolution and sequence of samples: its lines tell   *)
(* their values, on one scale with its thresholds and labels, and the      *)
(* picture shows the series asked for and no other.                        *)
(***************************************************************************)
EXTENDS TopScreen, TsChart, SumLemmas, SequenceTheorems, TLAPS

-----------------------------------------------------------------------------
(***************************************************************************)
(* The settings and the lines they ask for.                                *)
(***************************************************************************)
LEMMA Settings ==
  /\ MetricSeries = {"compute", "memory", "gr_active", "sm_activity"}
  /\ Range(Modes) = {"sol", "gr_active", "sm_activity"}
<1>1. DOMAIN Modes = {1, 2, 3}
  BY DEF Modes
<1>2. Modes[1] = "sol" /\ Modes[2] = "gr_active" /\ Modes[3] = "sm_activity"
  BY DEF Modes
<1>3. Range(Modes) = {"sol", "gr_active", "sm_activity"}
  BY <1>1, <1>2, Zenon DEF Range
<1>4. MetricSeries = SeriesOf(Modes[1]) \union SeriesOf(Modes[2]) \union SeriesOf(Modes[3])
  <2> HIDE DEF Modes
  <2> QED
    BY <1>1, Zenon DEF MetricSeries
<1>5. /\ SeriesOf("sol") = {"compute", "memory"} /\ SeriesOf("gr_active") = {"gr_active"}
      /\ SeriesOf("sm_activity") = {"sm_activity"}
  BY DEF SeriesOf
<1> QED
  BY <1>2, <1>3, <1>4, <1>5

LEMMA NextModeIsOne == ASSUME NEW m \in Range(Modes) PROVE NextMode(m) \in Range(Modes)
<1>1. Len(Modes) = 3 /\ DOMAIN Modes = 1 .. 3
  BY DEF Modes
<1>2. PICK j \in DOMAIN Modes : Modes[j] = m
  BY DEF Range
<1> DEFINE i == CHOOSE k \in DOMAIN Modes : Modes[k] = m
<1>3. i \in 1 .. 3
  BY <1>1, <1>2
<1> HIDE DEF i
<1>4. (i % 3) + 1 \in 1 .. 3
  BY <1>3
<1>5. NextMode(m) = Modes[(i % 3) + 1]
  BY <1>1 DEF NextMode, i
<1> QED
  BY <1>1, <1>4, <1>5 DEF Range

LEMMA LinesShown == ASSUME mode \in Range(Modes) PROVE Shown \subseteq Line
<1>1. SeriesOf(mode) \subseteq MetricSeries
  BY Settings DEF SeriesOf
<1> QED
  BY <1>1 DEF Shown, Line
-----------------------------------------------------------------------------
(***************************************************************************)
(* The samples of a line.                                                  *)
(***************************************************************************)

\* What a line keeps after a push: samples like those it had, the last of them
\* not older than any was, and the one pushed unless it was late.
LEMMA Pushed ==
  ASSUME NEW l \in Line, NEW kept \in Seq(SampleOf(l)), NEW t \in 0 .. MaxClock,
         NEW value \in IF l[2] = "attainable" THEN Ceiling ELSE 0 .. MaxClock
  PROVE  /\ Push(kept, t, value) \in Seq(SampleOf(l))
         /\ Push(kept, t, value) # <<>>
         /\ Last(Push(kept, t, value)).t = IF kept = <<>> \/ t > Last(kept).t THEN t ELSE Last(kept).t
         /\ kept = <<>> \/ Last(kept).t <= t => Last(Push(kept, t, value)).value = value
<1> DEFINE S == SampleOf(l)
           new == [t |-> t, value |-> value]
           after == Push(kept, t, value)
<1>1. new \in S /\ new.t = t /\ new.value = value
  BY DEF SampleOf
<1>2. ASSUME kept # <<>>
      PROVE  Len(kept) \in 1 .. Len(kept) /\ Last(kept) \in S /\ Last(kept).t \in Int
  <2>1. Len(kept) \in 1 .. Len(kept) /\ Last(kept) \in S
    <3> HIDE DEF S
    <3>1. kept \in Seq(S)
      BY DEF S
    <3>2. Len(kept) \in Nat /\ Len(kept) # 0
      BY <1>2, <3>1
    <3> QED
      BY <3>1, <3>2 DEF Last
  <2> QED
    BY <2>1 DEF SampleOf
<1>3. CASE kept = <<>> \/ t > Last(kept).t
  <2>1. after = Append(kept, new)
    BY <1>3 DEF Push
  <2>2. after \in Seq(S) /\ after # <<>> /\ Last(after) = new
    <3> HIDE DEF new, S
    <3> QED
      BY <1>1, <2>1 DEF Last, S
  <2> QED
    BY <1>1, <1>2, <1>3, <2>2
<1>4. CASE kept # <<>> /\ t = Last(kept).t
  <2>1. after = [kept EXCEPT ![Len(kept)].value = value]
    BY <1>2, <1>4 DEF Push
  <2>2. after = [kept EXCEPT ![Len(kept)] = [Last(kept) EXCEPT !.value = value]]
    BY <2>1 DEF Last
  <2>3. /\ [Last(kept) EXCEPT !.value = value] \in S
        /\ [Last(kept) EXCEPT !.value = value].t = t
        /\ [Last(kept) EXCEPT !.value = value].value = value
    BY <1>2, <1>4 DEF SampleOf
  <2>4. after \in Seq(S) /\ Len(after) = Len(kept) /\ Last(after) = [Last(kept) EXCEPT !.value = value]
    <3> DEFINE changed == [Last(kept) EXCEPT !.value = value]
    <3> HIDE DEF changed, S
    <3>0. kept \in Seq(S)
      BY DEF S
    <3>1. after = [kept EXCEPT ![Len(kept)] = changed] /\ changed \in S
      BY <2>2, <2>3 DEF changed, S
    <3>2. after \in Seq(S) /\ Len(after) = Len(kept)
      BY <3>0, <3>1, <1>2, <1>4
    <3>3. after[Len(kept)] = changed
      BY <3>0, <3>1, <1>2, <1>4
    <3> QED
      BY <3>2, <3>3 DEF Last, changed
  <2> QED
    BY <1>2, <1>4, <2>3, <2>4
<1>5. CASE kept # <<>> /\ t < Last(kept).t
  <2>1. after = kept
    BY <1>2, <1>5 DEF Push
  <2> QED
    BY <1>2, <1>5, <2>1
<1> QED
  BY <1>2, <1>3, <1>4, <1>5

\* Of the positions up to a bound there is a last one.
LEMMA Greatest ==
  ASSUME NEW n \in Nat, NEW T \in SUBSET (1 .. n), T # {}
  PROVE  \E i \in T : \A j \in T : j <= i
<1> DEFINE R == {ss \in Nat \X Nat : ss[1] < ss[2]}
           S == {n - i : i \in T}
<1>1. IsWellFoundedOn(R, Nat)
  BY NatLessThanWellFounded, Zenon DEF OpToRel
<1>2. S \subseteq Nat /\ S # {}
  <2>1. ASSUME NEW i \in T PROVE n - i \in Nat
    OBVIOUS
  <2> QED
    BY <2>1
<1>3. PICK m \in S : \A y \in S : ~(<<y, m>> \in R)
  <2> HIDE DEF S, R
  <2> QED
    BY <1>1, <1>2, WFMin
<1> HIDE DEF R
<1>4. PICK i \in T : m = n - i
  OBVIOUS
<1>5. ASSUME NEW j \in T PROVE j <= i
  <2>1. n - j \in S /\ n - j \in Nat /\ m \in Nat
    BY <1>2
  <2>2. ~(n - j < m)
    BY <1>3, <2>1 DEF R
  <2> QED
    BY <2>1, <2>2, <1>4
<1> QED
  BY <1>5

\* The right edge of a line is not after the time it was drawn for.
LEMMA EdgeIsPast ==
  ASSUME NEW V, NEW kept \in Seq([t : 0 .. MaxClock, value : V]), NEW end \in Int,
         NEW bound \in Nat, end <= bound
  PROVE  Edge(kept, end).t \in Int /\ Edge(kept, end).t <= bound
<1> DEFINE upTo == {i \in DOMAIN kept : kept[i].t <= end}
<1>1. CASE upTo = {}
  BY <1>1 DEF Edge
<1>2. CASE upTo # {}
  <2>1. \E i \in upTo : \A j \in upTo : j <= i
    <3>1. upTo \in SUBSET (1 .. Len(kept)) /\ Len(kept) \in Nat
      OBVIOUS
    <3> HIDE DEF upTo
    <3> QED
      BY <1>2, <3>1, Greatest
  <2> DEFINE last == CHOOSE i \in upTo : \A j \in upTo : j <= i
  <2>2. last \in upTo
    <3> HIDE DEF upTo
    <3> QED
      BY <2>1
  <2>3. kept[last].t <= end /\ kept[last].t \in Int
    <3> HIDE DEF last
    <3>1. last \in 1 .. Len(kept) /\ kept[last].t <= end
      BY <2>2
    <3>2. kept[last] \in [t : 0 .. MaxClock, value : V]
      <4> DEFINE S == [t : 0 .. MaxClock, value : V]
      <4> HIDE DEF S, upTo
      <4>1. kept \in Seq(S)
        BY DEF S
      <4>2. kept[last] \in S
        BY <3>1, <4>1
      <4> QED
        BY <4>2 DEF S
    <3> QED
      BY <3>1, <3>2
  <2>4. Edge(kept, end) = kept[last]
    BY <1>2 DEF Edge
  <2> QED
    BY <2>3, <2>4
<1> QED
  BY <1>1, <1>2
-----------------------------------------------------------------------------
(***************************************************************************)
(* Types.                                                                  *)
(***************************************************************************)
LEMMA PictureType ==
  ASSUME TypeOK, NEW kept
  PROVE  /\ Picture(kept).style = detail
         /\ Picture(kept).lines = {<<l, Edge(kept[l], DrawTime)>> : l \in {k \in Shown : kept[k] # <<>>}}
         /\ {l[1] : l \in Picture(kept).lines} \subseteq Shown
         /\ {l[1] : l \in Picture(kept).lines} \subseteq Line
         /\ Picture(kept) # blank
<1>1. /\ Picture(kept).style = detail
      /\ Picture(kept).lines = {<<l, Edge(kept[l], DrawTime)>> : l \in {k \in Shown : kept[k] # <<>>}}
  BY DEF Picture
<1>2. {l[1] : l \in Picture(kept).lines} \subseteq Shown
  <2> SUFFICES ASSUME NEW p \in Picture(kept).lines PROVE p[1] \in Shown
    OBVIOUS
  <2>1. PICK l \in Shown : p = <<l, Edge(kept[l], DrawTime)>>
    BY <1>1
  <2> QED
    BY <2>1
<1>3. Shown \subseteq Line
  BY LinesShown DEF TypeOK
<1>4. Picture(kept).style # blank.style
  BY <1>1 DEF TypeOK, blank
<1> QED
  BY <1>1, <1>2, <1>3, <1>4

LEMMA InitType == Init => TypeOK
<1> SUFFICES ASSUME Init PROVE TypeOK
  OBVIOUS
<1> USE ScreenAssumption DEF Init
<1>1. mode \in Range(Modes)
  BY Settings
<1>2. ASSUME NEW l \in Line PROVE samples[l] \in Seq(SampleOf(l))
  BY <1>2
<1>3. /\ DOMAIN samples = Line /\ header \in [Line -> 0 .. MaxClock]
      /\ gpuCeilings \in [GPU -> Ceiling \union {"none"}]
  OBVIOUS
<1>4. {l[1] : l \in drawn.lines} = {} /\ drawn.style = "none"
  BY DEF blank
<1>5. clock \in 0 .. MaxClock /\ polled \in 0 .. clock /\ pausedAt \in 0 .. clock
      /\ inputs \in 0 .. MaxInputs /\ draws \in Nat /\ ticks \in Nat
  OBVIOUS
<1> QED
  BY <1>1, <1>2, <1>3, <1>4, <1>5 DEF TypeOK

LEMMA OwnType == ASSUME TypeOK, Own PROVE TypeOK'
<1>1. CASE Draw
  <2>1. /\ {l[1] : l \in drawn'.lines} \subseteq Line
        /\ drawn'.style \in {"none", "plain", "braille"}
    BY <1>1, PictureType DEF Draw, TypeOK
  <2>2. draws' \in Nat /\ ticks' \in Nat
    BY <1>1 DEF Draw, TypeOK
  <2> QED
    BY <1>1, <2>1, <2>2 DEF Draw, TypeOK, settings, pause, Line
<1>2. CASE Tick
  <2>1. draws' \in Nat /\ ticks' \in Nat
    BY <1>2 DEF Tick, TypeOK
  <2> QED
    BY <1>2, <2>1 DEF Tick, TypeOK, settings, pause
<1> QED
  BY <1>1, <1>2 DEF Own

LEMMA AdvanceType == ASSUME TypeOK, Advance PROVE TypeOK'
<1>1. clock' \in 0 .. MaxClock /\ polled \in 0 .. clock' /\ pausedAt \in 0 .. clock'
  BY ScreenAssumption DEF Advance, TypeOK
<1> QED
  BY <1>1 DEF Advance, TypeOK, settings, pause, loop

LEMMA FeedType == ASSUME TypeOK, Feed PROVE TypeOK'
<1>0. clock \in 0 .. MaxClock /\ 0 \in 0 .. MaxClock
  BY ScreenAssumption DEF TypeOK
<1>1. CASE InitMsg
  <2>1. ASSUME NEW l \in Line PROVE samples'[l] \in Seq(SampleOf(l))
    <3>1. samples'[l] = IF l[1] = "bandwidth" THEN Push(<<>>, clock, 0) ELSE <<>>
      BY <1>1 DEF InitMsg, NewCharts
    <3>2. <<>> \in Seq(SampleOf(l))
      OBVIOUS
    <3>3. l[1] = "bandwidth" => l[2] # "attainable"
      BY ScreenAssumption DEF Line, SeriesOf
    <3>4. CASE l[1] = "bandwidth"
      <4> DEFINE first == [t |-> clock, value |-> 0]
      <4>1. samples'[l] = Append(<<>>, first) /\ first \in SampleOf(l)
        BY <1>0, <3>1, <3>3, <3>4 DEF Push, SampleOf
      <4> HIDE DEF first
      <4> QED
        BY <3>2, <4>1
    <3> QED
      BY <3>1, <3>2, <3>4
  <2>2. DOMAIN samples' = Line
    BY <1>1 DEF InitMsg, NewCharts
  <2>3. draws' \in Nat
    BY <1>1 DEF InitMsg, TypeOK
  <2> QED
    BY <1>1, <2>1, <2>2, <2>3 DEF InitMsg, TypeOK, settings, pause, blank
<1>2. ASSUME NEW t \in polled + 1 .. clock, NEW valid \in [GPU -> Report], MetricsSnapshot(t, valid)
      PROVE  TypeOK'
  <2> DEFINE fed == IF paused THEN {} ELSE Fed(valid)
  <2>1. t \in 0 .. MaxClock /\ t \in 0 .. clock
    <3>1. t \in Int /\ polled + 1 <= t /\ t <= clock /\ polled \in 0 .. clock
      BY DEF TypeOK
    <3> QED
      BY <1>0, <3>1, ScreenAssumption
  <2>2. /\ samples' = [l \in Line |-> IF l \in fed THEN Push(samples[l], t, t) ELSE samples[l]]
        /\ header' = [l \in Line |-> IF l \in fed THEN t ELSE header[l]]
    BY <1>2 DEF MetricsSnapshot
  <2>3. ASSUME NEW l \in Line PROVE samples'[l] \in Seq(SampleOf(l))
    <3>1. l \in fed => l[2] # "attainable"
      BY DEF Fed, SeriesOf, Kind
    <3>2. samples[l] \in Seq(SampleOf(l))
      BY DEF TypeOK
    <3> QED
      BY <2>1, <2>2, <3>1, <3>2, Pushed
  <2>4. header' \in [Line -> 0 .. MaxClock]
    <3> HIDE DEF fed
    <3> QED
      BY <2>1, <2>2 DEF TypeOK
  <2> QED
    BY <1>2, <2>1, <2>2, <2>3, <2>4 DEF MetricsSnapshot, TypeOK, settings, pause, loop
<1>3. ASSUME NEW perGPU \in [GPU -> Ceiling \union {"none"}], RooflineCeiling(perGPU)
      PROVE  TypeOK'
  <2>1. samples' = [l \in Line |->
          IF initialized /\ l[2] = "attainable" /\ perGPU[l[1]] # "none"
          THEN Push(samples[l], clock, perGPU[l[1]]) ELSE samples[l]]
    BY <1>3 DEF RooflineCeiling
  <2>2. ASSUME NEW l \in Line PROVE samples'[l] \in Seq(SampleOf(l))
    <3>1. l[2] = "attainable" => l[1] \in GPU
      BY DEF Line, SeriesOf
    <3>2. samples[l] \in Seq(SampleOf(l))
      BY DEF TypeOK
    <3>3. CASE initialized /\ l[2] = "attainable" /\ perGPU[l[1]] # "none"
      <4>1. perGPU[l[1]] \in Ceiling
        BY <3>1, <3>3
      <4> QED
        BY <1>0, <2>1, <3>2, <3>3, <4>1, Pushed
    <3>4. CASE ~(initialized /\ l[2] = "attainable" /\ perGPU[l[1]] # "none")
      BY <2>1, <3>2, <3>4
    <3> QED
      BY <3>3, <3>4
  <2>3. /\ {l[1] : l \in drawn'.lines} \subseteq Line
        /\ drawn'.style \in {"none", "plain", "braille"}
    <3>1. CASE initialized
      <4>1. drawn' = Picture(samples')
        BY <1>3, <3>1 DEF RooflineCeiling
      <4>2. /\ Picture(samples').style = detail
            /\ {l[1] : l \in Picture(samples').lines} \subseteq Line
        BY PictureType
      <4> QED
        BY <4>1, <4>2 DEF TypeOK
    <3>2. CASE ~initialized
      BY <1>3, <3>2 DEF RooflineCeiling, TypeOK
    <3> QED
      BY <3>1, <3>2
  <2> QED
    BY <1>3, <2>1, <2>2, <2>3 DEF RooflineCeiling, TypeOK, settings, pause, loop
<1> QED
  BY <1>1, <1>2, <1>3 DEF Feed

LEMMA UserType == ASSUME TypeOK, User PROVE TypeOK'
<1>0. ASSUME NEW key, Press(key) PROVE inputs' \in 0 .. MaxInputs
  BY <1>0, ScreenAssumption DEF Press, TypeOK
<1>1. draws \in Nat /\ draws + 1 \in Nat /\ clock \in 0 .. clock
  BY ScreenAssumption DEF TypeOK
<1> USE <1>0, <1>1 DEF TypeOK, BeginDraw, Blank, blank, settings, pause, loop
<1>2. CASE CycleMode
  <2>1. mode' \in Range(Modes)
    BY <1>2, NextModeIsOne DEF CycleMode
  <2> QED
    BY <1>2, <2>1 DEF CycleMode
<1>3. CASE Reset
  <2>1. DOMAIN samples' = Line /\ \A l \in Line : samples'[l] \in Seq(SampleOf(l))
    BY <1>3 DEF Reset
  <2> QED
    BY <1>3, <2>1 DEF Reset
<1>4. CASE Pause
  <2>1. paused' \in BOOLEAN /\ pausedAt' \in 0 .. clock
    BY <1>4 DEF Pause
  <2> QED
    BY <1>4, <2>1 DEF Pause
<1>5. CASE Detail
  BY <1>5 DEF Detail
<1>6. CASE ToggleBandwidth
  BY <1>6 DEF ToggleBandwidth
<1>7. CASE WindowSize \/ BackgroundColor
  BY <1>7 DEF WindowSize, BackgroundColor
<1>8. ASSUME NEW s \in MetricSeries \union SeriesOf("bandwidth"), ToggleSeries(s) PROVE TypeOK'
  <2>1. enabled' \subseteq MetricSeries \union SeriesOf("bandwidth")
    BY <1>8 DEF ToggleSeries, Toggled
  <2> QED
    BY <1>8, <2>1 DEF ToggleSeries
<1> QED
  BY <1>2, <1>3, <1>4, <1>5, <1>6, <1>7, <1>8 DEF User

LEMMA NextType == ASSUME TypeOK, [Next]_vars PROVE TypeOK'
<1>1. CASE UNCHANGED vars
  BY <1>1 DEF TypeOK, vars, settings, pause, loop
<1> QED
  BY <1>1, OwnType, AdvanceType, FeedType, UserType DEF Next

\* The types of TopScreen hold.
THEOREM TypeCorrect == Spec => []TypeOK
  BY InitType, NextType, PTL DEF Spec
-----------------------------------------------------------------------------
(***************************************************************************)
(* The chain of draws.                                                     *)
(***************************************************************************)

\* DrawChain rests on nothing being drawn before there are charts.
LoopInv == DrawChain /\ (~initialized => draws = 0 /\ ticks = 0)

LEMMA LoopStarts == Init => LoopInv
  BY ScreenAssumption DEF Init, LoopInv, DrawChain, NeverFrozen, ChangesAreDrawn, OneChainPerInput

\* A step that has a draw on its way, or none to be had, leaves no change undrawn.
LEMMA UserLoop == ASSUME TypeOK, LoopInv, User PROVE LoopInv'
<1>1. /\ inputs' = inputs + 1 /\ inputs \in Nat
      /\ draws' = IF initialized THEN draws + 1 ELSE draws
      /\ UNCHANGED <<initialized, ticks>>
  BY DEF User, CycleMode, Reset, Pause, Detail, ToggleBandwidth, WindowSize, BackgroundColor,
     ToggleSeries, Press, BeginDraw, TypeOK, pause, loop, settings
<1>2. draws \in Nat /\ ticks \in Nat
  BY DEF TypeOK
<1> QED
  BY <1>1, <1>2 DEF LoopInv, DrawChain, NeverFrozen, ChangesAreDrawn, OneChainPerInput

LEMMA NextLoop == ASSUME TypeOK, LoopInv, [Next]_vars PROVE LoopInv'
<1>0. draws \in Nat /\ ticks \in Nat /\ inputs \in Nat
  BY DEF TypeOK
<1> USE <1>0 DEF LoopInv, DrawChain, NeverFrozen, OneChainPerInput
<1>1. CASE Draw
  <2>1. drawn' # blank /\ drawn'.style = detail /\ {l[1] : l \in drawn'.lines} \subseteq Shown
    BY <1>1, PictureType DEF Draw
  <2>2. Shown' = Shown /\ detail' = detail
    BY <1>1 DEF Draw, Shown, SeriesOf, settings
  <2>3. /\ draws' = draws - 1 /\ ticks' = (IF paused THEN ticks ELSE ticks + 1) /\ draws > 0
        /\ UNCHANGED <<initialized, paused, inputs>>
    BY <1>1 DEF Draw, pause
  <2>4. ChangesAreDrawn'
    BY <2>1, <2>2 DEF ChangesAreDrawn
  <2> QED
    BY <2>3, <2>4
<1>2. CASE Tick
  BY <1>2 DEF Tick, ChangesAreDrawn, pause
<1>3. CASE InitMsg
  BY <1>3 DEF InitMsg, ChangesAreDrawn, pause
<1>4. CASE Advance \/ \E t \in polled + 1 .. clock, valid \in [GPU -> Report] : MetricsSnapshot(t, valid)
  <2>1. UNCHANGED <<initialized, settings, paused, drawn, draws, ticks, inputs>>
    BY <1>4 DEF Advance, MetricsSnapshot, pause, loop
  <2>2. UNCHANGED <<Shown, detail>>
    BY <2>1 DEF Shown, SeriesOf, settings
  <2>3. ChangesAreDrawn'
    BY <2>1, <2>2 DEF ChangesAreDrawn
  <2> QED
    BY <2>1, <2>3
<1>5. ASSUME NEW perGPU \in [GPU -> Ceiling \union {"none"}], RooflineCeiling(perGPU)
      PROVE  LoopInv'
  <2>1. UNCHANGED <<initialized, settings, paused, draws, ticks, inputs>>
    BY <1>5 DEF RooflineCeiling, pause, loop
  <2>2. UNCHANGED <<Shown, detail>>
    BY <2>1 DEF Shown, SeriesOf, settings
  <2>3. ChangesAreDrawn'
    <3>1. CASE initialized
      <4>1. drawn' = Picture(samples')
        BY <1>5, <3>1 DEF RooflineCeiling
      <4>2. drawn' # blank /\ drawn'.style = detail /\ {l[1] : l \in drawn'.lines} \subseteq Shown
        BY <4>1, PictureType
      <4> QED
        BY <2>2, <4>2 DEF ChangesAreDrawn
    <3>2. CASE ~initialized
      BY <2>1, <3>2 DEF ChangesAreDrawn
    <3> QED
      BY <3>1, <3>2
  <2> QED
    BY <2>1, <2>3
<1>6. CASE UNCHANGED vars
  <2>1. UNCHANGED <<initialized, settings, paused, drawn, draws, ticks, inputs>>
    BY <1>6 DEF vars, pause, loop
  <2>2. UNCHANGED <<Shown, detail>>
    BY <2>1 DEF Shown, SeriesOf, settings
  <2>3. ChangesAreDrawn'
    BY <2>1, <2>2 DEF ChangesAreDrawn
  <2> QED
    BY <2>1, <2>3
<1> QED
  BY <1>1, <1>2, <1>3, <1>4, <1>5, <1>6, UserLoop DEF Next, Own, Feed

\* DrawChain holds: however pauses, changes and timers fall together, a live
\* screen has a draw to come, a change is drawn without waiting for a timer, and
\* there is never more than one chain of draws for the start and each input.
THEOREM DrawsOn == Spec => []DrawChain
<1>1. LoopInv => DrawChain
  BY DEF LoopInv
<1> QED
  BY <1>1, LoopStarts, NextLoop, TypeCorrect, PTL DEF Spec
-----------------------------------------------------------------------------
(***************************************************************************)
(* The pause.                                                              *)
(***************************************************************************)
Now == IF paused THEN pausedAt ELSE clock

\* Nothing drawn is later than now, which a pause stops.
PastInv == \A p \in drawn.lines : p[2].t \in Int /\ p[2].t <= Now

LEMMA DrawTimeIsPast == ASSUME TypeOK PROVE DrawTime \in Int /\ DrawTime <= Now /\ Now \in Nat
<1>1. Now \in Nat /\ Resolution \in Nat \ {0}
  BY ScreenAssumption DEF Now, TypeOK
<1>2. Now % Resolution \in Nat
  BY <1>1
<1>3. DrawTime = Now - (Now % Resolution)
  BY DEF DrawTime, Now
<1> QED
  BY <1>1, <1>2, <1>3

LEMMA PictureIsPast ==
  ASSUME TypeOK, NEW kept, \A l \in Line : kept[l] \in Seq(SampleOf(l))
  PROVE  \A p \in Picture(kept).lines : p[2].t \in Int /\ p[2].t <= Now
<1> SUFFICES ASSUME NEW p \in Picture(kept).lines PROVE p[2].t \in Int /\ p[2].t <= Now
  OBVIOUS
<1>1. PICK l \in Shown : p = <<l, Edge(kept[l], DrawTime)>>
  BY PictureType
<1>2. l \in Line
  BY <1>1, LinesShown DEF TypeOK
<1>3. Edge(kept[l], DrawTime).t \in Int /\ Edge(kept[l], DrawTime).t <= Now
  <2>1. DrawTime \in Int /\ DrawTime <= Now /\ Now \in Nat
    BY DrawTimeIsPast
  <2> DEFINE V == IF l[2] = "attainable" THEN Ceiling ELSE 0 .. MaxClock
             after == kept[l]
             end == DrawTime
             bound == Now
  <2>2. after \in Seq([t : 0 .. MaxClock, value : V])
    BY <1>2 DEF SampleOf
  <2>3. end \in Int /\ bound \in Nat /\ end <= bound
    BY <2>1
  <2> HIDE DEF V, after, end, bound
  <2>4. Edge(after, end).t \in Int /\ Edge(after, end).t <= bound
    BY <2>2, <2>3, EdgeIsPast
  <2> QED
    BY <2>4 DEF after, end, bound
<1> QED
  BY <1>1, <1>3

\* What is drawn stays past: blank, or as it was, and now does not go back.
LEMMA StaysPast ==
  ASSUME PastInv, drawn' = blank \/ drawn' = drawn, Now \in Nat, Now' \in Nat, Now <= Now'
  PROVE  PastInv'
<1>1. CASE drawn' = blank
  BY <1>1 DEF PastInv, blank
<1>2. CASE drawn' = drawn
  <2> SUFFICES ASSUME NEW p \in drawn.lines PROVE p[2].t \in Int /\ p[2].t <= Now'
    BY <1>2 DEF PastInv
  <2>1. p[2].t \in Int /\ p[2].t <= Now
    BY DEF PastInv
  <2> QED
    BY <2>1
<1> QED
  BY <1>1, <1>2

LEMMA NextPast == ASSUME TypeOK, TypeOK', PastInv, [Next]_vars PROVE PastInv'
<1>0. Now \in Nat /\ Now' \in Nat
  <2>1. pausedAt' \in Nat /\ clock' \in Nat
    BY DEF TypeOK
  <2> QED
    BY <2>1, DrawTimeIsPast DEF Now
<1>1. CASE Draw
  <2>1. drawn' = Picture(samples) /\ Now' = Now
    BY <1>1 DEF Draw, Now, pause
  <2>2. \A l \in Line : samples[l] \in Seq(SampleOf(l))
    BY DEF TypeOK
  <2> QED
    BY <2>1, <2>2, PictureIsPast DEF PastInv
<1>2. ASSUME NEW perGPU \in [GPU -> Ceiling \union {"none"}], RooflineCeiling(perGPU)
      PROVE  PastInv'
  <2>1. Now' = Now
    BY <1>2 DEF RooflineCeiling, Now, pause
  <2>2. CASE initialized
    <3>1. drawn' = Picture(samples')
      BY <1>2, <2>2 DEF RooflineCeiling
    <3>2. \A l \in Line : samples'[l] \in Seq(SampleOf(l))
      BY DEF TypeOK, SampleOf
    <3> QED
      BY <2>1, <3>1, <3>2, PictureIsPast DEF PastInv
  <2>3. CASE ~initialized
    BY <1>0, <1>2, <2>1, <2>3, StaysPast DEF RooflineCeiling
  <2> QED
    BY <2>2, <2>3
<1>3. CASE Pause
  <2>1. Now <= Now'
    <3>1. clock \in Nat /\ clock' = clock /\ pausedAt \in 0 .. clock
      BY <1>3 DEF Pause, TypeOK
    <3>2. CASE paused
      <4>1. Now = pausedAt /\ Now' = clock
        BY <1>3, <3>2 DEF Pause, Now
      <4> QED
        BY <3>1, <4>1
    <3>3. CASE ~paused
      <4>1. Now = clock /\ Now' = clock
        BY <1>3, <3>3 DEF Pause, Now
      <4> QED
        BY <3>1, <4>1
    <3> QED
      BY <3>2, <3>3
  <2>2. drawn' = drawn
    BY <1>3 DEF Pause
  <2> QED
    BY <1>0, <2>1, <2>2, StaysPast
<1>4. CASE \/ Tick \/ Advance \/ InitMsg
           \/ \E t \in polled + 1 .. clock, valid \in [GPU -> Report] : MetricsSnapshot(t, valid)
           \/ CycleMode \/ Reset \/ Detail \/ ToggleBandwidth \/ WindowSize \/ BackgroundColor
           \/ \E s \in MetricSeries \union SeriesOf("bandwidth") : ToggleSeries(s)
           \/ UNCHANGED vars
  <2>1. /\ UNCHANGED pause
        /\ drawn' = blank \/ drawn' = drawn
        /\ clock' = clock \/ clock' = clock + 1
    BY <1>4 DEF Tick, Advance, InitMsg, MetricsSnapshot, CycleMode, Reset, Detail, ToggleBandwidth,
       WindowSize, BackgroundColor, ToggleSeries, Blank, vars, pause, loop
  <2>2. Now <= Now'
    <3>1. clock \in Nat /\ pausedAt \in Nat /\ paused' = paused /\ pausedAt' = pausedAt
      BY <2>1 DEF pause, TypeOK
    <3>2. CASE paused
      BY <3>1, <3>2 DEF Now
    <3>3. CASE ~paused
      BY <2>1, <3>1, <3>3 DEF Now
    <3> QED
      BY <3>2, <3>3
  <2> QED
    BY <1>0, <2>1, <2>2, StaysPast
<1> QED
  BY <1>1, <1>2, <1>3, <1>4 DEF Next, Own, Feed, User

\* PausedShowsThePast holds: what the charts show while paused is from before.
THEOREM PauseHolds == Spec => []PausedShowsThePast
<1>1. Init => PastInv
  BY DEF Init, PastInv, blank
<1>2. PastInv => PausedShowsThePast
  BY DEF PastInv, PausedShowsThePast, Now
<1>3. TypeOK /\ TypeOK' /\ PastInv /\ [Next]_vars => PastInv'
  BY NextPast
<1> QED
  BY <1>1, <1>2, <1>3, TypeCorrect, PTL DEF Spec
-----------------------------------------------------------------------------
(***************************************************************************)
(* The header.                                                             *)
(***************************************************************************)

\* The end of a line is not after the latest snapshot, or, where ceilings are
\* pushed, the time.
EndsInv ==
  \A l \in Line : samples[l] # <<>> =>
    Last(samples[l]).t <= IF l \in GPU \X MetricSeries THEN polled ELSE clock

\* There are no samples before there are charts.
NoneYet == ~initialized => \A l \in Line : samples[l] = <<>>

HeaderInv == HeaderAgrees /\ EndsInv /\ NoneYet

\* The lines that the header speaks of.
LEMMA HeaderLines ==
  /\ \A l \in GPU \X MetricSeries : l \in Line /\ l[1] # "bandwidth" /\ l[2] # "attainable"
  /\ \A g \in GPU : <<g, "attainable">> \in Line \ (GPU \X MetricSeries)
  /\ \A l \in Line : l[2] = "attainable" => l \notin GPU \X MetricSeries /\ l[1] \in GPU
<1>1. "attainable" \notin MetricSeries
  BY Settings
<1>2. "attainable" \notin SeriesOf("bandwidth")
  BY DEF SeriesOf
<1> QED
  BY <1>1, <1>2, ScreenAssumption DEF Line

LEMMA LastTime ==
  ASSUME TypeOK, NEW l \in Line, samples[l] # <<>> PROVE Last(samples[l]).t \in Nat
<1> DEFINE S == SampleOf(l)
           kept == samples[l]
<1>1. kept \in Seq(S) /\ kept # <<>>
  BY DEF TypeOK
<1>2. kept[Len(kept)] \in S
  <2> HIDE DEF S, kept
  <2> QED
    BY <1>1
<1> QED
  BY <1>2 DEF SampleOf, Last

\* A push into a line that ends in time ends it with the value pushed.
LEMMA PushEnds ==
  ASSUME TypeOK, NEW l \in Line, NEW t \in 0 .. MaxClock,
         NEW value \in IF l[2] = "attainable" THEN Ceiling ELSE 0 .. MaxClock,
         samples[l] # <<>> => Last(samples[l]).t <= t
  PROVE  /\ Push(samples[l], t, value) # <<>>
         /\ Last(Push(samples[l], t, value)).t = t
         /\ Last(Push(samples[l], t, value)).value = value
<1>1. samples[l] \in Seq(SampleOf(l))
  BY DEF TypeOK
<1>2. samples[l] # <<>> => Last(samples[l]).t \in Nat
  BY LastTime
<1>3. /\ Push(samples[l], t, value) # <<>>
      /\ Last(Push(samples[l], t, value)).t
           = IF samples[l] = <<>> \/ t > Last(samples[l]).t THEN t ELSE Last(samples[l]).t
      /\ samples[l] = <<>> \/ Last(samples[l]).t <= t => Last(Push(samples[l], t, value)).value = value
  <2> DEFINE kept == samples[l]
  <2>1. kept \in Seq(SampleOf(l))
    BY <1>1
  <2> HIDE DEF kept
  <2>2. Push(kept, t, value) # <<>>
    BY <2>1, Pushed
  <2>3. Last(Push(kept, t, value)).t = IF kept = <<>> \/ t > Last(kept).t THEN t ELSE Last(kept).t
    BY <2>1, Pushed
  <2>4. kept = <<>> \/ Last(kept).t <= t => Last(Push(kept, t, value)).value = value
    BY <2>1, Pushed
  <2> QED
    BY <2>2, <2>3, <2>4 DEF kept
<1> QED
  BY <1>2, <1>3

LEMMA HeaderStarts == Init => HeaderInv
  BY HeaderLines DEF Init, HeaderInv, HeaderAgrees, MetricAgrees, CeilingAgrees, EndsInv, NoneYet

\* A step that pushes nothing keeps the header true.
LEMMA StillHeader ==
  ASSUME TypeOK, HeaderInv, polled' = polled, clock' \in Nat, clock <= clock',
         UNCHANGED <<initialized, header, gpuCeilings>>,
         \A l \in Line : samples'[l] = samples[l] \/ samples'[l] = <<>>
  PROVE  HeaderInv'
<1>1. EndsInv'
  <2> SUFFICES ASSUME NEW l \in Line, samples'[l] # <<>>
               PROVE  Last(samples'[l]).t <= IF l \in GPU \X MetricSeries THEN polled ELSE clock'
    BY DEF EndsInv
  <2>1. samples'[l] = samples[l] /\ samples[l] # <<>>
    OBVIOUS
  <2>2. /\ Last(samples[l]).t <= IF l \in GPU \X MetricSeries THEN polled ELSE clock
        /\ Last(samples[l]).t \in Nat /\ clock \in Nat
    BY <2>1, LastTime DEF HeaderInv, EndsInv, TypeOK
  <2>3. CASE l \in GPU \X MetricSeries
    BY <2>1, <2>2, <2>3
  <2>4. CASE l \notin GPU \X MetricSeries
    BY <2>1, <2>2, <2>4
  <2> QED
    BY <2>3, <2>4
<1>2. MetricAgrees'
  BY HeaderLines DEF HeaderInv, HeaderAgrees, MetricAgrees
<1>3. CeilingAgrees'
  BY HeaderLines DEF HeaderInv, HeaderAgrees, CeilingAgrees
<1>4. NoneYet'
  BY DEF HeaderInv, NoneYet
<1> QED
  BY <1>1, <1>2, <1>3, <1>4 DEF HeaderInv, HeaderAgrees

LEMMA InitMsgHeader == ASSUME TypeOK, HeaderInv, InitMsg PROVE HeaderInv'
<1>1. /\ samples' = [l \in Line |-> IF l[1] = "bandwidth" THEN Push(<<>>, clock, 0) ELSE <<>>]
      /\ UNCHANGED <<header, gpuCeilings, polled, clock>>
  BY DEF InitMsg, NewCharts
<1>2. MetricAgrees' /\ CeilingAgrees'
  <2>1. \A l \in GPU \X MetricSeries : samples'[l] = <<>>
    BY <1>1, HeaderLines
  <2>2. \A g \in GPU : samples'[<<g, "attainable">>] = <<>>
    BY <1>1, HeaderLines, ScreenAssumption
  <2> QED
    BY <2>1, <2>2 DEF MetricAgrees, CeilingAgrees
<1>3. EndsInv'
  <2> SUFFICES ASSUME NEW l \in Line, samples'[l] # <<>>
               PROVE  Last(samples'[l]).t <= IF l \in GPU \X MetricSeries THEN polled ELSE clock
    BY <1>1 DEF EndsInv
  <2>1. l[1] = "bandwidth" /\ l \notin GPU \X MetricSeries
    BY <1>1, HeaderLines
  <2>2. samples'[l] = <<[t |-> clock, value |-> 0]>>
    BY <1>1, <2>1 DEF Push
  <2>3. Last(samples'[l]).t = clock /\ clock \in Nat
    BY <2>2 DEF Last, TypeOK
  <2> QED
    BY <2>1, <2>3
<1>4. NoneYet'
  BY DEF InitMsg, NoneYet
<1> QED
  BY <1>2, <1>3, <1>4 DEF HeaderInv, HeaderAgrees

\* A snapshot is newer than what GPU lines end with, so it is both.
LEMMA SnapshotHeader ==
  ASSUME TypeOK, HeaderInv, NEW t \in polled + 1 .. clock, NEW valid \in [GPU -> Report],
         MetricsSnapshot(t, valid)
  PROVE  HeaderInv'
<1> DEFINE fed == IF paused THEN {} ELSE Fed(valid)
<1>1. /\ samples' = [l \in Line |-> IF l \in fed THEN Push(samples[l], t, t) ELSE samples[l]]
      /\ header' = [l \in Line |-> IF l \in fed THEN t ELSE header[l]]
      /\ polled' = t /\ UNCHANGED <<gpuCeilings, clock>>
  BY DEF MetricsSnapshot
<1>2. /\ t \in 0 .. MaxClock /\ polled \in Nat /\ polled < t /\ t <= clock /\ clock \in Nat
      /\ t \in Nat
  <2>1. t \in Int /\ polled + 1 <= t /\ t <= clock /\ polled \in 0 .. clock /\ clock \in 0 .. MaxClock
    BY DEF TypeOK
  <2> QED
    BY <2>1, ScreenAssumption
<1>3. ASSUME NEW l \in fed PROVE l \in Line /\ l[2] # "attainable"
  BY DEF Fed, SeriesOf, Kind
<1> HIDE DEF fed
<1>4. MetricAgrees'
  <2> SUFFICES ASSUME NEW l \in GPU \X MetricSeries, samples'[l] # <<>>
               PROVE  Last(samples'[l]).value = header'[l]
    BY DEF MetricAgrees
  <2>0. l \in Line
    BY HeaderLines
  <2>1. CASE l \in fed
    <3>1. samples[l] # <<>> => Last(samples[l]).t <= t
      <4> SUFFICES ASSUME samples[l] # <<>> PROVE Last(samples[l]).t <= t
        OBVIOUS
      <4>1. Last(samples[l]).t <= polled /\ Last(samples[l]).t \in Nat
        BY <2>0, LastTime DEF HeaderInv, EndsInv
      <4> QED
        BY <1>2, <4>1
    <3>2. l[2] # "attainable"
      BY <1>3, <2>1
    <3>3. Last(Push(samples[l], t, t)).value = t
      BY <1>2, <2>0, <3>1, <3>2, PushEnds
    <3> QED
      BY <1>1, <2>0, <2>1, <3>3
  <2>2. CASE l \notin fed
    BY <1>1, <2>0, <2>2 DEF HeaderInv, HeaderAgrees, MetricAgrees
  <2> QED
    BY <2>1, <2>2
<1>5. CeilingAgrees'
  <2>1. ASSUME NEW g \in GPU PROVE samples'[<<g, "attainable">>] = samples[<<g, "attainable">>]
    <3>1. <<g, "attainable">> \in Line /\ <<g, "attainable">> \notin fed
      BY <1>3, HeaderLines
    <3> QED
      BY <1>1, <3>1
  <2> QED
    BY <1>1, <2>1 DEF HeaderInv, HeaderAgrees, CeilingAgrees
<1>6. EndsInv'
  <2> SUFFICES ASSUME NEW l \in Line, samples'[l] # <<>>
               PROVE  Last(samples'[l]).t <= IF l \in GPU \X MetricSeries THEN t ELSE clock
    BY <1>1 DEF EndsInv
  <2> DEFINE b == IF l \in GPU \X MetricSeries THEN t ELSE clock
  <2>1. b \in Nat /\ t <= b
    BY <1>2
  <2>2. samples[l] # <<>> => Last(samples[l]).t <= b /\ Last(samples[l]).t \in Nat
    <3> SUFFICES ASSUME samples[l] # <<>> PROVE Last(samples[l]).t <= b /\ Last(samples[l]).t \in Nat
      OBVIOUS
    <3>1. /\ Last(samples[l]).t <= IF l \in GPU \X MetricSeries THEN polled ELSE clock
          /\ Last(samples[l]).t \in Nat
      BY LastTime DEF HeaderInv, EndsInv
    <3> QED
      BY <1>2, <3>1
  <2> HIDE DEF b
  <2>3. CASE l \in fed
    <3>1. samples[l] \in Seq(SampleOf(l)) /\ l[2] # "attainable"
      BY <1>3, <2>3 DEF TypeOK
    <3>2. Last(Push(samples[l], t, t)).t
            = IF samples[l] = <<>> \/ t > Last(samples[l]).t THEN t ELSE Last(samples[l]).t
      BY <1>2, <3>1, Pushed
    <3>3. samples'[l] = Push(samples[l], t, t)
      BY <1>1, <2>3
    <3>4. Last(samples'[l]).t <= b
      BY <2>1, <2>2, <3>2, <3>3
    <3> QED
      BY <3>4 DEF b
  <2>4. CASE l \notin fed
    <3>1. samples'[l] = samples[l]
      BY <1>1, <2>4
    <3> QED
      BY <2>2, <3>1 DEF b
  <2> QED
    BY <2>3, <2>4
<1>7. NoneYet'
  BY DEF MetricsSnapshot, NoneYet
<1> QED
  BY <1>4, <1>5, <1>6, <1>7 DEF HeaderInv, HeaderAgrees

\* Ceilings are pushed now, and no line ends later.
LEMMA CeilingHeader ==
  ASSUME TypeOK, HeaderInv, NEW perGPU \in [GPU -> Ceiling \union {"none"}], RooflineCeiling(perGPU)
  PROVE  HeaderInv'
<1> DEFINE given(l) == initialized /\ l[2] = "attainable" /\ perGPU[l[1]] # "none"
<1>1. /\ samples' = [l \in Line |-> IF given(l) THEN Push(samples[l], clock, perGPU[l[1]])
                                    ELSE samples[l]]
      /\ gpuCeilings' = perGPU /\ UNCHANGED <<header, polled, clock>>
  BY DEF RooflineCeiling
<1>2. clock \in 0 .. MaxClock /\ clock \in Nat
  BY ScreenAssumption DEF TypeOK
<1>3. ASSUME NEW l \in Line, given(l)
      PROVE  /\ l \notin GPU \X MetricSeries /\ samples'[l] # <<>>
             /\ Last(samples'[l]).t = clock /\ Last(samples'[l]).value = perGPU[l[1]]
  <2>1. l \notin GPU \X MetricSeries /\ l[1] \in GPU /\ l[2] = "attainable" /\ perGPU[l[1]] \in Ceiling
    BY <1>3, HeaderLines
  <2>2. samples[l] # <<>> => Last(samples[l]).t <= clock
    BY <2>1 DEF HeaderInv, EndsInv
  <2>3. samples'[l] = Push(samples[l], clock, perGPU[l[1]])
    BY <1>1, <1>3
  <2> QED
    BY <1>2, <2>1, <2>2, <2>3, PushEnds
<1>4. ASSUME NEW l \in Line, ~given(l) PROVE samples'[l] = samples[l]
  BY <1>1, <1>4
<1>5. MetricAgrees'
  <2>1. \A l \in GPU \X MetricSeries : l \in Line /\ ~given(l)
    BY HeaderLines
  <2> QED
    BY <1>1, <1>4, <2>1 DEF HeaderInv, HeaderAgrees, MetricAgrees
<1>6. CeilingAgrees'
  <2> SUFFICES ASSUME NEW g \in GPU, samples'[<<g, "attainable">>] # <<>>, perGPU[g] # "none"
               PROVE  Last(samples'[<<g, "attainable">>]).value = perGPU[g]
    BY <1>1 DEF CeilingAgrees
  <2> DEFINE l == <<g, "attainable">>
  <2>1. l \in Line /\ l[1] = g /\ l[2] = "attainable"
    BY HeaderLines
  <2>2. CASE given(l)
    BY <1>3, <2>1, <2>2
  <2>3. CASE ~given(l)
    <3>1. ~initialized /\ samples'[l] = samples[l]
      BY <1>4, <2>1, <2>3
    <3>2. samples[l] = <<>>
      BY <2>1, <3>1 DEF HeaderInv, NoneYet
    <3> QED
      BY <3>1, <3>2
  <2> QED
    BY <2>2, <2>3
<1>7. EndsInv'
  <2> SUFFICES ASSUME NEW l \in Line, samples'[l] # <<>>
               PROVE  Last(samples'[l]).t <= IF l \in GPU \X MetricSeries THEN polled ELSE clock
    BY <1>1 DEF EndsInv
  <2>1. CASE given(l)
    BY <1>2, <1>3, <2>1
  <2>2. CASE ~given(l)
    BY <1>4, <2>2 DEF HeaderInv, EndsInv
  <2> QED
    BY <2>1, <2>2
<1>8. NoneYet'
  BY <1>4 DEF RooflineCeiling, HeaderInv, NoneYet
<1> QED
  BY <1>5, <1>6, <1>7, <1>8 DEF HeaderInv, HeaderAgrees

LEMMA NextHeader == ASSUME TypeOK, HeaderInv, [Next]_vars PROVE HeaderInv'
<1>0. clock \in Nat
  BY DEF TypeOK
<1>1. CASE \/ Draw \/ Tick \/ Advance \/ User \/ UNCHANGED vars
  <2>1. /\ UNCHANGED <<initialized, header, gpuCeilings, polled>>
        /\ clock' = clock \/ clock' = clock + 1
    BY <1>1 DEF Draw, Tick, Advance, User, CycleMode, Reset, Pause, Detail, ToggleBandwidth,
       WindowSize, BackgroundColor, ToggleSeries, vars
  <2>2. samples' = samples \/ samples' = [l \in Line |-> <<>>]
    BY <1>1 DEF Draw, Tick, Advance, User, CycleMode, Reset, Pause, Detail, ToggleBandwidth,
       WindowSize, BackgroundColor, ToggleSeries, vars
  <2>3. \A l \in Line : samples'[l] = samples[l] \/ samples'[l] = <<>>
    BY <2>2
  <2>4. clock' \in Nat /\ clock <= clock'
    BY <1>0, <2>1
  <2> QED
    BY <2>1, <2>3, <2>4, StillHeader
<1>2. CASE Feed
  BY <1>2, InitMsgHeader, SnapshotHeader, CeilingHeader DEF Feed
<1> QED
  BY <1>1, <1>2 DEF Next, Own

\* HeaderAgrees holds: header and charts end with the same values, whatever was
\* dropped in a pause and whatever was pushed in one.
THEOREM OneStory == Spec => []HeaderAgrees
<1>1. HeaderInv => HeaderAgrees
  BY DEF HeaderInv
<1> QED
  BY <1>1, HeaderStarts, NextHeader, TypeCorrect, PTL DEF Spec
-----------------------------------------------------------------------------
(***************************************************************************)
(* The chart.  Rows.                                                       *)
(***************************************************************************)

LEMMA MaxOfTwo ==
  ASSUME NEW a \in Int, NEW b \in Int
  PROVE  Max({a, b}) = IF a >= b THEN a ELSE b
  BY DEF Max

LEMMA MinOfTwo ==
  ASSUME NEW a \in Int, NEW b \in Int
  PROVE  Min({a, b}) = IF a <= b THEN a ELSE b
  BY DEF Min

\* A quotient is as large as the multiple of its divisor that fits.
LEMMA Quotient ==
  ASSUME NEW a \in Int, NEW b \in Nat \ {0}
  PROVE  /\ a \div b \in Int /\ b * (a \div b) <= a /\ a < b * (a \div b) + b
         /\ b * (a \div b) \in Int
  OBVIOUS

LEMMA QuotientBounds ==
  ASSUME NEW a \in Nat, NEW b \in Nat \ {0}, NEW n \in Nat, a < b * (n + 1)
  PROVE  a \div b \in 0..n
  <1> DEFINE q == a \div b
  <1>1. q \in Int /\ b * q <= a /\ a < b * q + b
    BY Quotient
  <1> HIDE DEF q
  <1>2. q >= 0
    <2>1. b * q + b = b * (q + 1)
      BY <1>1
    <2>2. 0 < b * (q + 1)
      BY <1>1, <2>1
    <2>3. q + 1 > 0
      BY <1>1, <2>2
    <2> QED BY <1>1, <2>3
  <1>3. q <= n
    <2>1. b * q < b * (n + 1)
      BY <1>1
    <2>2. q < n + 1
      BY <1>1, <2>1
    <2> QED BY <1>1, <2>2
  <1> QED BY <1>1, <1>2, <1>3 DEF q

LEMMA QuotientGrows ==
  ASSUME NEW a \in Int, NEW c \in Int, NEW b \in Nat \ {0}, a <= c
  PROVE  a \div b <= c \div b
  <1> DEFINE p == a \div b
             q == c \div b
  <1>1. p \in Int /\ q \in Int /\ b * p <= a /\ c < b * q + b
    BY Quotient
  <1> HIDE DEF p, q
  <1>2. b * p < b * (q + 1)
    BY <1>1
  <1>3. p < q + 1
    BY <1>1, <1>2
  <1> QED BY <1>1, <1>3 DEF p, q

\* The ranges a chart is drawn in.
Scale == {r \in Int \X Int : r[1] < r[2]}

LEMMA ClampIs ==
  ASSUME NEW v \in Int, NEW r \in Scale
  PROVE  Clamp(v, r) = IF v <= r[1] THEN r[1] ELSE IF v <= r[2] THEN v ELSE r[2]
  <1>1. r[1] \in Int /\ r[2] \in Int /\ r[1] < r[2]
    BY DEF Scale
  <1>2. Min({v, r[2]}) = IF v <= r[2] THEN v ELSE r[2]
    BY <1>1, MinOfTwo
  <1>3. Min({v, r[2]}) \in Int
    BY <1>1, <1>2
  <1>4. Max({r[1], Min({v, r[2]})}) = IF r[1] >= Min({v, r[2]}) THEN r[1] ELSE Min({v, r[2]})
    BY <1>1, <1>3, MaxOfTwo
  <1> QED BY <1>1, <1>2, <1>4 DEF Clamp

LEMMA RowOfBounds ==
  ASSUME NEW v \in Int, NEW r \in Scale, NEW n \in Nat
  PROVE  RowOf(v, r, n) \in 0..n
  <1> DEFINE span == r[2] - r[1]
             a == r[2] - Clamp(v, r)
  <1>1. span \in Nat /\ span > 0 /\ a \in 0..span
    BY ClampIs DEF Scale
  <1>2. RowOf(v, r, n) = (2 * a * n + span) \div (2 * span)
    BY DEF RowOf
  <1> HIDE DEF span, a
  <1>3. a * n \in Nat /\ span * n \in Nat /\ a * n <= span * n
    BY <1>1
  <1>4. 2 * a * n = 2 * (a * n) /\ (2 * span) * (n + 1) = 2 * (span * n) + 2 * span
    BY <1>1
  <1>5. 2 * a * n + span \in Nat /\ 2 * span \in Nat \ {0} /\ 2 * a * n + span < (2 * span) * (n + 1)
    BY <1>1, <1>3, <1>4
  <1> QED BY <1>2, <1>5, QuotientBounds

\* A higher value is not drawn lower.
LEMMA RowOfFalls ==
  ASSUME NEW v \in Int, NEW u \in Int, v <= u, NEW r \in Scale, NEW n \in Nat
  PROVE  RowOf(u, r, n) <= RowOf(v, r, n)
  <1> DEFINE span == r[2] - r[1]
             a == r[2] - Clamp(u, r)
             b == r[2] - Clamp(v, r)
  <1>1. span \in Nat /\ span > 0 /\ a \in Nat /\ b \in Nat /\ a <= b
    BY ClampIs DEF Scale
  <1>2. /\ RowOf(u, r, n) = (2 * a * n + span) \div (2 * span)
        /\ RowOf(v, r, n) = (2 * b * n + span) \div (2 * span)
    BY DEF RowOf
  <1> HIDE DEF span, a, b
  <1>3. a * n \in Nat /\ b * n \in Nat /\ a * n <= b * n
    BY <1>1
  <1>4. 2 * a * n = 2 * (a * n) /\ 2 * b * n = 2 * (b * n)
    BY <1>1
  <1>5. /\ 2 * a * n + span \in Int /\ 2 * b * n + span \in Int /\ 2 * span \in Nat \ {0}
        /\ 2 * a * n + span <= 2 * b * n + span
    BY <1>1, <1>3, <1>4
  <1> QED BY <1>2, <1>5, QuotientGrows

\* Of a value near an end of the range, within 0.5% of it.
NearLow(v, r) == 200 * (v - r[1]) <= r[2] - r[1]
NearHigh(v, r) == 200 * (r[2] - v) <= r[2] - r[1]

\* The row of a value in a plain grid: that of RowOf, but for those at the ends.
LEMMA PlainRowIs ==
  ASSUME NEW v \in Int, NEW r \in Scale, NEW h \in Nat, h > 0
  PROVE  LET y == IF h <= 1 THEN 0 ELSE RowOf(v, r, h - 1)
         IN /\ y \in 0..(h - 1) /\ PlainRow(v, r, h) \in 0..(h - 1)
            /\ h < 3 => PlainRow(v, r, h) = y
            /\ h >= 3 => PlainRow(v, r, h) =
                 IF ~NearHigh(v, r) /\ y = 0 THEN 1
                 ELSE IF ~NearLow(v, r) /\ y = h - 1 THEN h - 2 ELSE y
  <1> DEFINE y == IF h <= 1 THEN 0 ELSE RowOf(v, r, h - 1)
             low == 200 * (v - r[1]) > r[2] - r[1]
             high == 200 * (r[2] - v) > r[2] - r[1]
  <1>1. y \in 0..(h - 1)
    <2>1. CASE h <= 1
      BY <2>1
    <2>2. CASE h > 1
      <3>1. h - 1 \in Nat
        BY <2>2
      <3>2. RowOf(v, r, h - 1) \in 0..(h - 1)
        BY <3>1, RowOfBounds
      <3> QED BY <2>2, <3>2
    <2> QED BY <2>1, <2>2
  <1>2. PlainRow(v, r, h) =
          LET y2 == IF low /\ h >= 3 /\ y >= h - 1 THEN h - 2 ELSE y
          IN IF high /\ h >= 3 /\ y2 <= 0 THEN 1 ELSE y2
    BY DEF PlainRow
  <1>3. (low <=> ~NearLow(v, r)) /\ (high <=> ~NearHigh(v, r))
    BY DEF NearLow, NearHigh, Scale
  <1> HIDE DEF y, low, high
  <1>4. CASE h < 3
    <2>1. PlainRow(v, r, h) = y
      BY <1>2, <1>4
    <2> QED BY <1>1, <1>4, <2>1 DEF y
  <1>5. CASE h >= 3
    <2>1. PlainRow(v, r, h) = IF ~NearHigh(v, r) /\ y = 0 THEN 1
                              ELSE IF ~NearLow(v, r) /\ y = h - 1 THEN h - 2 ELSE y
      BY <1>1, <1>2, <1>3, <1>5
    <2>2. PlainRow(v, r, h) \in 0..(h - 1)
      BY <1>1, <1>5, <2>1
    <2> QED BY <1>1, <1>5, <2>1, <2>2 DEF y
  <1> QED BY <1>4, <1>5

LEMMA PlainRowFalls ==
  ASSUME NEW v \in Int, NEW u \in Int, v <= u, NEW r \in Scale, NEW h \in Nat, h > 0
  PROVE  PlainRow(u, r, h) <= PlainRow(v, r, h)
  <1> DEFINE y(w) == IF h <= 1 THEN 0 ELSE RowOf(w, r, h - 1)
  <1>1. y(u) <= y(v)
    <2>1. CASE h <= 1
      BY <2>1
    <2>2. CASE h > 1
      <3>1. h - 1 \in Nat
        BY <2>2
      <3> QED BY <2>2, <3>1, RowOfFalls
    <2> QED BY <2>1, <2>2
  <1>2. \A w \in {u, v} :
          /\ y(w) \in 0..(h - 1)
          /\ h < 3 => PlainRow(w, r, h) = y(w)
          /\ h >= 3 => PlainRow(w, r, h) =
               IF ~NearHigh(w, r) /\ y(w) = 0 THEN 1
               ELSE IF ~NearLow(w, r) /\ y(w) = h - 1 THEN h - 2 ELSE y(w)
    BY PlainRowIs
  <1>3. (NearHigh(v, r) => NearHigh(u, r)) /\ (NearLow(u, r) => NearLow(v, r))
    BY DEF NearHigh, NearLow, Scale
  <1> HIDE DEF y
  <1>4. CASE h < 3
    BY <1>1, <1>2, <1>4
  <1>5. CASE h >= 3
    BY <1>1, <1>2, <1>3, <1>5
  <1> QED BY <1>4, <1>5

-----------------------------------------------------------------------------
(***************************************************************************)
(* A line between the dots of two neighbouring columns.                    *)
(***************************************************************************)

\* The rows from one to another, in either order.
Way(a, b) == Min({a, b})..Max({a, b})

LEMMA WayIs ==
  ASSUME NEW a \in Int, NEW b \in Int
  PROVE  Way(a, b) = IF a <= b THEN a..b ELSE b..a
  BY MaxOfTwo, MinOfTwo DEF Way

\* A round of drawLine's loop.
Round(p, x1, y1, dx, dy, sy) ==
  LET right == 2 * p.err >= dy
      down == 2 * p.err <= dx
  IN IF p.x = x1 /\ p.y = y1 THEN p
     ELSE [x |-> IF right THEN p.x + 1 ELSE p.x, y |-> IF down THEN p.y + sy ELSE p.y,
           err |-> p.err + (IF right THEN dy ELSE 0) + (IF down THEN dx ELSE 0)]

Rounds(f, x, y0, y1, height, sy) ==
  f = [k \in 0..height + 1 |->
        IF k = 0 THEN [x |-> x - 1, y |-> y0, err |-> 1 - height]
        ELSE Round(f[k - 1], x, y1, 1, -height, sy)]

\* One row at a time, the first half of them in the left column.
LEMMA LineRounds ==
  ASSUME NEW x \in Int, NEW y0 \in Int, NEW y1 \in Int,
         NEW height \in Nat, NEW down \in {-1, 1}, NEW half \in Nat,
         down = (IF y0 > y1 THEN -1 ELSE 1),
         height = (IF y1 > y0 THEN y1 - y0 ELSE y0 - y1),
         height > 0, height = 2 * half + 1 \/ height = 2 * half + 2,
         NEW g, g = [k \in 0..height + 1 |->
           LET y(n) == IF y0 > y1 THEN y0 - n ELSE y0 + n
           IN IF k <= half THEN [x |-> x - 1, y |-> y(k), err |-> 1 - height + k]
              ELSE IF k <= height THEN [x |-> x, y |-> y(k), err |-> 1 - 2 * height + k]
              ELSE [x |-> x, y |-> y1, err |-> 1 - height]]
  PROVE  Rounds(g, x, y0, y1, height, down)
  <1> DEFINE start == [x |-> x - 1, y |-> y0, err |-> 1 - height]
  <1> SUFFICES ASSUME NEW k \in 0..height + 1
               PROVE  g[k] = IF k = 0 THEN start ELSE Round(g[k - 1], x, y1, 1, -height, down)
    BY DEF Rounds
  <1>1. CASE k = 0
    BY <1>1
  <1>2. CASE k \in 1..half
    <2>1. k - 1 \in 0..height + 1 /\ k - 1 <= half /\ k <= half /\ k # 0
      BY <1>2
    <2> DEFINE p == [x |-> x - 1, y |-> IF y0 > y1 THEN y0 - (k - 1) ELSE y0 + (k - 1),
                     err |-> 1 - height + (k - 1)]
    <2>2. g[k - 1] = p
      BY <2>1
    <2>3. ~(2 * p.err >= -height) /\ 2 * p.err <= 1 /\ p.x # x
      BY <1>2
    <2>4. Round(p, x, y1, 1, -height, down) =
            [x |-> p.x, y |-> p.y + down, err |-> p.err + 0 + 1]
      BY <2>3 DEF Round
    <2>5. p.y + down = (IF y0 > y1 THEN y0 - k ELSE y0 + k) /\ p.err + 0 + 1 = 1 - height + k
      OBVIOUS
    <2>6. g[k] = [x |-> x - 1, y |-> IF y0 > y1 THEN y0 - k ELSE y0 + k, err |-> 1 - height + k]
      BY <2>1
    <2>7. p.x = x - 1
      OBVIOUS
    <2> HIDE DEF p
    <2> QED BY <2>1, <2>2, <2>4, <2>5, <2>6, <2>7
  <1>3. CASE k = half + 1
    <2>1. k - 1 \in 0..height + 1 /\ k - 1 <= half /\ ~(k <= half) /\ k <= height /\ k # 0
      BY <1>3
    <2> DEFINE p == [x |-> x - 1, y |-> IF y0 > y1 THEN y0 - (k - 1) ELSE y0 + (k - 1),
                     err |-> 1 - height + (k - 1)]
    <2>2. g[k - 1] = p
      BY <2>1
    <2>3. 2 * p.err >= -height /\ 2 * p.err <= 1 /\ p.x # x
      BY <1>3
    <2>4. Round(p, x, y1, 1, -height, down) =
            [x |-> p.x + 1, y |-> p.y + down, err |-> p.err + (-height) + 1]
      BY <2>3 DEF Round
    <2>5. /\ p.y + down = (IF y0 > y1 THEN y0 - k ELSE y0 + k) /\ p.x + 1 = x
          /\ p.err + (-height) + 1 = 1 - 2 * height + k
      OBVIOUS
    <2>6. g[k] = [x |-> x, y |-> IF y0 > y1 THEN y0 - k ELSE y0 + k, err |-> 1 - 2 * height + k]
      BY <2>1
    <2> HIDE DEF p
    <2> QED BY <2>1, <2>2, <2>4, <2>5, <2>6
  <1>4. CASE k \in (half + 2)..height
    <2>1. /\ k - 1 \in 0..height + 1 /\ ~(k - 1 <= half) /\ ~(k <= half) /\ k - 1 <= height
          /\ k <= height /\ k # 0
      BY <1>4
    <2> DEFINE p == [x |-> x, y |-> IF y0 > y1 THEN y0 - (k - 1) ELSE y0 + (k - 1),
                     err |-> 1 - 2 * height + (k - 1)]
    <2>2. g[k - 1] = p
      BY <2>1
    <2>3. ~(2 * p.err >= -height) /\ 2 * p.err <= 1 /\ p.y # y1
      BY <1>4
    <2>4. Round(p, x, y1, 1, -height, down) =
            [x |-> p.x, y |-> p.y + down, err |-> p.err + 0 + 1]
      BY <2>3 DEF Round
    <2>5. /\ p.y + down = (IF y0 > y1 THEN y0 - k ELSE y0 + k) /\ p.x = x
          /\ p.err + 0 + 1 = 1 - 2 * height + k
      OBVIOUS
    <2>6. g[k] = [x |-> x, y |-> IF y0 > y1 THEN y0 - k ELSE y0 + k, err |-> 1 - 2 * height + k]
      BY <2>1
    <2> HIDE DEF p
    <2> QED BY <2>1, <2>2, <2>4, <2>5, <2>6
  <1>5. CASE k = height + 1
    <2>1. /\ k - 1 \in 0..height + 1 /\ k - 1 = height /\ ~(k - 1 <= half) /\ ~(k <= half)
          /\ ~(k <= height) /\ k # 0
      BY <1>5
    <2> DEFINE p == [x |-> x, y |-> y1, err |-> 1 - height]
    <2>2. /\ height \in 0..height + 1 /\ ~(height <= half) /\ height <= height
          /\ g[height] = [x |-> x, y |-> IF y0 > y1 THEN y0 - height ELSE y0 + height,
                          err |-> 1 - 2 * height + height]
      OBVIOUS
    <2>3. (IF y0 > y1 THEN y0 - height ELSE y0 + height) = y1 /\ 1 - 2 * height + height = 1 - height
      OBVIOUS
    <2>4. g[k - 1] = p
      BY <2>1, <2>2, <2>3
    <2>5. g[k] = p
      BY <2>1
    <2>6. Round(p, x, y1, 1, -height, down) = p
      BY DEF Round
    <2> HIDE DEF p
    <2> QED BY <2>1, <2>4, <2>5, <2>6
  <1>6. k = 0 \/ k \in 1..half \/ k = half + 1 \/ k \in (half + 2)..height \/ k = height + 1
    OBVIOUS
  <1> QED BY <1>1, <1>2, <1>3, <1>4, <1>5, <1>6

LEMMA RoundsOnce ==
  ASSUME NEW x, NEW y0, NEW y1, NEW height \in Nat, NEW sy, NEW f, NEW g,
         Rounds(f, x, y0, y1, height, sy), Rounds(g, x, y0, y1, height, sy)
  PROVE  f = g
  <1> DEFINE D == 0..height + 1
             Same == {k \in Nat : k \in D => f[k] = g[k]}
  <1>1. f = [k \in D |-> f[k]] /\ g = [k \in D |-> g[k]]
    BY DEF Rounds
  <1>2. \A k \in D : /\ f[k] = IF k = 0 THEN [x |-> x - 1, y |-> y0, err |-> 1 - height]
                               ELSE Round(f[k - 1], x, y1, 1, -height, sy)
                     /\ g[k] = IF k = 0 THEN [x |-> x - 1, y |-> y0, err |-> 1 - height]
                               ELSE Round(g[k - 1], x, y1, 1, -height, sy)
    BY DEF Rounds
  <1>3. 0 \in Same
    BY <1>2
  <1>4. \A k \in Same : k + 1 \in Same
    <2> SUFFICES ASSUME NEW k \in Same, k + 1 \in D
                 PROVE  f[k + 1] = g[k + 1]
      OBVIOUS
    <2>1. k \in D /\ k + 1 # 0 /\ (k + 1) - 1 = k
      OBVIOUS
    <2>2. f[k] = g[k]
      BY <2>1
    <2>3. /\ f[k + 1] = Round(f[k], x, y1, 1, -height, sy)
          /\ g[k + 1] = Round(g[k], x, y1, 1, -height, sy)
      BY <1>2, <2>1
    <2> QED BY <2>2, <2>3
  <1>5. Same = Nat
    <2> HIDE DEF Same
    <2>1. Same \in SUBSET Nat
      BY DEF Same
    <2> QED BY <1>3, <1>4, <2>1, NumberInduction
  <1>6. \A k \in D : f[k] = g[k]
    BY <1>5
  <1> HIDE DEF D
  <1> QED BY <1>1, <1>6

\* How many rows a line goes, and in which direction.
Height(a, b) == IF b > a THEN b - a ELSE a - b
Down(a, b) == IF a > b THEN -1 ELSE 1

LEMMA LineIs ==
  ASSUME NEW x \in Int, NEW y0 \in Int, NEW y1 \in Int,
         NEW g, Rounds(g, x, y0, y1, Height(y0, y1), Down(y0, y1))
  PROVE  DrawLine(x - 1, y0, x, y1) = {<<g[k].x, g[k].y>> : k \in 0..Height(y0, y1) + 1}
  <1> DEFINE height == Height(y0, y1)
             sy == Down(y0, y1)
             dx == x - (x - 1)
             dy == IF y1 > y0 THEN y0 - y1 ELSE y1 - y0
             Goes(f, n, e, a, b) == f = [k \in 0..n |->
               IF k = 0 THEN [x |-> x - 1, y |-> y0, err |-> e]
               ELSE Round(f[k - 1], x, y1, a, b, sy)]
             at == CHOOSE f : Goes(f, dx - dy, dx + dy, dx, dy)
  <1>1. DrawLine(x - 1, y0, x, y1) = {<<at[k].x, at[k].y>> : k \in 0..dx - dy}
    BY DEF DrawLine, Round, Down
  <1>2. dx = 1 /\ dy = -height /\ dx - dy = height + 1 /\ dx + dy = 1 - height /\ height \in Nat
    BY DEF Height
  <1>3. \A f : Goes(f, height + 1, 1 - height, 1, -height) <=> Rounds(f, x, y0, y1, height, sy)
    BY DEF Rounds
  <1> HIDE DEF Goes, dx, dy
  <1>4. Goes(g, dx - dy, dx + dy, dx, dy)
    BY <1>2, <1>3
  <1>5. Goes(at, dx - dy, dx + dy, dx, dy)
    BY <1>4
  <1>6. Rounds(at, x, y0, y1, height, sy)
    BY <1>2, <1>3, <1>5
  <1> HIDE DEF at
  <1>7. at = g
    BY <1>2, <1>6, RoundsOnce
  <1> QED BY <1>1, <1>2, <1>7

\* What a line from row a of column x - 1 to row b of column x goes through: the
\* rows from one to the other, each in one of the columns, and both its ends.
Joins(line, x, a, b) ==
  /\ line \subseteq {x - 1, x} \X Way(a, b)
  /\ <<x - 1, a>> \in line /\ <<x, b>> \in line
  /\ \A y \in Way(a, b) : <<x - 1, y>> \in line \/ <<x, y>> \in line

LEMMA LineJoins ==
  ASSUME NEW x \in Int, NEW y0 \in Int, NEW y1 \in Int
  PROVE  Joins(DrawLine(x - 1, y0, x, y1), x, y0, y1)
  <1> DEFINE height == Height(y0, y1)
             sy == Down(y0, y1)
             line == DrawLine(x - 1, y0, x, y1)
             y(n) == IF y0 > y1 THEN y0 - n ELSE y0 + n
  <1>1. /\ height \in Nat /\ height = (IF y1 > y0 THEN y1 - y0 ELSE y0 - y1)
        /\ sy \in {-1, 1} /\ sy = (IF y0 > y1 THEN -1 ELSE 1)
    BY DEF Height, Down
  <1>2. CASE y0 = y1
    <2> DEFINE p == [x |-> x - 1, y |-> y0, err |-> 1]
               q == [x |-> x, y |-> y0, err |-> 1]
               g == [k \in 0..1 |-> IF k = 0 THEN p ELSE q]
    <2>1. height = 0 /\ sy = 1
      BY <1>1, <1>2
    <2>2. Round(p, x, y1, 1, 0, 1) = q
      BY <1>2 DEF Round
    <2>3. g = [k \in 0..1 |-> IF k = 0 THEN p ELSE Round(g[k - 1], x, y1, 1, 0, 1)]
      <3> HIDE DEF p, q
      <3>1. g[0] = p
        OBVIOUS
      <3>2. \A k \in 0..1 : k # 0 => k - 1 = 0
        OBVIOUS
      <3> QED BY <2>2, <3>1, <3>2
    <2>4. Rounds(g, x, y0, y1, height, sy)
      <3>1. height + 1 = 1 /\ -height = 0 /\ 1 - height = 1
        BY <1>1, <2>1
      <3> HIDE DEF g, p, q, height, sy
      <3>2. Rounds(g, x, y0, y1, height, sy) <=>
              g = [k \in 0..1 |-> IF k = 0 THEN p ELSE Round(g[k - 1], x, y1, 1, 0, 1)]
        BY <2>1, <3>1 DEF Rounds, p
      <3> QED BY <2>3, <3>2
    <2>5. line = {<<g[k].x, g[k].y>> : k \in 0..1}
      <3> HIDE DEF g
      <3>1. line = {<<g[k].x, g[k].y>> : k \in 0..height + 1}
        BY <1>1, <2>4, LineIs
      <3>2. height + 1 = 1
        BY <2>1
      <3> QED BY <3>1, <3>2
    <2>6. line = {<<x - 1, y0>>, <<x, y0>>}
      <3>1. g[0] = p /\ g[1] = q /\ 0..1 = {0, 1}
        OBVIOUS
      <3> HIDE DEF g, line
      <3> QED BY <2>5, <3>1
    <2>7. Way(y0, y1) = {y0}
      BY <1>2, WayIs
    <2> HIDE DEF line
    <2> QED BY <1>2, <2>6, <2>7 DEF Joins, line
  <1>3. CASE y0 # y1
    <2>1. height > 0
      BY <1>1, <1>3
    <2>2. PICK half \in Nat : height = 2 * half + 1 \/ height = 2 * half + 2
      <3>1. (height - 1) \div 2 \in Nat
        BY <1>1, <2>1
      <3>2. height = 2 * ((height - 1) \div 2) + 1 \/ height = 2 * ((height - 1) \div 2) + 2
        BY <1>1, <2>1
      <3> QED BY <3>1, <3>2
    <2> DEFINE g == [k \in 0..height + 1 |->
                 IF k <= half THEN [x |-> x - 1, y |-> y(k), err |-> 1 - height + k]
                 ELSE IF k <= height THEN [x |-> x, y |-> y(k), err |-> 1 - 2 * height + k]
                 ELSE [x |-> x, y |-> y1, err |-> 1 - height]]
    <2>3. Rounds(g, x, y0, y1, height, sy)
      <3> DEFINE gg == [k \in 0..height + 1 |->
           LET yy(n) == IF y0 > y1 THEN y0 - n ELSE y0 + n
           IN IF k <= half THEN [x |-> x - 1, y |-> yy(k), err |-> 1 - height + k]
              ELSE IF k <= height THEN [x |-> x, y |-> yy(k), err |-> 1 - 2 * height + k]
              ELSE [x |-> x, y |-> y1, err |-> 1 - height]]
      <3>1. g = gg
        OBVIOUS
      <3>2. Rounds(gg, x, y0, y1, height, sy)
        <4> HIDE DEF height, sy
        <4> QED BY <1>1, <2>1, <2>2, LineRounds
      <3> QED BY <3>1, <3>2
    <2>4. line = {<<g[k].x, g[k].y>> : k \in 0..height + 1}
      <3> HIDE DEF g
      <3> QED BY <2>3, LineIs
    <2>5. \A k \in 0..height : <<g[k].x, g[k].y>> = <<IF k <= half THEN x - 1 ELSE x, y(k)>>
      <3> TAKE k \in 0..height
      <3>1. k \in 0..height + 1 /\ k <= height
        BY <1>1
      <3>2. g[k] = IF k <= half THEN [x |-> x - 1, y |-> y(k), err |-> 1 - height + k]
                   ELSE [x |-> x, y |-> y(k), err |-> 1 - 2 * height + k]
        BY <3>1
      <3> HIDE DEF g, y, height
      <3> QED BY <3>2
    <2>6. <<g[height + 1].x, g[height + 1].y>> = <<x, y1>>
      <3>1. /\ height + 1 \in 0..height + 1 /\ ~(height + 1 <= half)
            /\ ~(height + 1 <= height)
        BY <1>1, <2>2
      <3>2. g[height + 1] = [x |-> x, y |-> y1, err |-> 1 - height]
        BY <3>1
      <3> HIDE DEF g, height
      <3> QED BY <3>2
    <2>7. y(0) = y0 /\ y(height) = y1 /\ 0 <= half /\ half < height
      BY <1>1, <2>1, <2>2
    <2>8. \A k \in 0..height : y(k) \in Way(y0, y1)
      BY <1>1, WayIs
    <2>9. \A w \in Way(y0, y1) : \E k \in 0..height : y(k) = w
      <3> SUFFICES ASSUME NEW w \in Way(y0, y1)
                   PROVE  \E k \in 0..height : y(k) = w
        OBVIOUS
      <3>1. w \in Int /\ w \in (IF y0 <= y1 THEN y0..y1 ELSE y1..y0)
        BY WayIs
      <3> DEFINE k == IF y0 > y1 THEN y0 - w ELSE w - y0
      <3>2. k \in 0..height /\ y(k) = w
        BY <1>1, <3>1
      <3> QED BY <3>2
    <2>10. y1 \in Way(y0, y1)
      BY WayIs
    <2> HIDE DEF g, y, height, line
    <2>11. \A k \in 0..height : <<IF k <= half THEN x - 1 ELSE x, y(k)>> \in line
      <3> TAKE k \in 0..height
      <3>1. k \in 0..height + 1
        BY <1>1
      <3> QED BY <2>4, <2>5, <3>1
    <2>12. \A m \in line : (\E k \in 0..height : m = <<IF k <= half THEN x - 1 ELSE x, y(k)>>) \/ m = <<x, y1>>
      <3> SUFFICES ASSUME NEW m \in line
                   PROVE  (\E k \in 0..height : m = <<IF k <= half THEN x - 1 ELSE x, y(k)>>) \/ m = <<x, y1>>
        OBVIOUS
      <3>1. PICK k \in 0..height + 1 : m = <<g[k].x, g[k].y>>
        BY <2>4
      <3>2. k \in 0..height \/ k = height + 1
        BY <1>1
      <3> QED BY <2>5, <2>6, <3>1, <3>2
    <2>13. line \subseteq {x - 1, x} \X Way(y0, y1)
      BY <2>8, <2>10, <2>12
    <2>14. <<x - 1, y0>> \in line /\ <<x, y1>> \in line
      <3>1. 0 \in 0..height /\ height \in 0..height /\ ~(height <= half)
        BY <1>1, <2>2, <2>7
      <3> QED BY <2>7, <2>11, <3>1
    <2>15. \A w \in Way(y0, y1) : <<x - 1, w>> \in line \/ <<x, w>> \in line
      BY <2>9, <2>11
    <2> QED BY <2>13, <2>14, <2>15 DEF Joins, line
  <1> QED BY <1>2, <1>3

-----------------------------------------------------------------------------
(***************************************************************************)
(* What the marks of a series tell of its values.                          *)
(***************************************************************************)
ValuesOf(n) == [1..n -> Int \union {Gap}]
Visible(vals) == {x \in DOMAIN vals : vals[x] # Gap}
RowIn(v, r, h, d) == IF d THEN DotRow(v, r, h) ELSE PlainRow(v, r, h)

\* The rows of a column, from that of the value before to that of its own.
Before(vals, x) == IF Joined(vals, x) THEN x - 1 ELSE x
PathIn(vals, r, h, d, x) ==
  Way(RowIn(vals[Before(vals, x)], r, h, d), RowIn(vals[x], r, h, d))

\* The rows that are marked in a column.
ColumnOf(marks, x) == {m[2] : m \in {k \in marks : k[1] = x}}

LEMMA RowInBounds ==
  ASSUME NEW v \in Int, NEW r \in Scale, NEW h \in Nat, h > 0, NEW d \in BOOLEAN
  PROVE  RowIn(v, r, h, d) \in 0..(IF d THEN 4 * h - 1 ELSE h - 1)
  <1>1. 4 * h - 1 \in Nat
    OBVIOUS
  <1>2. DotRow(v, r, h) \in 0..(4 * h - 1)
    BY <1>1, RowOfBounds DEF DotRow
  <1>3. PlainRow(v, r, h) \in 0..(h - 1)
    BY PlainRowIs
  <1> QED BY <1>2, <1>3 DEF RowIn

LEMMA RowInFalls ==
  ASSUME NEW v \in Int, NEW u \in Int, v <= u, NEW r \in Scale, NEW h \in Nat, h > 0,
         NEW d \in BOOLEAN
  PROVE  RowIn(v, r, h, d) >= RowIn(u, r, h, d)
  <1>1. 4 * h - 1 \in Nat
    OBVIOUS
  <1>2. DotRow(v, r, h) >= DotRow(u, r, h)
    <2>1. /\ DotRow(v, r, h) = RowOf(v, r, 4 * h - 1)
          /\ DotRow(u, r, h) = RowOf(u, r, 4 * h - 1)
      BY DEF DotRow
    <2>2. RowOf(v, r, 4 * h - 1) \in Int /\ RowOf(u, r, 4 * h - 1) \in Int
      BY <1>1, RowOfBounds
    <2>3. RowOf(u, r, 4 * h - 1) <= RowOf(v, r, 4 * h - 1)
      BY <1>1, RowOfFalls
    <2> QED BY <2>1, <2>2, <2>3
  <1>3. PlainRow(v, r, h) >= PlainRow(u, r, h)
    <2>1. \A w \in {v, u} : PlainRow(w, r, h) \in Int
      <3> SUFFICES ASSUME NEW w \in {v, u}
                   PROVE  PlainRow(w, r, h) \in Int
        OBVIOUS
      <3>1. PlainRow(w, r, h) \in 0..(h - 1)
        BY PlainRowIs
      <3> QED BY <3>1
    <2>2. PlainRow(u, r, h) <= PlainRow(v, r, h)
      BY PlainRowFalls
    <2> QED BY <2>1, <2>2
  <1> QED BY <1>2, <1>3 DEF RowIn

\* The values that are shown are numbers, and so are those that they are joined to.
LEMMA ShownAre ==
  ASSUME NEW n \in Nat, NEW vals \in ValuesOf(n)
  PROVE  /\ DOMAIN vals = 1..n /\ Visible(vals) \subseteq 1..n
         /\ \A x \in Visible(vals) :
              /\ x \in Int /\ vals[x] \in Int
              /\ Before(vals, x) \in Visible(vals)
              /\ Joined(vals, x) => Before(vals, x) = x - 1 /\ x - 1 \in 1..n
              /\ ~Joined(vals, x) => Before(vals, x) = x
              /\ x + 1 \in Visible(vals) => Joined(vals, x + 1)
  <1>1. DOMAIN vals = 1..n /\ \A x \in 1..n : vals[x] \in Int \union {Gap}
    BY DEF ValuesOf
  <1>2. \A x \in Visible(vals) : x \in 1..n /\ x \in Int /\ vals[x] \in Int
    BY <1>1 DEF Visible
  <1>3. \A x \in Visible(vals) : Joined(vals, x) => x - 1 \in 1..n /\ x - 1 \in Visible(vals)
    BY <1>1, <1>2 DEF Visible, Joined
  <1>4. \A x \in Visible(vals) : x + 1 \in Visible(vals) => Joined(vals, x + 1)
    <2> SUFFICES ASSUME NEW x \in Visible(vals)
                 PROVE  Joined(vals, x + 1)
      OBVIOUS
    <2>1. x + 1 > 1 /\ (x + 1) - 1 = x /\ vals[x] # Gap
      BY <1>2 DEF Visible
    <2> QED BY <2>1 DEF Joined
  <1> QED BY <1>1, <1>2, <1>3, <1>4 DEF Before

\* Of the marks of a series: what they say of its columns.
ColumnsTell(vals, r, h, d, marks) ==
  /\ \A x \in DOMAIN vals \ Visible(vals) : ColumnOf(marks, x) = {}
  /\ \A x \in Visible(vals) :
       /\ RowIn(vals[x], r, h, d) \in ColumnOf(marks, x)
       /\ Joined(vals, x) =>
            PathIn(vals, r, h, d, x) \subseteq ColumnOf(marks, x - 1) \union ColumnOf(marks, x)
       /\ ColumnOf(marks, x) \subseteq PathIn(vals, r, h, d, x)
            \union (IF x + 1 \in Visible(vals) THEN PathIn(vals, r, h, d, x + 1) ELSE {})

LEMMA DotsTell ==
  ASSUME NEW n \in Nat, NEW vals \in ValuesOf(n), NEW r \in Scale, NEW h \in Nat, h > 0
  PROVE  /\ ColumnsTell(vals, r, h, TRUE, DotMarks(vals, r, h))
         /\ DotMarks(vals, r, h) \subseteq (1..n) \X (0..(4 * h - 1))
  <1> DEFINE S == Visible(vals)
             row(x) == DotRow(vals[x], r, h)
             path(x) == Way(row(Before(vals, x)), row(x))
             part(x) == IF Joined(vals, x) THEN DrawLine(x - 1, row(x - 1), x, row(x)) ELSE {<<x, row(x)>>}
             marks == DotMarks(vals, r, h)
             in(x) == ColumnOf(marks, x)
             H == 0..(4 * h - 1)
  <1>1. marks = UNION {part(x) : x \in S}
    BY DEF DotMarks, Visible
  <1>2. /\ \A x \in S : x \in 1..n /\ x \in Int /\ row(x) \in H /\ row(x) \in Int
        /\ \A x \in S : /\ Joined(vals, x) => Before(vals, x) = x - 1 /\ x - 1 \in 1..n /\ x - 1 \in S
                        /\ ~Joined(vals, x) => Before(vals, x) = x
                        /\ x + 1 \in S => Joined(vals, x + 1)
    <2>1. \A x \in S : vals[x] \in Int
      BY ShownAre
    <2>2. \A x \in S : row(x) \in H
      BY <2>1, RowInBounds DEF RowIn
    <2>3. \A x \in S : Joined(vals, x) => x - 1 \in S
      BY ShownAre
    <2> QED BY <2>2, <2>3, ShownAre
  <1>3. \A x \in S : PathIn(vals, r, h, TRUE, x) = path(x) /\ RowIn(vals[x], r, h, TRUE) = row(x)
    BY DEF PathIn, RowIn
  <1> HIDE DEF row, S, H
  <1>4. \A x \in S : Joined(vals, x) =>
          Joins(part(x), x, row(x - 1), row(x)) /\ path(x) = Way(row(x - 1), row(x))
    <2> SUFFICES ASSUME NEW x \in S, Joined(vals, x)
                 PROVE  Joins(part(x), x, row(x - 1), row(x)) /\ path(x) = Way(row(x - 1), row(x))
      OBVIOUS
    <2>1. x \in Int /\ row(x - 1) \in Int /\ row(x) \in Int /\ Before(vals, x) = x - 1
      BY <1>2
    <2> QED BY <2>1, LineJoins
  <1>5. \A x \in S : ~Joined(vals, x) => part(x) = {<<x, row(x)>>} /\ path(x) = {row(x)}
    <2> SUFFICES ASSUME NEW x \in S, ~Joined(vals, x)
                 PROVE  path(x) = {row(x)}
      OBVIOUS
    <2>1. row(x) \in Int /\ Before(vals, x) = x
      BY <1>2
    <2> QED BY <2>1, WayIs
  <1> HIDE DEF part, path
  <1>6. \A x \in S : path(x) \subseteq H
    <2> SUFFICES ASSUME NEW x \in S
                 PROVE  path(x) \subseteq H
      OBVIOUS
    <2>1. CASE Joined(vals, x)
      <3>1. row(x - 1) \in H /\ row(x) \in H /\ path(x) = Way(row(x - 1), row(x))
        BY <1>2, <1>4, <2>1
      <3> QED BY <3>1, WayIs DEF H
    <2> QED BY <1>2, <1>5, <2>1
  \* Where a mark comes from.
  <1>7. \A x \in S : \A m \in part(x) :
          /\ m = <<m[1], m[2]>> /\ m[2] \in path(x)
          /\ m[1] = x \/ (m[1] = x - 1 /\ Joined(vals, x))
    <2> SUFFICES ASSUME NEW x \in S, NEW m \in part(x)
                 PROVE  /\ m = <<m[1], m[2]>> /\ m[2] \in path(x)
                        /\ m[1] = x \/ (m[1] = x - 1 /\ Joined(vals, x))
      OBVIOUS
    <2>1. CASE Joined(vals, x)
      <3>1. part(x) \subseteq {x - 1, x} \X path(x)
        BY <1>4, <2>1 DEF Joins
      <3>2. m \in {x - 1, x} \X path(x)
        BY <3>1
      <3> QED BY <2>1, <3>2
    <2>2. CASE ~Joined(vals, x)
      BY <1>5, <2>2
    <2> QED BY <2>1, <2>2
  <1>8. \A m \in marks : \E x \in S : m \in part(x)
    BY <1>1
  <1>9. \A x \in S : \A m \in part(x) : m \in marks
    BY <1>1
  <1>10. \A x, y : y \in in(x) <=> \E m \in marks : m[1] = x /\ m[2] = y
    BY DEF ColumnOf
  <1> HIDE DEF marks, in
  <1>11. \A x, y : y \in in(x) => \E z \in S : y \in path(z) /\ (x = z \/ (x = z - 1 /\ Joined(vals, z)))
    <2> SUFFICES ASSUME NEW x, NEW y, y \in in(x)
                 PROVE  \E z \in S : y \in path(z) /\ (x = z \/ (x = z - 1 /\ Joined(vals, z)))
      OBVIOUS
    <2>1. PICK m \in marks : m[1] = x /\ m[2] = y
      BY <1>10
    <2>2. PICK z \in S : m \in part(z)
      BY <1>8
    <2> QED BY <1>7, <2>1, <2>2
  <1>12. \A x, y : <<x, y>> \in marks => y \in in(x)
    <2> SUFFICES ASSUME NEW x, NEW y, <<x, y>> \in marks
                 PROVE  y \in in(x)
      OBVIOUS
    <2>1. <<x, y>>[1] = x /\ <<x, y>>[2] = y
      OBVIOUS
    <2> QED BY <1>10, <2>1
  <1>13. marks \subseteq (1..n) \X H
    <2> SUFFICES ASSUME NEW m \in marks
                 PROVE  m \in (1..n) \X H
      OBVIOUS
    <2>1. PICK x \in S : m \in part(x)
      BY <1>8
    <2>2. m = <<m[1], m[2]>> /\ m[2] \in H /\ m[1] \in 1..n
      BY <1>2, <1>6, <1>7, <2>1
    <2> QED BY <2>2
  <1>14. ASSUME NEW x \in DOMAIN vals \ S
         PROVE  in(x) = {}
    <2> SUFFICES ASSUME NEW y, y \in in(x)
                 PROVE  FALSE
      OBVIOUS
    <2>1. PICK z \in S : x = z \/ (x = z - 1 /\ Joined(vals, z))
      BY <1>11
    <2> QED BY <1>2, <2>1
  <1>15. ASSUME NEW x \in S
         PROVE  /\ row(x) \in in(x)
                /\ Joined(vals, x) => path(x) \subseteq in(x - 1) \union in(x)
    <2>1. CASE Joined(vals, x)
      <3>1. /\ <<x, row(x)>> \in part(x)
            /\ \A y \in path(x) : <<x - 1, y>> \in part(x) \/ <<x, y>> \in part(x)
        BY <1>4, <2>1 DEF Joins
      <3> QED BY <1>9, <1>12, <3>1
    <2>2. CASE ~Joined(vals, x)
      BY <1>5, <1>9, <1>12, <2>2
    <2> QED BY <2>1, <2>2
  <1>16. ASSUME NEW x \in S
         PROVE  in(x) \subseteq path(x) \union (IF x + 1 \in S THEN path(x + 1) ELSE {})
    <2> SUFFICES ASSUME NEW y \in in(x)
                 PROVE  y \in path(x) \/ (x + 1 \in S /\ y \in path(x + 1))
      OBVIOUS
    <2>1. PICK z \in S : y \in path(z) /\ (x = z \/ (x = z - 1 /\ Joined(vals, z)))
      BY <1>11
    <2>2. x = z - 1 => z = x + 1
      BY <1>2
    <2> QED BY <2>1, <2>2
  <1>17. \A x \in S : x + 1 \in S => PathIn(vals, r, h, TRUE, x + 1) = path(x + 1)
    BY <1>3
  <1>18. ColumnsTell(vals, r, h, TRUE, marks)
    BY <1>3, <1>14, <1>15, <1>16, <1>17 DEF ColumnsTell, in, S
  <1> QED BY <1>13, <1>18 DEF H, marks

\* A segment enters its column at row a and leaves it at row b: connectors up and
\* down join the rows between.
LEMMA SegmentIs ==
  ASSUME NEW x \in Int, NEW a \in Int, NEW b \in Int
  PROVE  /\ \A m \in Segment(x, a, b) : m = <<m[1], m[2], m[3]>>
         /\ \A w, y, d : <<w, y, d>> \in Segment(x, a, b) <=>
              \/ w = x - 1 /\ y = a /\ d = "E"
              \/ w = x /\ y = a /\ d = "W"
              \/ w = x /\ y \in Way(a, b) /\ y - 1 \in Way(a, b) /\ d = "N"
              \/ w = x /\ y \in Way(a, b) /\ y + 1 \in Way(a, b) /\ d = "S"
  <1> DEFINE lo == Min({a, b})
             hi == Max({a, b})
             inner == (lo + 1)..(hi - 1)
             toward == IF b < a THEN "N" ELSE "S"
             back == IF b < a THEN "S" ELSE "N"
             seg == Segment(x, a, b)
  <1>1. lo \in Int /\ hi \in Int /\ lo = (IF a <= b THEN a ELSE b) /\ hi = (IF a <= b THEN b ELSE a)
    BY MaxOfTwo, MinOfTwo
  <1>2. Way(a, b) = lo..hi
    BY DEF Way
  <1>3. seg = {<<x - 1, a, "E">>, <<x, a, "W">>}
              \union {<<x, y, d>> : y \in inner, d \in {"N", "S"}}
              \union (IF a = b THEN {} ELSE {<<x, a, toward>>, <<x, b, back>>})
    BY DEF Segment
  <1> HIDE DEF seg, lo, hi
  <1>4. \A m \in seg : m = <<m[1], m[2], m[3]>>
    BY <1>3
  <1>5. \A w, y, d : <<w, y, d>> \in seg <=>
              \/ w = x - 1 /\ y = a /\ d = "E"
              \/ w = x /\ y = a /\ d = "W"
              \/ w = x /\ y \in inner /\ d \in {"N", "S"}
              \/ a # b /\ w = x /\ y = a /\ d = toward
              \/ a # b /\ w = x /\ y = b /\ d = back
    BY <1>3
  <1>6. \A y : /\ (y \in lo..hi /\ y - 1 \in lo..hi) <=>
                    \/ y \in inner
                    \/ a # b /\ y = (IF b < a THEN a ELSE b)
               /\ (y \in lo..hi /\ y + 1 \in lo..hi) <=>
                    \/ y \in inner
                    \/ a # b /\ y = (IF b < a THEN b ELSE a)
    BY <1>1
  <1>7. \A w, y, d : <<w, y, d>> \in seg <=>
              \/ w = x - 1 /\ y = a /\ d = "E"
              \/ w = x /\ y = a /\ d = "W"
              \/ w = x /\ y \in lo..hi /\ y - 1 \in lo..hi /\ d = "N"
              \/ w = x /\ y \in lo..hi /\ y + 1 \in lo..hi /\ d = "S"
    <2> SUFFICES ASSUME NEW w, NEW y, NEW d
                 PROVE  <<w, y, d>> \in seg <=>
                          \/ w = x - 1 /\ y = a /\ d = "E"
                          \/ w = x /\ y = a /\ d = "W"
                          \/ w = x /\ y \in lo..hi /\ y - 1 \in lo..hi /\ d = "N"
                          \/ w = x /\ y \in lo..hi /\ y + 1 \in lo..hi /\ d = "S"
      OBVIOUS
    <2> DEFINE up == y \in lo..hi /\ y - 1 \in lo..hi
               down == y \in lo..hi /\ y + 1 \in lo..hi
               mid == y \in inner
    <2>1. /\ up <=> mid \/ (a # b /\ y = (IF b < a THEN a ELSE b))
          /\ down <=> mid \/ (a # b /\ y = (IF b < a THEN b ELSE a))
      BY <1>6
    <2>2. <<w, y, d>> \in seg <=>
              \/ w = x - 1 /\ y = a /\ d = "E"
              \/ w = x /\ y = a /\ d = "W"
              \/ w = x /\ mid /\ d \in {"N", "S"}
              \/ a # b /\ w = x /\ y = a /\ d = toward
              \/ a # b /\ w = x /\ y = b /\ d = back
      BY <1>5
    <2> HIDE DEF up, down, mid
    <2>3. CASE a = b
      BY <2>1, <2>2, <2>3 DEF up, down
    <2>4. CASE b < a
      <3>1. a # b /\ toward = "N" /\ back = "S"
        BY <2>4
      <3>2. (up <=> mid \/ y = a) /\ (down <=> mid \/ y = b)
        BY <2>1, <2>4, <3>1
      <3> HIDE DEF toward, back
      <3> QED BY <2>2, <3>1, <3>2 DEF up, down
    <2>5. CASE a < b
      <3>1. a # b /\ toward = "S" /\ back = "N"
        BY <2>5
      <3>2. (up <=> mid \/ y = b) /\ (down <=> mid \/ y = a)
        BY <2>1, <2>5, <3>1
      <3> HIDE DEF toward, back
      <3> QED BY <2>2, <3>1, <3>2 DEF up, down
    <2>6. a = b \/ b < a \/ a < b
      OBVIOUS
    <2> QED BY <2>3, <2>4, <2>5, <2>6
  <1> QED BY <1>2, <1>4, <1>7 DEF seg

\* A column of connectors holds its path, and no other row.
ColumnsAre(vals, r, h, marks) ==
  /\ \A x \in DOMAIN vals \ Visible(vals) : ColumnOf(marks, x) = {}
  /\ \A x \in Visible(vals) : ColumnOf(marks, x) = PathIn(vals, r, h, FALSE, x)

\* Connectors meet those of the cells beside them.
ConnectorsMeet(vals, marks) == \A x \in Visible(vals) : \A y \in ColumnOf(marks, x) :
  /\ <<x, y, "N">> \in marks <=> <<x, y - 1, "S">> \in marks
  /\ Joined(vals, x) => (<<x, y, "W">> \in marks <=> <<x - 1, y, "E">> \in marks)

LEMMA ConnectorsTell ==
  ASSUME NEW n \in Nat, NEW vals \in ValuesOf(n), NEW r \in Scale, NEW h \in Nat, h > 0
  PROVE  /\ ColumnsAre(vals, r, h, PlainMarks(vals, r, h))
         /\ ConnectorsMeet(vals, PlainMarks(vals, r, h))
         /\ \A m \in PlainMarks(vals, r, h) : m[1] \in 1..n /\ m[2] \in 0..(h - 1)
  <1> DEFINE S == Visible(vals)
             row(x) == PlainRow(vals[x], r, h)
             path(x) == Way(row(Before(vals, x)), row(x))
             part(x) == IF Joined(vals, x) THEN Segment(x, row(x - 1), row(x))
                        ELSE {<<x, row(x), d>> : d \in {"E", "W"}}
             marks == PlainMarks(vals, r, h)
             in(x) == ColumnOf(marks, x)
             H == 0..(h - 1)
  <1>1. marks = UNION {part(x) : x \in S}
    BY DEF PlainMarks, Visible
  <1>2. /\ \A x \in S : x \in 1..n /\ x \in Int /\ row(x) \in H /\ row(x) \in Int
        /\ \A x \in S : /\ Joined(vals, x) => Before(vals, x) = x - 1 /\ x - 1 \in 1..n /\ x - 1 \in S
                        /\ ~Joined(vals, x) => Before(vals, x) = x
                        /\ x + 1 \in S => Joined(vals, x + 1)
    <2>1. \A x \in S : vals[x] \in Int
      BY ShownAre
    <2>2. \A x \in S : row(x) \in H
      BY <2>1, RowInBounds DEF RowIn
    <2>3. \A x \in S : Joined(vals, x) => x - 1 \in S
      BY ShownAre
    <2> QED BY <2>2, <2>3, ShownAre
  <1>3. \A x \in S : PathIn(vals, r, h, FALSE, x) = path(x)
    BY DEF PathIn, RowIn
  <1> HIDE DEF row, S, H
  <1>4. ASSUME NEW x \in S, Joined(vals, x)
        PROVE  /\ path(x) = Way(row(x - 1), row(x)) /\ x - 1 \in S
               /\ \A m \in part(x) : m = <<m[1], m[2], m[3]>>
               /\ \A w, y, d : <<w, y, d>> \in part(x) <=>
                    \/ w = x - 1 /\ y = row(x - 1) /\ d = "E"
                    \/ w = x /\ y = row(x - 1) /\ d = "W"
                    \/ w = x /\ y \in path(x) /\ y - 1 \in path(x) /\ d = "N"
                    \/ w = x /\ y \in path(x) /\ y + 1 \in path(x) /\ d = "S"
    <2>1. x \in Int /\ row(x - 1) \in Int /\ row(x) \in Int /\ Before(vals, x) = x - 1 /\ x - 1 \in S
      BY <1>2, <1>4
    <2>2. path(x) = Way(row(x - 1), row(x)) /\ part(x) = Segment(x, row(x - 1), row(x))
      BY <1>4, <2>1
    <2> HIDE DEF path, part
    <2> QED BY <2>1, <2>2, SegmentIs
  <1>5. ASSUME NEW x \in S, ~Joined(vals, x)
        PROVE  /\ path(x) = {row(x)}
               /\ \A m \in part(x) : m = <<m[1], m[2], m[3]>>
               /\ \A w, y, d : <<w, y, d>> \in part(x) <=> w = x /\ y = row(x) /\ d \in {"E", "W"}
    <2>1. row(x) \in Int /\ Before(vals, x) = x
      BY <1>2, <1>5
    <2>2. path(x) = {row(x)}
      BY <2>1, WayIs
    <2>3. part(x) = {<<x, row(x), d>> : d \in {"E", "W"}}
      BY <1>5
    <2> HIDE DEF part
    <2> QED BY <2>2, <2>3
  <1>6. \A x \in S : /\ path(x) \subseteq H /\ path(x) \subseteq Int /\ row(x) \in path(x)
                     /\ Joined(vals, x) => row(x - 1) \in path(x)
                          /\ \A y \in path(x) : y = row(x - 1) \/ y - 1 \in path(x) \/ y + 1 \in path(x)
    <2> SUFFICES ASSUME NEW x \in S
                 PROVE  /\ path(x) \subseteq H /\ path(x) \subseteq Int /\ row(x) \in path(x)
                        /\ Joined(vals, x) => row(x - 1) \in path(x)
                             /\ \A y \in path(x) : y = row(x - 1) \/ y - 1 \in path(x) \/ y + 1 \in path(x)
      OBVIOUS
    <2>1. CASE Joined(vals, x)
      <3>1. path(x) = Way(row(x - 1), row(x)) /\ x - 1 \in S
        BY <1>4, <2>1
      <3> HIDE DEF path
      <3>2. row(x - 1) \in H /\ row(x) \in H /\ row(x - 1) \in Int /\ row(x) \in Int
        BY <1>2, <3>1
      <3>3. path(x) = IF row(x - 1) <= row(x) THEN row(x - 1)..row(x) ELSE row(x)..row(x - 1)
        BY <3>1, <3>2, WayIs
      <3> QED BY <3>2, <3>3 DEF H
    <2>2. CASE ~Joined(vals, x)
      <3>1. path(x) = {row(x)}
        BY <1>5, <2>2
      <3> QED BY <1>2, <2>2, <3>1
    <2> QED BY <2>1, <2>2
  <1> HIDE DEF part, path
  <1>7. \A m \in marks : \E x \in S : m \in part(x)
    BY <1>1
  <1>8. \A x \in S : \A m \in part(x) : m \in marks
    BY <1>1
  <1>9. \A m \in marks : m = <<m[1], m[2], m[3]>>
    BY <1>4, <1>5, <1>7
  <1>10. \A x, y : y \in in(x) <=> \E d : <<x, y, d>> \in marks
    <2>1. \A x, y : y \in in(x) <=> \E m \in marks : m[1] = x /\ m[2] = y
      BY DEF ColumnOf
    <2>2. \A x, y, d : <<x, y, d>>[1] = x /\ <<x, y, d>>[2] = y
      OBVIOUS
    <2> HIDE DEF marks, in
    <2>3. \A x, y : y \in in(x) => \E d : <<x, y, d>> \in marks
      <3> SUFFICES ASSUME NEW x, NEW y, y \in in(x)
                   PROVE  \E d : <<x, y, d>> \in marks
        OBVIOUS
      <3>1. PICK m \in marks : m[1] = x /\ m[2] = y
        BY <2>1
      <3>2. m = <<x, y, m[3]>>
        BY <1>9, <3>1
      <3> QED BY <3>2
    <2>4. \A x, y, d : <<x, y, d>> \in marks => y \in in(x)
      BY <2>1, <2>2
    <2> QED BY <2>3, <2>4
  <1> HIDE DEF marks, in
  \* Where a mark of a column comes from.
  <1>11. ASSUME NEW x \in S, NEW y
         PROVE  /\ <<x, y, "N">> \in marks <=> y \in path(x) /\ y - 1 \in path(x)
                /\ <<x, y, "S">> \in marks <=> y \in path(x) /\ y + 1 \in path(x)
                /\ <<x, y, "W">> \in marks <=> y = row(Before(vals, x))
                /\ <<x, y, "E">> \in marks => y = row(x)
                /\ Joined(vals, x) => (<<x - 1, y, "E">> \in marks <=> y = row(x - 1))
    <2>1. \A z \in S : x = z - 1 <=> z = x + 1
      BY <1>2
    <2>2. \A z \in S : x - 1 = z - 1 <=> z = x
      BY <1>2
    <2>3. \A w, d : <<w, y, d>> \in marks <=> \E z \in S : <<w, y, d>> \in part(z)
      BY <1>7, <1>8
    <2>4. x \in Int /\ x - 1 # x /\ x + 1 # x /\ (x + 1) - 1 = x
      BY <1>2
    <2>5. <<x, y, "N">> \in marks <=> y \in path(x) /\ y - 1 \in path(x)
      <3>1. \A z \in S : <<x, y, "N">> \in part(z) => z = x
        BY <1>4, <1>5
      <3>2. <<x, y, "N">> \in part(x) <=> y \in path(x) /\ y - 1 \in path(x)
        <4>1. CASE Joined(vals, x)
          BY <1>4, <4>1
        <4>2. CASE ~Joined(vals, x)
          <5>1. path(x) = {row(x)} /\ row(x) \in Int
            BY <1>2, <1>5, <4>2
          <5> QED BY <1>5, <4>2, <5>1
        <4> QED BY <4>1, <4>2
      <3> QED BY <2>3, <3>1, <3>2
    <2>6. <<x, y, "S">> \in marks <=> y \in path(x) /\ y + 1 \in path(x)
      <3>1. \A z \in S : <<x, y, "S">> \in part(z) => z = x
        BY <1>4, <1>5
      <3>2. <<x, y, "S">> \in part(x) <=> y \in path(x) /\ y + 1 \in path(x)
        <4>1. CASE Joined(vals, x)
          BY <1>4, <4>1
        <4>2. CASE ~Joined(vals, x)
          <5>1. path(x) = {row(x)} /\ row(x) \in Int
            BY <1>2, <1>5, <4>2
          <5> QED BY <1>5, <4>2, <5>1
        <4> QED BY <4>1, <4>2
      <3> QED BY <2>3, <3>1, <3>2
    <2>7. <<x, y, "W">> \in marks <=> y = row(Before(vals, x))
      <3>1. \A z \in S : <<x, y, "W">> \in part(z) => z = x
        BY <1>4, <1>5
      <3>2. <<x, y, "W">> \in part(x) <=> y = row(Before(vals, x))
        BY <1>2, <1>4, <1>5
      <3> QED BY <2>3, <3>1, <3>2
    <2>8. <<x, y, "E">> \in marks => y = row(x)
      <3>1. \A z \in S : <<x, y, "E">> \in part(z) => y = row(x)
        BY <1>4, <1>5, <2>1, <2>4
      <3> QED BY <2>3, <3>1
    <2>9. Joined(vals, x) => (<<x - 1, y, "E">> \in marks <=> y = row(x - 1))
      <3> SUFFICES ASSUME Joined(vals, x)
                   PROVE  <<x - 1, y, "E">> \in marks <=> y = row(x - 1)
        OBVIOUS
      <3>1. \A z \in S : <<x - 1, y, "E">> \in part(z) => y = row(x - 1)
        BY <1>4, <1>5, <2>2
      <3>2. y = row(x - 1) => <<x - 1, y, "E">> \in part(x)
        BY <1>4
      <3> QED BY <2>3, <3>1, <3>2
    <2> QED BY <2>5, <2>6, <2>7, <2>8, <2>9
  <1>12. ASSUME NEW w, NEW y, NEW d, <<w, y, d>> \in marks
         PROVE  w \in S /\ d \in {"N", "S", "E", "W"}
    <2>1. PICK z \in S : <<w, y, d>> \in part(z)
      BY <1>7, <1>12
    <2> QED BY <1>4, <1>5, <2>1
  <1>13. \A x \in S : in(x) = path(x)
    <2> SUFFICES ASSUME NEW x \in S, NEW y
                 PROVE  y \in in(x) <=> y \in path(x)
      OBVIOUS
    <2>1. y \in in(x) => y \in path(x)
      <3> SUFFICES ASSUME y \in in(x)
                   PROVE  y \in path(x)
        OBVIOUS
      <3>1. PICK d : <<x, y, d>> \in marks
        BY <1>10
      <3>2. d \in {"N", "S", "E", "W"}
        BY <1>12, <3>1
      <3>3. d = "N" \/ d = "S" => y \in path(x)
        BY <1>11, <3>1
      <3>4. d = "E" \/ d = "W" => y = row(x) \/ y = row(Before(vals, x))
        BY <1>11, <3>1
      <3>5. row(Before(vals, x)) \in path(x) /\ row(x) \in path(x)
        BY <1>2, <1>6
      <3> QED BY <3>2, <3>3, <3>4, <3>5
    <2>2. y \in path(x) => y \in in(x)
      <3> SUFFICES ASSUME y \in path(x)
                   PROVE  \E d : <<x, y, d>> \in marks
        BY <1>10
      <3>1. y = row(Before(vals, x)) \/ y - 1 \in path(x) \/ y + 1 \in path(x)
        BY <1>2, <1>5, <1>6
      <3> QED BY <1>11, <3>1
    <2> QED BY <2>1, <2>2
  <1>14. \A x \in DOMAIN vals \ S : in(x) = {}
    BY <1>10, <1>12
  <1>15. ASSUME NEW x \in S, NEW y \in in(x)
         PROVE  /\ <<x, y, "N">> \in marks <=> <<x, y - 1, "S">> \in marks
                /\ Joined(vals, x) => (<<x, y, "W">> \in marks <=> <<x - 1, y, "E">> \in marks)
    <2>1. y \in Int /\ (y - 1) + 1 = y
      BY <1>6, <1>13
    <2>2. /\ <<x, y, "N">> \in marks <=> y \in path(x) /\ y - 1 \in path(x)
          /\ <<x, y - 1, "S">> \in marks <=> y - 1 \in path(x) /\ (y - 1) + 1 \in path(x)
      BY <1>11
    <2>3. Joined(vals, x) => (<<x, y, "W">> \in marks <=> <<x - 1, y, "E">> \in marks)
      BY <1>2, <1>11
    <2> QED BY <2>1, <2>2, <2>3
  <1>16. \A m \in marks : m[1] \in 1..n /\ m[2] \in H
    <2> SUFFICES ASSUME NEW m \in marks
                 PROVE  m[1] \in 1..n /\ m[2] \in H
      OBVIOUS
    <2>1. m = <<m[1], m[2], m[3]>>
      BY <1>9
    <2>2. m[1] \in S
      BY <1>12, <2>1
    <2>3. m[2] \in in(m[1])
      BY <1>10, <2>1
    <2> QED BY <1>2, <1>6, <1>13, <2>2, <2>3
  <1>17. ConnectorsMeet(vals, marks)
    BY <1>15 DEF ConnectorsMeet, in, S
  <1>18. ColumnsAre(vals, r, h, marks)
    BY <1>3, <1>13, <1>14 DEF ColumnsAre, in, S
  <1> QED BY <1>16, <1>17, <1>18 DEF marks, H

\* The ends of a plain grid are for values near the ends of the range.
LEMMA EndsAreNear ==
  ASSUME NEW v \in Int, NEW r \in Scale, NEW h \in Nat, h >= 3
  PROVE  /\ PlainRow(v, r, h) = h - 1 => NearLow(v, r)
         /\ PlainRow(v, r, h) = 0 => NearHigh(v, r)
  <1> DEFINE y == IF h <= 1 THEN 0 ELSE RowOf(v, r, h - 1)
  <1>1. /\ y \in 0..(h - 1)
        /\ PlainRow(v, r, h) = IF ~NearHigh(v, r) /\ y = 0 THEN 1
                               ELSE IF ~NearLow(v, r) /\ y = h - 1 THEN h - 2 ELSE y
    BY PlainRowIs
  <1> HIDE DEF y
  <1> QED BY <1>1

\* What the property LineTells says of one series.
Told(vals, r, h, d, marks) ==
  LET Row(x) == IF d THEN DotRow(vals[x], r, h) ELSE PlainRow(vals[x], r, h)
      First(x) == IF Joined(vals, x) THEN Row(x - 1) ELSE Row(x)
      Rows(x) == Min({First(x), Row(x)})..Max({First(x), Row(x)})
      In(x) == {m[2] : m \in {k \in marks : k[1] = x}}
      Here == {x \in DOMAIN vals : vals[x] # Gap}
      At(x, y, c) == <<x, y, c>> \in marks
  IN
  /\ \A x \in DOMAIN vals \ Here : In(x) = {}
  /\ \A x, z \in Here : vals[x] <= vals[z] => Row(x) >= Row(z)
  /\ d => \A x \in Here :
       /\ Row(x) \in In(x)
       /\ Joined(vals, x) => Rows(x) \subseteq In(x - 1) \union In(x)
       /\ In(x) \subseteq Rows(x) \union (IF x + 1 \in Here THEN Rows(x + 1) ELSE {})
  /\ ~d => \A x \in Here :
       /\ In(x) = Rows(x)
       /\ \A y \in In(x) :
            /\ At(x, y, "N") <=> At(x, y - 1, "S")
            /\ Joined(vals, x) => (At(x, y, "W") <=> At(x - 1, y, "E"))
       /\ h >= 3 /\ Row(x) = h - 1 => 200 * (vals[x] - r[1]) <= r[2] - r[1]
       /\ h >= 3 /\ Row(x) = 0 => 200 * (r[2] - vals[x]) <= r[2] - r[1]

MarksOf(vals, r, h, d) == IF d THEN DotMarks(vals, r, h) ELSE PlainMarks(vals, r, h)

LEMMA SeriesTold ==
  ASSUME NEW n \in Nat, NEW vals \in ValuesOf(n), NEW r \in Scale, NEW h \in Nat, h > 0,
         NEW d \in BOOLEAN
  PROVE  Told(vals, r, h, d, MarksOf(vals, r, h, d))
  <1> DEFINE marks == MarksOf(vals, r, h, d)
             Row(x) == IF d THEN DotRow(vals[x], r, h) ELSE PlainRow(vals[x], r, h)
             First(x) == IF Joined(vals, x) THEN Row(x - 1) ELSE Row(x)
             Rows(x) == Min({First(x), Row(x)})..Max({First(x), Row(x)})
             In(x) == {m[2] : m \in {k \in marks : k[1] = x}}
             Here == {x \in DOMAIN vals : vals[x] # Gap}
             At(x, y, c) == <<x, y, c>> \in marks
  <1>1. Here = Visible(vals)
    BY DEF Visible
  <1>2. \A x : In(x) = ColumnOf(marks, x) /\ Row(x) = RowIn(vals[x], r, h, d)
    BY DEF ColumnOf, RowIn
  <1>3. \A x : First(x) = RowIn(vals[Before(vals, x)], r, h, d)
    BY DEF Before, RowIn
  <1>4. \A x : Rows(x) = PathIn(vals, r, h, d, x)
    <2> HIDE DEF First, Row
    <2> QED BY <1>2, <1>3 DEF PathIn, Way
  <1>5. \A x \in Here : vals[x] \in Int
    BY <1>1, ShownAre
  <1> HIDE DEF Row, First, Rows, In, Here, marks
  <1>6. \A x \in DOMAIN vals \ Here : In(x) = {}
    <2>1. CASE d
      <3>1. marks = DotMarks(vals, r, h)
        BY <2>1 DEF marks, MarksOf
      <3> QED BY <1>1, <1>2, <3>1, DotsTell DEF ColumnsTell
    <2>2. CASE ~d
      <3>1. marks = PlainMarks(vals, r, h)
        BY <2>2 DEF marks, MarksOf
      <3>2. ColumnsAre(vals, r, h, marks)
        BY <3>1, ConnectorsTell
      <3> QED BY <1>1, <1>2, <3>2 DEF ColumnsAre
    <2> QED BY <2>1, <2>2
  <1>7. \A x, z \in Here : vals[x] <= vals[z] => Row(x) >= Row(z)
    BY <1>2, <1>5, RowInFalls
  <1>8. ASSUME d, NEW x \in Here
        PROVE  /\ Row(x) \in In(x)
               /\ Joined(vals, x) => Rows(x) \subseteq In(x - 1) \union In(x)
               /\ In(x) \subseteq Rows(x) \union (IF x + 1 \in Here THEN Rows(x + 1) ELSE {})
    <2>1. marks = DotMarks(vals, r, h) /\ d = TRUE
      BY <1>8 DEF marks, MarksOf
    <2>2. ColumnsTell(vals, r, h, d, marks)
      BY <2>1, DotsTell
    <2> QED BY <1>1, <1>2, <1>4, <2>2 DEF ColumnsTell
  <1>9. ASSUME ~d, NEW x \in Here
        PROVE  /\ In(x) = Rows(x)
               /\ \A y \in In(x) :
                    /\ At(x, y, "N") <=> At(x, y - 1, "S")
                    /\ Joined(vals, x) => (At(x, y, "W") <=> At(x - 1, y, "E"))
               /\ h >= 3 /\ Row(x) = h - 1 => 200 * (vals[x] - r[1]) <= r[2] - r[1]
               /\ h >= 3 /\ Row(x) = 0 => 200 * (r[2] - vals[x]) <= r[2] - r[1]
    <2>1. marks = PlainMarks(vals, r, h)
      BY <1>9 DEF marks, MarksOf
    <2>2. ColumnOf(marks, x) = PathIn(vals, r, h, d, x) /\ ConnectorsMeet(vals, marks)
      <3>1. ColumnOf(marks, x) = PathIn(vals, r, h, FALSE, x)
        <4>1. ColumnsAre(vals, r, h, marks)
          BY <2>1, ConnectorsTell
        <4> QED BY <1>1, <4>1 DEF ColumnsAre
      <3>2. PathIn(vals, r, h, d, x) = PathIn(vals, r, h, FALSE, x)
        BY <1>9 DEF PathIn, RowIn
      <3>3. ConnectorsMeet(vals, marks)
        BY <2>1, ConnectorsTell
      <3> QED BY <3>1, <3>2, <3>3
    <2>3. Row(x) = PlainRow(vals[x], r, h)
      BY <1>9 DEF Row
    <2>4. /\ h >= 3 /\ Row(x) = h - 1 => 200 * (vals[x] - r[1]) <= r[2] - r[1]
          /\ h >= 3 /\ Row(x) = 0 => 200 * (r[2] - vals[x]) <= r[2] - r[1]
      BY <1>5, <2>3, EndsAreNear DEF NearLow, NearHigh
    <2> QED BY <1>1, <1>2, <1>4, <2>2, <2>4 DEF ConnectorsMeet
  <1>10. Told(vals, r, h, d, marks) <=>
    /\ \A x \in DOMAIN vals \ Here : In(x) = {}
    /\ \A x, z \in Here : vals[x] <= vals[z] => Row(x) >= Row(z)
    /\ d => \A x \in Here :
         /\ Row(x) \in In(x)
         /\ Joined(vals, x) => Rows(x) \subseteq In(x - 1) \union In(x)
         /\ In(x) \subseteq Rows(x) \union (IF x + 1 \in Here THEN Rows(x + 1) ELSE {})
    /\ ~d => \A x \in Here :
         /\ In(x) = Rows(x)
         /\ \A y \in In(x) :
              /\ At(x, y, "N") <=> At(x, y - 1, "S")
              /\ Joined(vals, x) => (At(x, y, "W") <=> At(x - 1, y, "E"))
         /\ h >= 3 /\ Row(x) = h - 1 => 200 * (vals[x] - r[1]) <= r[2] - r[1]
         /\ h >= 3 /\ Row(x) = 0 => 200 * (r[2] - vals[x]) <= r[2] - r[1]
    BY Zenon DEF Told, Row, First, Rows, In, Here
  <1> QED BY <1>6, <1>7, <1>8, <1>9, <1>10 DEF marks

-----------------------------------------------------------------------------
(***************************************************************************)
(* From samples to values, and the range that holds them.                  *)
(***************************************************************************)
LEMMA GreatestIs ==
  ASSUME NEW S \in SUBSET Int, IsFiniteSet(S), S # {}
  PROVE  Max(S) \in S /\ Max(S) \in Int /\ \A y \in S : y <= Max(S)
  <1>1. PICK x \in S : \A y \in S : y <= x
    BY HasGreatest
  <1>2. x \in S /\ \A y \in S : x >= y
    BY <1>1
  <1>3. Max(S) \in S /\ \A y \in S : Max(S) >= y
    BY <1>2 DEF Max
  <1> QED BY <1>3

LEMMA LeastIs ==
  ASSUME NEW S \in SUBSET Nat, S # {}
  PROVE  Min(S) \in S /\ Min(S) \in Nat /\ \A y \in S : Min(S) <= y
  <1>1. PICK x \in S : \A y \in S : x <= y
    BY HasLeast
  <1>2. Min(S) \in S /\ \A y \in S : Min(S) <= y
    BY <1>1 DEF Min
  <1> QED BY <1>2

LEMMA ImageIsFinite ==
  ASSUME NEW S, IsFiniteSet(S), NEW f, NEW T, T = {f[x] : x \in S}
  PROVE  IsFiniteSet(T)
  <1> DEFINE g == [x \in S |-> f[x]]
  <1>1. g \in Surjection(S, T)
    BY DEF Surjection
  <1> HIDE DEF g
  <1> QED BY <1>1, FS_Surjection

Cells == [w : Nat, h : Nat]
Samples == Seq([t : Int, v : Value])

LEMMA SampleIs ==
  ASSUME NEW s \in Samples, NEW i \in DOMAIN s
  PROVE  i \in Int /\ s[i].t \in Int /\ s[i].v \in Value /\ s[i].v \in Int \union {Gap}
  <1> DEFINE Sample == [t : Int, v : Value]
  <1>1. s \in Seq(Sample)
    BY DEF Samples
  <1> HIDE DEF Sample
  <1>2. i \in 1..Len(s) /\ Len(s) \in Nat
    BY <1>1
  <1>3. s[i] \in Sample
    BY <1>1, <1>2, ElementOfSeq
  <1>4. s[i].t \in Int /\ s[i].v \in Value
    BY <1>3 DEF Sample
  <1>5. Value \subseteq Int \union {Gap}
    BY ChartAssumption
  <1>6. i \in Int
    BY <1>2
  <1>7. s[i].v \in Int \union {Gap}
    BY <1>4, <1>5
  <1> QED BY <1>4, <1>6, <1>7

\* The latest of some samples.
LEMMA LatestIs ==
  ASSUME NEW s \in Samples, NEW I \in SUBSET DOMAIN s, I # {}
  PROVE  Max(I) \in I /\ \A i \in I : i <= Max(I)
  <1>1. IsFiniteSet(DOMAIN s) /\ DOMAIN s \subseteq Int
    <2>1. DOMAIN s = 1..Len(s) /\ Len(s) \in Nat
      BY DEF Samples
    <2> QED BY <2>1, FS_Interval
  <1>2. IsFiniteSet(I) /\ I \subseteq Int
    BY <1>1, FS_Subset
  <1> QED BY <1>2, GreatestIs

\* A column shows nothing, or something of the window.
LEMMA ResampleIs ==
  ASSUME NEW s \in Samples, NEW now \in Int, NEW cols \in Nat \ {0}, canvas \in Cells
  PROVE  /\ Resample(s, now, cols) \in ValuesOf(cols)
         /\ \A col \in 1..cols : LET v == Resample(s, now, cols)[col] IN
              v # Gap => v = 0 \/ v \in InWindow(s, now)
  <1> DEFINE width == canvas.w * ChartResolution
             start == WindowStart(now)
             end(col) == start + (canvas.w * ChartResolution * col) \div cols
             seen(col) == {i \in DOMAIN s : s[i].t <= end(col)}
             shown(col) == IF seen(col) = {} THEN 0 ELSE s[Max(seen(col))].v
             finite == {i \in DOMAIN s : s[i].v # Gap /\ s[i].t <= now}
             before == {i \in finite : s[i].t < start}
  <1>1. Resample(s, now, cols) = [col \in 1..cols |-> shown(col)]
    BY DEF Resample
  <1>2. InWindow(s, now) = {s[i].v : i \in (finite \ before) \union (IF before = {} THEN {} ELSE {Max(before)})}
    BY DEF InWindow
  <1>3. width \in Nat /\ start = now - width /\ start \in Int
    BY ChartAssumption DEF Cells, WindowStart
  <1>4. \A i \in DOMAIN s : s[i].t \in Int /\ s[i].v \in Int \union {Gap}
    BY SampleIs
  <1>5. ASSUME NEW col \in 1..cols
        PROVE  end(col) \in Int /\ start <= end(col) /\ end(col) <= now
    <2>1. canvas.w * ChartResolution * col = width * col
      BY ChartAssumption DEF Cells
    <2> HIDE DEF width
    <2>2. width * col \in Nat /\ width * cols \in Nat /\ width * col <= width * cols
      BY <1>3
    <2>3. cols * (width + 1) = width * cols + cols
      BY <1>3
    <2>4. width * col < cols * (width + 1)
      BY <2>2, <2>3
    <2>5. (width * col) \div cols \in 0..width
      BY <1>3, <2>2, <2>4, QuotientBounds
    <2>6. end(col) = start + (width * col) \div cols
      BY <2>1
    <2> HIDE DEF end, start
    <2> QED BY <1>3, <2>5, <2>6
  <1> HIDE DEF end, start, width
  <1>6. ASSUME NEW col \in 1..cols, seen(col) # {}
        PROVE  /\ Max(seen(col)) \in seen(col)
               /\ \A i \in seen(col) : i <= Max(seen(col))
    BY <1>6, LatestIs
  <1>7. \A col \in 1..cols : shown(col) \in Int \union {Gap}
    BY <1>4, <1>6
  <1>8. ASSUME NEW col \in 1..cols, shown(col) # Gap, seen(col) # {}
        PROVE  shown(col) \in InWindow(s, now)
    <2> DEFINE i == Max(seen(col))
    <2>1. /\ i \in DOMAIN s /\ s[i].t <= end(col) /\ s[i].t \in Int
          /\ shown(col) = s[i].v /\ s[i].v # Gap /\ s[i].t <= now
      BY <1>4, <1>5, <1>6, <1>8
    <2>2. i \in finite
      BY <2>1
    <2>3. CASE s[i].t >= start
      <3>1. i \in finite \ before
        BY <1>3, <2>1, <2>2, <2>3
      <3> HIDE DEF i, finite, before, seen, shown
      <3> QED BY <1>2, <2>1, <3>1
    <2>4. CASE s[i].t < start
      <3>1. i \in before
        BY <2>2, <2>4
      <3>2. \A j \in before : j \in seen(col)
        BY <1>3, <1>4, <1>5
      <3>3. \A j \in before : j <= i
        BY <1>6, <1>8, <3>2
      <3>4. Max(before) \in before /\ \A j \in before : j <= Max(before)
        BY <3>1, LatestIs
      <3>5. i \in Int /\ Max(before) \in Int
        <4>1. DOMAIN s \subseteq Int
          BY SampleIs
        <4> QED BY <2>1, <3>4, <4>1
      <3>6. Max(before) = i
        <4> HIDE DEF i, before
        <4>1. Max(before) <= i /\ i <= Max(before)
          BY <3>1, <3>3, <3>4
        <4> QED BY <3>5, <4>1
      <3> HIDE DEF i, finite, before, seen, shown
      <3> QED BY <1>2, <2>1, <3>1, <3>6
    <2> QED BY <1>3, <2>1, <2>3, <2>4
  <1>9. \A col \in 1..cols : seen(col) = {} => shown(col) = 0
    OBVIOUS
  <1> HIDE DEF shown, seen, finite, before
  <1>10. Resample(s, now, cols) \in ValuesOf(cols)
    BY <1>1, <1>7 DEF ValuesOf
  <1>11. \A col \in 1..cols : Resample(s, now, cols)[col] = shown(col)
    BY <1>1
  <1> QED BY <1>8, <1>9, <1>10, <1>11

\* What is in the window is a finite set of numbers that were pushed.
LEMMA InWindowIs ==
  ASSUME NEW s \in Samples, NEW now \in Int
  PROVE  IsFiniteSet(InWindow(s, now)) /\ InWindow(s, now) \subseteq Value \ {Gap}
  <1> DEFINE finite == {i \in DOMAIN s : s[i].v # Gap /\ s[i].t <= now}
             before == {i \in finite : s[i].t < WindowStart(now)}
             I == (finite \ before) \union (IF before = {} THEN {} ELSE {Max(before)})
  <1>1. InWindow(s, now) = {s[i].v : i \in I}
    BY DEF InWindow
  <1>2. I \subseteq finite
    <2>1. before # {} => Max(before) \in before
      BY LatestIs
    <2> QED BY <2>1
  <1>3. \A i \in finite : s[i].v \in Value \ {Gap}
    BY SampleIs
  <1>4. IsFiniteSet(DOMAIN s)
    <2>1. DOMAIN s = 1..Len(s) /\ Len(s) \in Nat
      BY DEF Samples
    <2> QED BY <2>1, FS_Interval
  <1>5. IsFiniteSet(I)
    BY <1>2, <1>4, FS_Subset
  <1> HIDE DEF I, finite
  <1>6. IsFiniteSet({s[i].v : i \in I})
    <2> DEFINE f == [i \in I |-> s[i].v]
               image == {s[i].v : i \in I}
    <2>1. image = {f[i] : i \in I}
      OBVIOUS
    <2> HIDE DEF f, image
    <2>2. IsFiniteSet(image)
      BY <1>5, <2>1, ImageIsFinite
    <2> QED BY <2>2 DEF image
  <1> QED BY <1>1, <1>2, <1>3, <1>6

\* The ranges a chart may be drawn in: all begin where the range of New does.
Ranges == {r \in Nat \X Nat : r[1] = YRange[1] /\ r[1] < r[2]}

LEMMA RangesAre ==
  /\ YRange \in Ranges /\ Ranges \subseteq Scale
  /\ YRange[1] \in Nat
  BY ChartAssumption DEF Ranges, Scale

\* A nice number is there for each span there may be.
LEMMA CeilingIs ==
  ASSUME NEW v \in Value \ {Gap}, v > YRange[1]
  PROVE  LET n == NiceCeiling(11 * (v - YRange[1]))
         IN n \in Nat /\ v <= YRange[1] + n /\ 0 < n
  <1> DEFINE tenths == 11 * (v - YRange[1])
             enough == {n \in Nice : tenths <= 10 * n}
  <1>1. YRange[1] \in Nat /\ v \in Int
    BY ChartAssumption, RangesAre
  <1>2. Nice \subseteq Nat
    BY ChartAssumption DEF Nice
  <1>3. \E n \in Nice : tenths <= 10 * n
    BY ChartAssumption
  <1>4. enough \in SUBSET Nat /\ enough # {}
    BY <1>2, <1>3
  <1>5. NiceCeiling(tenths) = Min(enough)
    BY DEF NiceCeiling
  <1>6. Min(enough) \in enough /\ Min(enough) \in Nat
    BY <1>4, LeastIs
  <1>7. tenths <= 10 * Min(enough)
    BY <1>6
  <1> DEFINE n == Min(enough)
  <1> HIDE DEF n
  <1>8. n \in Nat /\ 11 * (v - YRange[1]) <= 10 * n
    BY <1>6, <1>7 DEF n
  <1>9. v - YRange[1] <= n /\ 0 < n
    BY <1>1, <1>8
  <1> QED BY <1>1, <1>5, <1>8, <1>9 DEF n

\* The range of a draw holds all there is to see, when it is automatic.
LEMMA RangeHolds ==
  ASSUME NEW names \in Seq(Name), NEW now \in Int, yRange \in Ranges,
         \A n \in DOMAIN series : series[n] \in Samples
  PROVE  /\ RangeForDraw(names, now) \in Ranges
         /\ autoScale => \A n \in ToSet(names) \cap DOMAIN series :
              \A v \in InWindow(series[n], now) : v <= RangeForDraw(names, now)[2]
  <1> DEFINE N == ToSet(names) \cap DOMAIN series
             sets == {InWindow(series[n], now) : n \in N}
             values == UNION sets
             low == YRange[1]
             top == Max(values \union {low})
             span == top - low
             r == RangeForDraw(names, now)
  <1>1. r = IF ~autoScale THEN YRange ELSE IF span <= 0 THEN yRange
            ELSE <<low, low + NiceCeiling(11 * span)>>
    BY DEF RangeForDraw
  <1>2. \A n \in N : /\ IsFiniteSet(InWindow(series[n], now))
                     /\ InWindow(series[n], now) \subseteq Value \ {Gap}
    BY InWindowIs
  <1>3. IsFiniteSet(N)
    <2>1. DOMAIN names = 1..Len(names) /\ Len(names) \in Nat
      OBVIOUS
    <2>2. IsFiniteSet(DOMAIN names)
      BY <2>1, FS_Interval
    <2>3. IsFiniteSet(ToSet(names))
      BY <2>2, ImageIsFinite DEF ToSet
    <2> QED BY <2>3, FS_Subset
  <1>4. IsFiniteSet(sets)
    <2> DEFINE f == [n \in N |-> InWindow(series[n], now)]
    <2>1. sets = {f[n] : n \in N}
      OBVIOUS
    <2> HIDE DEF f, N, sets
    <2> QED BY <1>3, <2>1, ImageIsFinite
  <1>5. IsFiniteSet(values) /\ values \subseteq Value \ {Gap}
    <2>1. \A T \in sets : IsFiniteSet(T) /\ T \subseteq Value \ {Gap}
      BY <1>2
    <2> HIDE DEF sets
    <2> QED BY <1>4, <2>1, FS_UNION
  <1>6. \A n \in N : InWindow(series[n], now) \subseteq values
    OBVIOUS
  <1> HIDE DEF values
  <1>7. low \in Nat /\ Value \ {Gap} \subseteq Int
    BY ChartAssumption, RangesAre
  <1>8. IsFiniteSet(values \union {low})
    BY <1>5, FS_AddElement
  <1>9. /\ top \in values \union {low} /\ top \in Int
        /\ \A v \in values \union {low} : v <= top
    <2> DEFINE all == values \union {low}
    <2>1. all \in SUBSET Int /\ all # {} /\ IsFiniteSet(all)
      BY <1>5, <1>7, <1>8
    <2> HIDE DEF all
    <2>2. Max(all) \in all /\ Max(all) \in Int /\ \A v \in all : v <= Max(all)
      BY <2>1, GreatestIs
    <2> QED BY <2>2 DEF all
  <1> HIDE DEF top, low
  <1>10. CASE ~autoScale
    BY <1>1, <1>10, RangesAre
  <1>11. CASE autoScale /\ span <= 0
    <2>1. r = yRange
      BY <1>1, <1>11
    <2>2. low = yRange[1] /\ yRange[1] < yRange[2] /\ yRange[2] \in Nat
      BY DEF Ranges, low
    <2>3. \A v \in values : v <= low
      BY <1>5, <1>7, <1>9, <1>11
    <2>4. \A v \in values : v <= yRange[2]
      BY <1>5, <1>7, <2>2, <2>3
    <2> HIDE DEF r, N
    <2> QED BY <1>6, <2>1, <2>4 DEF N, r
  <1>12. CASE autoScale /\ span > 0
    <2>1. top \in Value \ {Gap} /\ top > YRange[1]
      BY <1>5, <1>7, <1>9, <1>12 DEF low
    <2> DEFINE n == NiceCeiling(11 * (top - YRange[1]))
    <2>2. n \in Nat /\ top <= YRange[1] + n /\ 0 < n
      BY <2>1, CeilingIs
    <2>3. r = <<low, low + n>>
      BY <1>1, <1>7, <1>9, <1>12 DEF low
    <2> HIDE DEF n, r
    <2>4. r \in Ranges /\ r[2] = low + n
      BY <1>7, <2>2, <2>3 DEF Ranges, low
    <2>5. \A v \in values : v <= r[2]
      BY <1>5, <1>7, <1>9, <2>2, <2>4 DEF low
    <2> HIDE DEF N
    <2> QED BY <1>6, <2>4, <2>5 DEF N, r
  <1>13. ~autoScale \/ (autoScale /\ span <= 0) \/ (autoScale /\ span > 0)
    BY <1>7, <1>9
  <1> QED BY <1>10, <1>11, <1>12, <1>13

-----------------------------------------------------------------------------
(***************************************************************************)
(* The marks of grids lie in the canvas.                                   *)
(***************************************************************************)
InCells(m, c, d) == CellOf(m, d) \in (1..c.w) \X (0..c.h - 1)
Fit(g, c, d) == g.w = c.w /\ g.h = c.h /\ \A m \in g.marks : InCells(m, c, d)

LEMMA DotInCells ==
  ASSUME NEW c \in Cells, NEW m, m[1] \in 1..2 * c.w, m[2] \in 0..(4 * c.h - 1)
  PROVE  InCells(m, c, TRUE)
  <1> DEFINE w == c.w
             h == c.h
             x == m[1]
             y == m[2]
  <1>1. w \in Nat /\ h \in Nat /\ x \in Int /\ y \in Int /\ 1 <= x /\ x <= 2 * w /\ 0 <= y /\ y <= 4 * h - 1
    BY DEF Cells
  <1>2. CellOf(m, TRUE) = <<(x + 1) \div 2, y \div 4>>
    BY DEF CellOf
  <1> HIDE DEF w, h, x, y
  <1>3. (x + 1) \div 2 \in 1..w /\ y \div 4 \in 0..h - 1
    BY <1>1
  <1> DEFINE column == (x + 1) \div 2
             row == y \div 4
  <1>4. CellOf(m, TRUE) = <<column, row>> /\ column \in 1..w /\ row \in 0..h - 1
    BY <1>2, <1>3
  <1> HIDE DEF column, row
  <1> DEFINE W == 1..w
             H == 0..h - 1
  <1>5. CellOf(m, TRUE) \in W \X H
    <2>1. column \in W /\ row \in H
      BY <1>4
    <2> HIDE DEF W, H
    <2>2. <<column, row>> \in W \X H
      BY <2>1
    <2> QED BY <1>4, <2>2
  <1> QED BY <1>5 DEF InCells, w, h

LEMMA ConnectorInCells ==
  ASSUME NEW c, NEW m, m[1] \in 1..c.w, m[2] \in 0..(c.h - 1)
  PROVE  InCells(m, c, FALSE)
  BY DEF InCells, CellOf

ColumnsIn(c, d) == IF d THEN 2 * c.w ELSE c.w

\* A series drawn over a canvas stays in it.
LEMMA MarksFit ==
  ASSUME NEW c \in Cells, c.w > 0, c.h > 0, NEW d \in BOOLEAN, NEW r \in Scale,
         NEW vals \in ValuesOf(ColumnsIn(c, d))
  PROVE  \A m \in MarksOf(vals, r, c.h, d) : InCells(m, c, d)
  <1>1. c.w \in Nat /\ c.h \in Nat
    BY DEF Cells
  <1>2. CASE d
    <2>1. 2 * c.w \in Nat /\ vals \in ValuesOf(2 * c.w)
      BY <1>1, <1>2 DEF ColumnsIn
    <2>2. DotMarks(vals, r, c.h) \subseteq (1..2 * c.w) \X (0..(4 * c.h - 1))
      BY <1>1, <2>1, DotsTell
    <2>3. \A m \in DotMarks(vals, r, c.h) : m[1] \in 1..2 * c.w /\ m[2] \in 0..(4 * c.h - 1)
      BY <2>2
    <2>4. \A m \in DotMarks(vals, r, c.h) : InCells(m, c, TRUE)
      BY <2>3, DotInCells
    <2> QED BY <1>2, <2>4 DEF MarksOf
  <1>3. CASE ~d
    <2>1. vals \in ValuesOf(c.w)
      BY <1>3 DEF ColumnsIn
    <2>2. \A m \in PlainMarks(vals, r, c.h) : m[1] \in 1..c.w /\ m[2] \in 0..(c.h - 1)
      BY <1>1, <2>1, ConnectorsTell
    <2>3. \A m \in PlainMarks(vals, r, c.h) : InCells(m, c, FALSE)
      BY <2>2, ConnectorInCells
    <2> QED BY <1>3, <2>3 DEF MarksOf
  <1> QED BY <1>2, <1>3

\* The row of a threshold in dots.
LEMMA DotThreshold ==
  ASSUME NEW v \in Int, NEW r \in Scale, NEW h \in Nat, h > 0
  PROVE  ((r[2] - Clamp(v, r)) * (4 * h - 1)) \div (r[2] - r[1]) \in 0..(4 * h - 1)
  <1> DEFINE span == r[2] - r[1]
             a == r[2] - Clamp(v, r)
             n == 4 * h - 1
  <1>1. span \in Nat /\ span > 0 /\ a \in 0..span /\ n \in Nat
    BY ClampIs DEF Scale
  <1> HIDE DEF span, a, n
  <1>2. a * n \in Nat /\ span * n \in Nat /\ a * n <= span * n
    BY <1>1
  <1>3. span * (n + 1) = span * n + span
    BY <1>1
  <1>4. a * n < span * (n + 1)
    BY <1>1, <1>2, <1>3
  <1>5. (a * n) \div span \in 0..n
    BY <1>1, <1>2, <1>4, QuotientBounds
  <1> QED BY <1>5 DEF a, n, span

LEMMA ThresholdFits ==
  ASSUME NEW c \in Cells, c.w > 0, c.h > 0, NEW d \in BOOLEAN, NEW r \in Scale, NEW v \in Int
  PROVE  \A m \in ThresholdMarks(v, c, r, d) : InCells(m, c, d)
  <1>1. c.w \in Nat /\ c.h \in Nat
    BY DEF Cells
  <1>2. CASE d
    <2> DEFINE y == ((r[2] - Clamp(v, r)) * (4 * c.h - 1)) \div (r[2] - r[1])
    <2>1. y \in 0..(4 * c.h - 1)
      BY <1>1, DotThreshold
    <2>2. ThresholdMarks(v, c, r, d) = {<<x, y>> : x \in 1..2 * c.w}
      BY <1>2 DEF ThresholdMarks
    <2> HIDE DEF y
    <2>3. \A m \in ThresholdMarks(v, c, r, d) : m[1] \in 1..2 * c.w /\ m[2] \in 0..(4 * c.h - 1)
      BY <2>1, <2>2
    <2>4. \A m \in ThresholdMarks(v, c, r, d) : InCells(m, c, TRUE)
      BY <2>3, DotInCells
    <2>5. d = TRUE
      BY <1>2
    <2> QED BY <2>4, <2>5
  <1>3. CASE ~d
    <2> DEFINE y == RowOf(v, r, c.h - 1)
    <2>1. y \in 0..(c.h - 1)
      <3>1. c.h - 1 \in Nat
        BY <1>1
      <3> QED BY <3>1, RowOfBounds
    <2>2. ThresholdMarks(v, c, r, d) =
            {<<x, y, "E">> : x \in 1..Max({1, c.w - 1})} \union {<<x, y, "W">> : x \in Min({2, c.w})..c.w}
      BY <1>3 DEF ThresholdMarks
    <2> HIDE DEF y
    <2>3. 1..Max({1, c.w - 1}) \subseteq 1..c.w /\ Min({2, c.w})..c.w \subseteq 1..c.w
      <3>1. Max({1, c.w - 1}) = (IF 1 >= c.w - 1 THEN 1 ELSE c.w - 1) /\ Min({2, c.w}) = (IF 2 <= c.w THEN 2 ELSE c.w)
        BY <1>1, MaxOfTwo, MinOfTwo
      <3> QED BY <1>1, <3>1
    <2>4. \A m \in ThresholdMarks(v, c, r, d) : m[1] \in 1..c.w /\ m[2] \in 0..(c.h - 1)
      <3> SUFFICES ASSUME NEW m \in ThresholdMarks(v, c, r, d)
                   PROVE  m[1] \in 1..c.w /\ m[2] \in 0..(c.h - 1)
        OBVIOUS
      <3>1. \E x \in 1..c.w : m = <<x, y, "E">> \/ m = <<x, y, "W">>
        BY <2>2, <2>3
      <3> QED BY <2>1, <3>1
    <2>5. \A m \in ThresholdMarks(v, c, r, d) : InCells(m, c, FALSE)
      BY <2>4, ConnectorInCells
    <2>6. d = FALSE
      BY <1>3
    <2> QED BY <2>5, <2>6
  <1> QED BY <1>2, <1>3

LEMMA ThresholdsFit ==
  ASSUME NEW c \in Cells, NEW d \in BOOLEAN, NEW r \in Scale, NEW ts \in Seq(Int)
  PROVE  LET gs == ThresholdGrids(ts, c, r, d)
         IN /\ \A i \in DOMAIN gs : Fit(gs[i], c, d)
            /\ gs = <<>> \/ Len(gs) = Len(ts)
  <1> DEFINE gs == ThresholdGrids(ts, c, r, d)
  <1>1. CASE c.w <= 0 \/ c.h <= 0
    <2>1. gs = <<>>
      BY <1>1 DEF ThresholdGrids
    <2> QED BY <2>1
  <1>2. CASE ~(c.w <= 0 \/ c.h <= 0)
    <2>1. gs = [i \in 1..Len(ts) |-> [NewGrid(c) EXCEPT !.marks = ThresholdMarks(ts[i], c, r, d)]]
      BY <1>2 DEF ThresholdGrids
    <2>2. Len(ts) \in Nat /\ DOMAIN gs = 1..Len(ts)
      BY <2>1
    <2>3. Len(gs) = Len(ts)
      <3> HIDE DEF gs
      <3> QED BY <2>1, <2>2
    <2>4. c.w > 0 /\ c.h > 0
      BY <1>2 DEF Cells
    <2>5. ASSUME NEW i \in 1..Len(ts)
          PROVE  Fit(gs[i], c, d)
      <3>1. gs[i] = [w |-> c.w, h |-> c.h, marks |-> ThresholdMarks(ts[i], c, r, d)]
        BY <2>1 DEF NewGrid
      <3>2. \A m \in ThresholdMarks(ts[i], c, r, d) : InCells(m, c, d)
        BY <2>4, ThresholdFits
      <3> HIDE DEF gs
      <3> QED BY <3>1, <3>2 DEF Fit
    <2> QED BY <2>2, <2>3, <2>5
  <1> QED BY <1>1, <1>2

-----------------------------------------------------------------------------
(***************************************************************************)
(* What the picture shows.                                                 *)
(***************************************************************************)
SeenIn(pic, n) == IF n \in DOMAIN pic THEN pic[n] ELSE {}

Unmarked(gs, n) == gs[n].marks = {}

LEMMA NothingCovered ==
  ASSUME NEW g, g.marks = {}, NEW d
  PROVE  Covered(g, d) = {}
  BY DEF Covered

\* Only the series asked for are seen: the grids of the others must be blank for
\* that in detail mode only.
LEMMA AskedAreSeen ==
  ASSUME NEW names, NEW c, NEW gs, NEW d, \A n \in DOMAIN gs \ ToSet(names) : Unmarked(gs, n),
         NEW n, SeenIn(Render(names, c, gs, d), n) # {}
  PROVE  n \in ToSet(names)
  <1> DEFINE pic == Render(names, c, gs, d)
             above == {names[i] : i \in 1..Min({j \in DOMAIN names : names[j] = n}) - 1}
  <1>1. n \in DOMAIN pic /\ pic[n] # {}
    BY DEF SeenIn
  <1>2. CASE c.w <= 0 \/ c.h <= 0
    <2>1. pic = Empty
      BY <1>2 DEF Render
    <2> QED BY <1>1, <2>1 DEF Empty
  <1>3. CASE ~(c.w <= 0 \/ c.h <= 0)
    <2>1. /\ DOMAIN pic = DOMAIN gs
          /\ n \in DOMAIN gs => pic[n] =
               IF d THEN Covered(gs[n], d) ELSE IF n \notin ToSet(names) THEN {}
               ELSE Covered(gs[n], d) \ UNION {Covered(gs[k], d) : k \in above \cap DOMAIN gs}
      BY <1>3 DEF Render
    <2>2. n \in DOMAIN gs
      BY <1>1, <2>1
    <2>3. n \notin ToSet(names) => Covered(gs[n], d) = {}
      BY <2>2, NothingCovered DEF Unmarked
    <2> QED BY <1>1, <2>1, <2>2, <2>3
  <1> QED BY <1>2, <1>3

\* Each cell of a series asked for is seen, of it or of one asked for before it.
LEMMA AskedAreShown ==
  ASSUME NEW names \in Seq(Name), NEW c \in Cells, c.w > 0, c.h > 0, NEW gs, NEW d,
         NEW n \in DOMAIN gs, n \in ToSet(names), NEW cell \in Covered(gs[n], d)
  PROVE  \E k \in ToSet(names) : cell \in SeenIn(Render(names, c, gs, d), k)
  <1> DEFINE pic == Render(names, c, gs, d)
             above(m) == {names[i] : i \in 1..Min({j \in DOMAIN names : names[j] = m}) - 1}
  <1>1. ~(c.w <= 0 \/ c.h <= 0)
    BY DEF Cells
  <1>2. /\ DOMAIN pic = DOMAIN gs
        /\ \A m \in DOMAIN gs : pic[m] =
             IF d THEN Covered(gs[m], d) ELSE IF m \notin ToSet(names) THEN {}
             ELSE Covered(gs[m], d) \ UNION {Covered(gs[k], d) : k \in above(m) \cap DOMAIN gs}
    BY <1>1 DEF Render
  <1>3. ToSet(names) = {names[i] : i \in DOMAIN names} /\ DOMAIN names = 1..Len(names) /\ Len(names) \in Nat
    BY DEF ToSet
  <1>4. CASE d
    <2>1. cell \in pic[n] /\ n \in DOMAIN pic
      BY <1>2, <1>4
    <2> QED BY <2>1 DEF SeenIn
  <1>5. CASE ~d
    <2> DEFINE J == {j \in DOMAIN names : names[j] \in DOMAIN gs /\ cell \in Covered(gs[names[j]], d)}
    <2>1. J \in SUBSET Nat /\ J # {}
      BY <1>3
    <2>2. PICK j \in J : \A i \in J : j <= i
      BY <2>1, HasLeast
    <2> DEFINE m == names[j]
               I == {i \in DOMAIN names : names[i] = m}
    <2>3. m \in DOMAIN gs /\ m \in ToSet(names) /\ cell \in Covered(gs[m], d) /\ j \in I
      BY <1>3, <2>2
    <2>4. I \in SUBSET Nat /\ I # {}
      BY <1>3, <2>3
    <2>5. Min(I) \in Nat /\ Min(I) <= j /\ Min(I) \in DOMAIN names
      BY <2>3, <2>4, LeastIs
    <2>6. \A k \in above(m) \cap DOMAIN gs : cell \notin Covered(gs[k], d)
      <3> SUFFICES ASSUME NEW k \in above(m) \cap DOMAIN gs, cell \in Covered(gs[k], d)
                   PROVE  FALSE
        OBVIOUS
      <3>1. PICK i \in 1..Min(I) - 1 : k = names[i]
        OBVIOUS
      <3>2. j \in 1..Len(names) /\ i \in 1..Len(names) /\ i < j
        <4>1. j \in 1..Len(names)
          BY <1>3, <2>2
        <4> HIDE DEF I, m
        <4> QED BY <1>3, <2>5, <3>1, <4>1
      <3>3. i \in J
        BY <1>3, <3>1, <3>2
      <3>4. j <= i
        BY <2>2, <3>3
      <3> HIDE DEF I, J, m
      <3> QED BY <3>2, <3>4
    <2>7. pic[m] = Covered(gs[m], d) \ UNION {Covered(gs[k], d) : k \in above(m) \cap DOMAIN gs}
      BY <1>2, <1>5, <2>3
    <2> HIDE DEF pic, m, J, I
    <2>8. cell \in pic[m] /\ m \in DOMAIN pic
      BY <1>2, <2>3, <2>6, <2>7
    <2> QED BY <2>3, <2>8 DEF SeenIn, pic
  <1> QED BY <1>4, <1>5
-----------------------------------------------------------------------------
(***************************************************************************)
(* The inductive invariant of the chart.                                   *)
(***************************************************************************)
StateOK ==
  /\ autoScale \in BOOLEAN /\ detailMode \in BOOLEAN /\ outer \in Sizes /\ canvas \in Cells
  /\ DOMAIN series \subseteq Name /\ \A n \in DOMAIN series : series[n] \in Samples
  /\ thresholds \in Seq(Int) /\ yRange \in Ranges
  /\ asked \in NameLists \union {<<>>}

\* Every grid has the size of the canvas, and its marks are in it.
GridsOK == \A n \in DOMAIN grids :
  /\ grids[n] = [w |-> canvas.w, h |-> canvas.h, marks |-> grids[n].marks]
  /\ Fit(grids[n], canvas, detailMode)

\* The grid of a series that was plotted holds the marks of its values.
PlottedOK == \A n \in DOMAIN plotted :
  /\ n \in DOMAIN grids /\ canvas.w > 0
  /\ plotted[n].values \in ValuesOf(ColumnsIn(canvas, detailMode))
  /\ plotted[n].range = yRange
  /\ canvas.h > 0 => grids[n].marks = MarksOf(plotted[n].values, yRange, canvas.h, detailMode)

ChartIInv == StateOK /\ GridsOK /\ PlottedOK /\ OneScale /\ OnlyAsked

LEMMA TypesFollow == ASSUME ChartIInv PROVE ChartTypeOK
  <1>1. yRange \in Scale /\ canvas \in Cells /\ detailMode \in BOOLEAN /\ thresholds \in Seq(Int)
    BY RangesAre DEF ChartIInv, StateOK
  <1>2. thresholdGrids = ThresholdGrids(thresholds, canvas, yRange, detailMode)
    BY DEF ChartIInv, OneScale
  <1>3. /\ \A i \in DOMAIN thresholdGrids : Fit(thresholdGrids[i], canvas, detailMode)
        /\ thresholdGrids = <<>> \/ Len(thresholdGrids) = Len(thresholds)
    BY <1>1, <1>2, ThresholdsFit
  <1>4. /\ \A n \in DOMAIN grids : Fit(grids[n], canvas, detailMode)
        /\ DOMAIN series \subseteq Name /\ asked \in NameLists \union {<<>>}
    BY DEF ChartIInv, StateOK, GridsOK
  <1> QED BY <1>3, <1>4 DEF ChartTypeOK, Fit, InCells

LEMMA LinesFollow == ASSUME ChartIInv PROVE LineTells
  <1>1. yRange \in Scale /\ canvas.w \in Nat /\ canvas.h \in Nat /\ detailMode \in BOOLEAN
    BY RangesAre DEF ChartIInv, StateOK, Cells
  <1>2. ASSUME NEW n \in DOMAIN plotted, canvas.h > 0
        PROVE  Told(plotted[n].values, plotted[n].range, canvas.h, detailMode, grids[n].marks)
    <2>1. /\ plotted[n].values \in ValuesOf(ColumnsIn(canvas, detailMode))
          /\ plotted[n].range = yRange
          /\ grids[n].marks = MarksOf(plotted[n].values, yRange, canvas.h, detailMode)
      BY <1>2 DEF ChartIInv, PlottedOK
    <2>2. ColumnsIn(canvas, detailMode) \in Nat
      BY <1>1 DEF ColumnsIn
    <2> QED BY <1>1, <1>2, <2>1, <2>2, SeriesTold
  <1> QED BY <1>2, Zenon DEF LineTells, Told

LEMMA CanvasIs == ASSUME NEW size \in Sizes, NEW x PROVE Canvas(size, x) \in Cells
  <1>1. size[1] \in Int /\ size[2] \in Int
    BY ChartAssumption
  <1>2. \A i, j \in Int : Max({i, j}) \in Int /\ (j >= 0 => Max({i, j}) \in Nat)
    BY MaxOfTwo
  <1>3. (IF x THEN 1 ELSE 0) \in Int
    OBVIOUS
  <1> DEFINE width == Max({size[1], 1}) - 2
             height == size[2] - (IF x THEN 1 ELSE 0) - 2
  <1>4. width \in Int /\ height \in Int
    BY <1>1, <1>2, <1>3
  <1>5. Canvas(size, x) = [w |-> Max({width, 0}), h |-> Max({height, 0})]
    BY DEF Canvas
  <1> HIDE DEF width, height
  <1> QED BY <1>2, <1>4, <1>5 DEF Cells

LEMMA PushedIs ==
  ASSUME NEW s \in Samples, NEW t \in Int, NEW v \in Value
  PROVE  /\ Append(s, [t |-> t, v |-> v]) \in Samples
         /\ s # <<>> => [s EXCEPT ![Len(s)].v = v] \in Samples
  <1> DEFINE Sample == [t : Int, v : Value]
  <1>1. s \in Seq(Sample) /\ [t |-> t, v |-> v] \in Sample
    BY DEF Samples
  <1>2. Append(s, [t |-> t, v |-> v]) \in Seq(Sample)
    <2> DEFINE e == [t |-> t, v |-> v]
    <2> HIDE DEF Sample, e
    <2> QED BY <1>1, AppendProperties DEF e
  <1>3. ASSUME s # <<>>
        PROVE  [s EXCEPT ![Len(s)].v = v] \in Seq(Sample)
    <2> DEFINE e == [s[Len(s)] EXCEPT !.v = v]
    <2>1. Len(s) \in 1..Len(s)
      <3> HIDE DEF Sample
      <3> QED BY <1>1, <1>3, EmptySeq
    <2>2. s[Len(s)] \in Sample
      <3> HIDE DEF Sample
      <3> QED BY <1>1, <2>1, ElementOfSeq
    <2>3. e \in Sample
      BY <2>2
    <2>4. [s EXCEPT ![Len(s)].v = v] = [s EXCEPT ![Len(s)] = e]
      BY <1>1, <2>1
    <2> HIDE DEF Sample, e
    <2>5. [s EXCEPT ![Len(s)] = e] \in Seq(Sample)
      BY <1>1, <2>1, <2>3, ExceptSeq
    <2> QED BY <2>4, <2>5
  <1> QED BY <1>2, <1>3 DEF Samples

LEMMA InitChart == ChartInit => ChartIInv
  <1> SUFFICES ASSUME ChartInit
               PROVE  ChartIInv
    OBVIOUS
  <1> USE DEF ChartInit
  <1>1. StateOK
    <2>1. canvas \in Cells
      BY CanvasIs
    <2>2. DOMAIN series = {} /\ YRange \in Ranges
      BY RangesAre DEF Empty
    <2>3. thresholds \in Seq(Int)
      OBVIOUS
    <2> QED BY <2>1, <2>2, <2>3 DEF StateOK
  <1>2. DOMAIN grids = {} /\ DOMAIN plotted = {} /\ DOMAIN picture = {}
    BY DEF Empty
  <1>3. GridsOK /\ PlottedOK
    BY <1>2 DEF GridsOK, PlottedOK
  <1>4. thresholdGrids = ThresholdGrids(thresholds, canvas, yRange, detailMode)
    <2>1. thresholds = <<>> /\ thresholdGrids = <<>> /\ DOMAIN <<>> = {}
      OBVIOUS
    <2>2. ThresholdGrids(<<>>, canvas, yRange, detailMode) = <<>>
      <3>1. CASE canvas.w <= 0 \/ canvas.h <= 0
        BY <3>1 DEF ThresholdGrids
      <3>2. CASE ~(canvas.w <= 0 \/ canvas.h <= 0)
        <4> DEFINE gs == ThresholdGrids(<<>>, canvas, yRange, detailMode)
        <4> DEFINE old == [i \in {} |-> [NewGrid(canvas) EXCEPT !.marks =
                            ThresholdMarks(<<>>[i], canvas, yRange, detailMode)]]
        <4>1. gs = old
          BY <3>2, <2>1 DEF ThresholdGrids
        <4>2. old = <<>>
          OBVIOUS
        <4> QED BY <4>1, <4>2
      <3> QED BY <3>1, <3>2
    <2> QED BY <2>1, <2>2
  <1>5. OneScale
    BY <1>2, <1>4 DEF OneScale
  <1>6. OnlyAsked
    BY <1>2 DEF OnlyAsked
  <1> QED BY <1>1, <1>3, <1>5, <1>6 DEF ChartIInv

\* What a step keeps when it touches none of what the part is about.
LEMMA PlottedStays ==
  ASSUME PlottedOK, UNCHANGED <<plotted, grids, canvas, detailMode, yRange>>
  PROVE  PlottedOK'
  BY DEF PlottedOK

LEMMA GridsStay ==
  ASSUME GridsOK, UNCHANGED <<grids, canvas, detailMode>>
  PROVE  GridsOK'
  BY DEF GridsOK

LEMMA ScaleStays ==
  ASSUME OneScale, UNCHANGED <<thresholdGrids, thresholds, canvas, yRange, detailMode, labels, plotted, autoScale>>
  PROVE  OneScale'
  BY DEF OneScale

LEMMA AskedStay ==
  ASSUME OnlyAsked, UNCHANGED <<picture, asked, plotted, canvas, grids, detailMode>>
  PROVE  OnlyAsked'
  BY DEF OnlyAsked

LEMMA PushSampleKeeps ==
  ASSUME ChartIInv, NEW n \in Name, NEW t \in PushTimes, NEW v \in Value, PushSample(n, t, v)
  PROVE  ChartIInv'
  <1> DEFINE s == IF n \in DOMAIN series THEN series[n] ELSE <<>>
             stored == IF s = <<>> \/ t > s[Len(s)].t THEN Append(s, [t |-> t, v |-> v])
                       ELSE IF t = s[Len(s)].t THEN [s EXCEPT ![Len(s)].v = v] ELSE s
  <1>1. /\ series' = [m \in DOMAIN series \union {n} |-> IF m = n THEN stored ELSE series[m]]
        /\ UNCHANGED <<autoScale, canvas, outer, xaxis, detailMode, grids, thresholds,
                       thresholdGrids, yRange, labels, asked, picture, plotted>>
    BY DEF PushSample
  <1>2. t \in Int
    BY ChartAssumption
  <1>3. s \in Samples
    <2>1. <<>> \in Samples
      BY DEF Samples
    <2>2. \A m \in DOMAIN series : series[m] \in Samples
      BY DEF ChartIInv, StateOK
    <2> QED BY <2>1, <2>2
  <1> HIDE DEF s
  <1>4. stored \in Samples
    BY <1>2, <1>3, PushedIs
  <1> HIDE DEF stored
  <1>5. StateOK'
    BY <1>1, <1>4 DEF ChartIInv, StateOK
  <1>6. OneScale'
    BY <1>1, ScaleStays DEF ChartIInv
  <1>7. OnlyAsked' /\ PlottedOK' /\ GridsOK'
    BY <1>1, AskedStay, PlottedStays, GridsStay DEF ChartIInv
  <1> QED BY <1>5, <1>6, <1>7 DEF ChartIInv

LEMMA SetSeriesStyleKeeps ==
  ASSUME ChartIInv, NEW n \in Name, SetSeriesStyle(n)
  PROVE  ChartIInv'
  <1>1. /\ series' = [m \in DOMAIN series \union {n} |-> IF m = n THEN <<>> ELSE series[m]]
        /\ UNCHANGED <<autoScale, canvas, outer, xaxis, detailMode, grids, thresholds,
                       thresholdGrids, yRange, labels, asked, picture, plotted>>
    BY DEF SetSeriesStyle
  <1>2. <<>> \in Samples
    BY DEF Samples
  <1>3. StateOK'
    BY <1>1, <1>2 DEF ChartIInv, StateOK
  <1>4. OneScale'
    BY <1>1, ScaleStays DEF ChartIInv
  <1>5. OnlyAsked' /\ PlottedOK' /\ GridsOK'
    BY <1>1, AskedStay, PlottedStays, GridsStay DEF ChartIInv
  <1> QED BY <1>3, <1>4, <1>5 DEF ChartIInv

LEMMA ResetSeriesKeeps ==
  ASSUME ChartIInv, ResetSeries
  PROVE  ChartIInv'
  <1>1. /\ series' = Empty
        /\ UNCHANGED <<autoScale, canvas, outer, xaxis, detailMode, grids, thresholds,
                       thresholdGrids, yRange, labels, asked, picture, plotted>>
    BY DEF ResetSeries
  <1>2. StateOK'
    BY <1>1 DEF ChartIInv, StateOK, Empty
  <1>3. OneScale'
    BY <1>1, ScaleStays DEF ChartIInv
  <1>4. OnlyAsked' /\ PlottedOK' /\ GridsOK'
    BY <1>1, AskedStay, PlottedStays, GridsStay DEF ChartIInv
  <1> QED BY <1>2, <1>3, <1>4 DEF ChartIInv

LEMMA LabelsAre ==
  ASSUME NEW c \in Cells, NEW r
  PROVE  Labels(c, r) = NoLabels \/ (Labels(c, r).range = r /\ Labels(c, r).h = c.h)
  BY DEF Labels

LEMMA EnableAxesKeeps ==
  ASSUME ChartIInv, NEW b \in BOOLEAN, EnableAxes(b)
  PROVE  ChartIInv'
  <1>1. /\ labels' = Labels(canvas, yRange)
        /\ UNCHANGED <<autoScale, series, canvas, outer, detailMode, grids, thresholds,
                       thresholdGrids, yRange, asked, picture, plotted>>
    BY DEF EnableAxes
  <1>2. StateOK'
    BY <1>1 DEF ChartIInv, StateOK
  <1>3. canvas \in Cells
    BY DEF ChartIInv, StateOK
  <1>4. labels' = NoLabels \/ (labels'.range = yRange' /\ labels'.h = canvas'.h)
    BY <1>1, <1>3, LabelsAre
  <1>5. OneScale'
    BY <1>1, <1>4 DEF ChartIInv, OneScale
  <1>6. OnlyAsked' /\ PlottedOK' /\ GridsOK'
    BY <1>1, AskedStay, PlottedStays, GridsStay DEF ChartIInv
  <1> QED BY <1>2, <1>5, <1>6 DEF ChartIInv

LEMMA SetThresholdsKeeps ==
  ASSUME ChartIInv, NEW ts \in Thresholds, SetThresholds(ts)
  PROVE  ChartIInv'
  <1>1. /\ thresholds' = ts
        /\ thresholdGrids' = ThresholdGrids(ts, canvas, yRange, detailMode)
        /\ UNCHANGED <<autoScale, series, canvas, outer, xaxis, detailMode, grids, yRange,
                       labels, asked, picture, plotted>>
    BY DEF SetThresholds
  <1>2. ts \in Seq(Int)
    BY ChartAssumption
  <1>3. StateOK'
    BY <1>1, <1>2 DEF ChartIInv, StateOK
  <1>4. OneScale'
    BY <1>1 DEF ChartIInv, OneScale
  <1>5. OnlyAsked' /\ PlottedOK' /\ GridsOK'
    BY <1>1, AskedStay, PlottedStays, GridsStay DEF ChartIInv
  <1> QED BY <1>3, <1>4, <1>5 DEF ChartIInv

LEMMA SetDetailModeKeeps ==
  ASSUME ChartIInv, NEW b \in BOOLEAN, SetDetailMode(b)
  PROVE  ChartIInv'
  <1>1. /\ detailMode' = b /\ DOMAIN grids' = {} /\ DOMAIN plotted' = {}
        /\ thresholdGrids' = ThresholdGrids(thresholds, canvas, yRange, b)
        /\ UNCHANGED <<autoScale, series, canvas, outer, xaxis, thresholds, yRange, labels,
                       asked, picture>>
    BY DEF SetDetailMode, Empty
  <1>2. StateOK'
    BY <1>1 DEF ChartIInv, StateOK
  <1>3. PlottedOK' /\ GridsOK'
    BY <1>1 DEF PlottedOK, GridsOK
  <1>4. OneScale'
    BY <1>1 DEF ChartIInv, OneScale
  <1>5. OnlyAsked'
    BY <1>1 DEF ChartIInv, OnlyAsked
  <1> QED BY <1>2, <1>3, <1>4, <1>5 DEF ChartIInv

LEMMA ResizeKeeps ==
  ASSUME ChartIInv, NEW size \in Sizes, Resize(size)
  PROVE  ChartIInv'
  <1>1. /\ outer' = size /\ canvas' = Canvas(size, xaxis)
        /\ grids' = [n \in DOMAIN series |-> NewGrid(canvas')]
        /\ thresholdGrids' = ThresholdGrids(thresholds, canvas', yRange, detailMode)
        /\ labels' = Labels(canvas', yRange)
        /\ picture' = Render(asked, canvas', grids', detailMode)
        /\ DOMAIN plotted' = {}
        /\ UNCHANGED <<autoScale, series, xaxis, detailMode, thresholds, yRange, asked>>
    BY DEF Resize, Empty
  <1>2. canvas' \in Cells
    BY <1>1, CanvasIs
  <1>3. StateOK'
    BY <1>1, <1>2 DEF ChartIInv, StateOK
  <1>4. \A n \in DOMAIN grids' : grids'[n] = [w |-> canvas'.w, h |-> canvas'.h, marks |-> {}]
    BY <1>1 DEF NewGrid
  <1>5. GridsOK'
    BY <1>4 DEF GridsOK, Fit
  <1>6. PlottedOK'
    BY <1>1 DEF PlottedOK
  <1>7. OneScale'
    BY <1>1, <1>2, LabelsAre DEF OneScale
  <1>8. OnlyAsked'
    <2>1. \A n \in DOMAIN grids' : Unmarked(grids', n)
      BY <1>4 DEF Unmarked
    <2>2. \A n : SeenIn(picture', n) # {} => n \in ToSet(asked')
      BY <1>1, <2>1, AskedAreSeen
    <2> QED BY <1>1, <2>2 DEF OnlyAsked, SeenIn
  <1> QED BY <1>3, <1>5, <1>6, <1>7, <1>8 DEF ChartIInv

LEMMA DrawSeriesKeeps ==
  ASSUME ChartIInv, NEW names \in NameLists, NEW time \in DrawTimes, DrawSeries(names, time)
  PROVE  ChartIInv'
  <1> DEFINE now == time - (time % ChartResolution)
             r == RangeForDraw(names, now)
             cols == ColumnsIn(canvas, detailMode)
             toDraw == Drawable(names)
  <1>1. /\ asked' = names /\ yRange' = r
        /\ IF r = yRange THEN UNCHANGED <<labels, thresholdGrids>>
           ELSE /\ labels' = Labels(canvas, r)
                /\ thresholdGrids' = ThresholdGrids(thresholds, canvas, r, detailMode)
        /\ plotted' = [n \in toDraw |-> [values |-> Resample(series[n], now, cols), range |-> r]]
        /\ grids' = [n \in DOMAIN grids \union DOMAIN plotted' |->
             IF n \in DOMAIN plotted' THEN Plot(GridOf(names, n), plotted'[n].values, r, detailMode)
             ELSE GridOf(names, n)]
        /\ picture' = Render(names, canvas, grids', detailMode)
        /\ UNCHANGED <<autoScale, series, canvas, outer, xaxis, detailMode, thresholds>>
    BY DEF DrawSeries, Cols, ColumnsIn
  <1>2. now \in Int /\ names \in Seq(Name) /\ canvas \in Cells /\ detailMode \in BOOLEAN
    BY ChartAssumption DEF ChartIInv, StateOK
  <1>3. /\ r \in Ranges
        /\ autoScale => \A n \in ToSet(names) \cap DOMAIN series :
             \A v \in InWindow(series[n], now) : v <= r[2]
    BY <1>2, RangeHolds DEF ChartIInv, StateOK
  <1>4. r \in Scale /\ r[2] \in Nat
    BY <1>3, RangesAre DEF Ranges
  <1>5. \A n \in toDraw : /\ n \in ToSet(names) \cap DOMAIN series /\ series[n] \in Samples
                         /\ canvas.w > 0
    BY DEF Drawable, ChartIInv, StateOK
  <1> HIDE DEF now, r
  <1>6. ASSUME NEW n \in toDraw
        PROVE  /\ Resample(series[n], now, cols) \in ValuesOf(cols)
               /\ autoScale => \A x \in DOMAIN Resample(series[n], now, cols) :
                    LET v == Resample(series[n], now, cols)[x] IN v # Gap => v <= r[2]
    <2>1. cols \in Nat \ {0}
      BY <1>2, <1>5 DEF ColumnsIn, Cells
    <2>2. DOMAIN Resample(series[n], now, cols) = 1..cols
      BY DEF Resample
    <2>3. /\ Resample(series[n], now, cols) \in ValuesOf(cols)
          /\ \A x \in 1..cols : LET v == Resample(series[n], now, cols)[x] IN
               v # Gap => v = 0 \/ v \in InWindow(series[n], now)
      BY <1>2, <1>5, <2>1, ResampleIs
    <2> QED BY <1>3, <1>4, <1>5, <2>2, <2>3
  <1> HIDE DEF cols, toDraw
  <1>7. /\ DOMAIN plotted' = toDraw
        /\ \A n \in toDraw : /\ plotted'[n].values = Resample(series[n], now, cols)
                            /\ plotted'[n].range = r
    BY <1>1
  <1>8. StateOK'
    BY <1>1, <1>3 DEF ChartIInv, StateOK
  <1>9. \A n : GridOf(names, n) = [w |-> canvas.w, h |-> canvas.h, marks |-> {}]
    <2> SUFFICES ASSUME NEW n
                 PROVE  GridOf(names, n) = [w |-> canvas.w, h |-> canvas.h, marks |-> {}]
      OBVIOUS
    <2>1. CASE n \in DOMAIN grids
      <3>1. grids[n] = [w |-> canvas.w, h |-> canvas.h, marks |-> grids[n].marks]
        BY <2>1 DEF ChartIInv, GridsOK
      <3> DEFINE old == grids[n].marks
      <3> HIDE DEF old
      <3>2. grids[n] = [w |-> canvas.w, h |-> canvas.h, marks |-> old]
        BY <3>1 DEF old
      <3> QED BY <2>1, <3>2 DEF GridOf
    <2>2. CASE n \notin DOMAIN grids
      BY <2>2 DEF GridOf, NewGrid
    <2> QED BY <2>1, <2>2
  <1>10. /\ DOMAIN grids' = DOMAIN grids \union toDraw
         /\ \A n \in DOMAIN grids' : n \notin toDraw =>
              grids'[n] = [w |-> canvas.w, h |-> canvas.h, marks |-> {}]
    BY <1>1, <1>7, <1>9
  <1> DEFINE marks(n) == IF canvas.h > 0 THEN MarksOf(plotted'[n].values, r, canvas.h, detailMode) ELSE {}
  <1>11. ASSUME NEW n \in toDraw
         PROVE  grids'[n] = [w |-> canvas.w, h |-> canvas.h, marks |-> marks(n)]
    <2>1. grids'[n] = Plot(GridOf(names, n), plotted'[n].values, r, detailMode)
      BY <1>1, <1>7
    <2> DEFINE g == [w |-> canvas.w, h |-> canvas.h, marks |-> {}]
    <2>2. grids'[n] = Plot(g, plotted'[n].values, r, detailMode)
      BY <1>9, <2>1
    <2>3. (canvas.w <= 0 \/ canvas.h <= 0) <=> ~(canvas.h > 0)
      BY <1>2, <1>5 DEF Cells
    <2>4. g.w = canvas.w /\ g.h = canvas.h
      OBVIOUS
    <2>5. Plot(g, plotted'[n].values, r, detailMode) =
            [g EXCEPT !.marks = IF g.w <= 0 \/ g.h <= 0 THEN {} ELSE MarksOf(plotted'[n].values, r, g.h, detailMode)]
      BY DEF Plot, MarksOf
    <2>6. Plot(g, plotted'[n].values, r, detailMode) = [g EXCEPT !.marks = marks(n)]
      <3> HIDE DEF g
      <3> QED BY <2>3, <2>4, <2>5
    <2> HIDE DEF marks
    <2> QED BY <2>2, <2>6
  <1>12. GridsOK'
    <2> SUFFICES ASSUME NEW n \in DOMAIN grids'
                 PROVE  /\ grids'[n] = [w |-> canvas.w, h |-> canvas.h, marks |-> grids'[n].marks]
                        /\ Fit(grids'[n], canvas, detailMode)
      BY <1>1 DEF GridsOK
    <2>1. CASE n \notin toDraw
      <3>1. grids'[n] = [w |-> canvas.w, h |-> canvas.h, marks |-> {}]
        BY <1>10, <2>1
      <3> QED BY <3>1 DEF Fit
    <2>2. CASE n \in toDraw
      <3>1. grids'[n] = [w |-> canvas.w, h |-> canvas.h, marks |-> marks(n)]
        BY <1>11, <2>2
      <3>2. \A m \in marks(n) : InCells(m, canvas, detailMode)
        <4>1. CASE canvas.h > 0
          <5>1. plotted'[n].values \in ValuesOf(ColumnsIn(canvas, detailMode)) /\ canvas.w > 0
            BY <1>5, <1>6, <1>7, <2>2 DEF cols
          <5> QED BY <1>2, <1>4, <4>1, <5>1, MarksFit
        <4>2. CASE ~(canvas.h > 0)
          BY <4>2
        <4> QED BY <4>1, <4>2
      <3> HIDE DEF marks
      <3> QED BY <3>1, <3>2 DEF Fit
    <2> QED BY <2>1, <2>2
  <1>13. PlottedOK'
    <2> SUFFICES ASSUME NEW n \in toDraw
                 PROVE  /\ n \in DOMAIN grids' /\ canvas.w > 0
                        /\ plotted'[n].values \in ValuesOf(ColumnsIn(canvas, detailMode))
                        /\ plotted'[n].range = r
                        /\ canvas.h > 0 => grids'[n].marks = MarksOf(plotted'[n].values, r, canvas.h, detailMode)
      BY <1>1, <1>7 DEF PlottedOK
    <2>1. grids'[n].marks = marks(n)
      <3>1. grids'[n] = [w |-> canvas.w, h |-> canvas.h, marks |-> marks(n)]
        BY <1>11
      <3> DEFINE these == marks(n)
      <3> HIDE DEF these
      <3>2. grids'[n] = [w |-> canvas.w, h |-> canvas.h, marks |-> these]
        BY <3>1 DEF these
      <3>3. grids'[n].marks = these
        BY <3>2
      <3> QED BY <3>3 DEF these
    <2> QED BY <1>5, <1>6, <1>7, <1>10, <2>1 DEF cols
  <1>14. OneScale'
    <2>1. thresholdGrids' = ThresholdGrids(thresholds, canvas, r, detailMode)
      BY <1>1 DEF ChartIInv, OneScale
    <2>2. labels' = NoLabels \/ (labels'.range = r /\ labels'.h = canvas.h)
      BY <1>1, <1>2, LabelsAre DEF ChartIInv, OneScale
    <2>3. \A n \in toDraw : autoScale => \A x \in DOMAIN plotted'[n].values :
            plotted'[n].values[x] # Gap => plotted'[n].values[x] <= r[2]
      BY <1>6, <1>7
    <2> QED BY <1>1, <1>7, <2>1, <2>2, <2>3 DEF OneScale
  <1>15. OnlyAsked'
    <2>1. \A n \in DOMAIN grids' \ ToSet(names) : Unmarked(grids', n)
      BY <1>5, <1>10 DEF Unmarked
    <2>2. \A n : SeenIn(picture', n) # {} => n \in ToSet(names)
      BY <1>1, <2>1, AskedAreSeen
    <2>3. ASSUME NEW n \in toDraw, canvas.h > 0, NEW cell \in Covered(grids'[n], detailMode)
          PROVE  \E k \in ToSet(names) : cell \in SeenIn(picture', k)
      <3>1. n \in DOMAIN grids' /\ n \in ToSet(names) /\ canvas.w > 0
        BY <1>5, <1>10
      <3> QED BY <1>1, <1>2, <2>3, <3>1, AskedAreShown
    <2>4. \A n \in toDraw : canvas.h > 0 =>
            Covered(grids'[n], detailMode) \subseteq UNION {SeenIn(picture', k) : k \in ToSet(names)}
      BY <2>3
    <2> QED BY <1>1, <1>7, <2>2, <2>4 DEF OnlyAsked, SeenIn
  <1> QED BY <1>8, <1>12, <1>13, <1>14, <1>15 DEF ChartIInv

LEMMA ChartStep == ChartIInv /\ [ChartNext]_chartVars => ChartIInv'
  <1> SUFFICES ASSUME ChartIInv, [ChartNext]_chartVars
               PROVE  ChartIInv'
    OBVIOUS
  <1>1. ASSUME NEW n \in Name, NEW t \in PushTimes, NEW v \in Value, PushSample(n, t, v)
        PROVE  ChartIInv'
    BY <1>1, PushSampleKeeps
  <1>2. ASSUME NEW n \in Name, SetSeriesStyle(n)
        PROVE  ChartIInv'
    BY <1>2, SetSeriesStyleKeeps
  <1>3. ASSUME NEW size \in Sizes, Resize(size)
        PROVE  ChartIInv'
    BY <1>3, ResizeKeeps
  <1>4. CASE SetStyles
    BY <1>4, ResizeKeeps DEF SetStyles, ChartIInv, StateOK
  <1>5. ASSUME NEW b \in BOOLEAN, EnableAxes(b) \/ SetDetailMode(b)
        PROVE  ChartIInv'
    BY <1>5, EnableAxesKeeps, SetDetailModeKeeps
  <1>6. ASSUME NEW ts \in Thresholds, SetThresholds(ts)
        PROVE  ChartIInv'
    BY <1>6, SetThresholdsKeeps
  <1>7. CASE ResetSeries
    BY <1>7, ResetSeriesKeeps
  <1>8. ASSUME NEW names \in NameLists, NEW time \in DrawTimes, DrawSeries(names, time)
        PROVE  ChartIInv'
    BY <1>8, DrawSeriesKeeps
  <1>9. CASE UNCHANGED chartVars
    <2>1. StateOK'
      BY <1>9 DEF ChartIInv, StateOK, chartVars
    <2>2. OneScale'
      BY <1>9, ScaleStays DEF ChartIInv, chartVars
    <2>3. OnlyAsked' /\ PlottedOK' /\ GridsOK'
      BY <1>9, AskedStay, PlottedStays, GridsStay DEF ChartIInv, chartVars
    <2> QED BY <2>1, <2>2, <2>3 DEF ChartIInv
  <1> QED BY <1>1, <1>2, <1>3, <1>4, <1>5, <1>6, <1>7, <1>8, <1>9 DEF ChartNext

LEMMA ChartHolds == ChartSpec => []ChartIInv
  BY InitChart, ChartStep, PTL DEF ChartSpec

\* Every grid has the cells of the canvas, and its marks lie in them, for every
\* size, mode, range and sequence of samples.
THEOREM ChartTypeCorrect == ChartSpec => []ChartTypeOK
  BY ChartHolds, TypesFollow, PTL

\* A line tells its values and nothing else (drawValues, drawSegment, drawLine).
THEOREM LinesTell == ChartSpec => []LineTells
  BY ChartHolds, LinesFollow, PTL

\* Lines, thresholds and labels share one scale, and an automatic one holds all
\* that is plotted (yRangeForDraw, niceCeiling).
THEOREM DrawsOnOneScale == ChartSpec => []OneScale
  <1>1. ChartIInv => OneScale
    BY DEF ChartIInv
  <1> QED BY ChartHolds, <1>1, PTL

\* The picture shows the series last asked for and no other, and all their cells.
THEOREM ShowsOnlyAsked == ChartSpec => []OnlyAsked
  <1>1. ChartIInv => OnlyAsked
    BY DEF ChartIInv
  <1> QED BY ChartHolds, <1>1, PTL
=============================================================================
