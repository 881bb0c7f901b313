-------------------------------- MODULE TsChart --------------------------------
(***************************************************************************)
(* A chart of the screen (tschart): the samples of its series, a grid for  *)
(* each line that was drawn and one for each threshold, in cells of        *)
(* connectors or, in detail mode, in dots of 2 by 4 a cell, and the        *)
(* picture rendered from them.  Values are whole numbers or Gap, which     *)
(* stands for NaN and the infinities; styles are left out.                 *)
(***************************************************************************)
EXTENDS Integers, Sequences, FiniteSets, SequencesExt, FiniteSetsExt

CONSTANTS
  Name,          \* series
  Value,         \* the values pushed
  Gap,           \* a value that is no finite number
  YRange,        \* the range of the y axis, <<low, high>>; low is 0 in this program
  ChartResolution,   \* ticks of the clock a column stands for
  Sizes,         \* the outer sizes of a layout
  NameLists,     \* the lists of series that may be asked for
  Thresholds,    \* the lists of threshold values that may be set
  PushTimes,     \* bound: the times of samples
  DrawTimes,     \* bound: the times of draws
  MaxPushes,     \* bound: the samples pushed in all
  Powers         \* the powers of 10 a range may reach, enough for all values

\* What an automatic range may end at, above its beginning: 1, 2 or 5 times a power
\* of 10.
Nice == {f * m : f \in {1, 2, 5}, m \in Powers}

ASSUME ChartAssumption ==
  /\ NameLists \subseteq Seq(Name)
  /\ Gap \notin Int /\ Value \subseteq Int \union {Gap}
  /\ YRange \in Nat \X Nat /\ YRange[1] < YRange[2]
  /\ ChartResolution \in Nat \ {0}
  /\ Sizes \subseteq Int \X Int
  /\ Thresholds \subseteq Seq(Int)
  /\ PushTimes \subseteq Int /\ DrawTimes \subseteq Int
  /\ MaxPushes \in Nat
  /\ Powers \subseteq Nat \ {0}
  /\ \A v \in Value \ {Gap} : \E n \in Nice : 11 * (v - YRange[1]) <= 10 * n

VARIABLES
  autoScale,     \* is the range fitted to what is drawn
  series,        \* the samples of each series there is
  canvas,        \* the cells of the canvas: [w, h]
  outer,         \* the outer size last asked for
  xaxis,         \* is there an x axis
  detailMode,    \* DetailMode
  grids,         \* the grids of the series: lineGrids, or grids in detail mode
  thresholds,    \* the values of the thresholds
  thresholdGrids,
  yRange,        \* renderYRange, the range last drawn with
  labels,        \* what the labels of the y axis were rendered for
  asked,         \* seriesRenderCache
  picture,       \* chartCache: the series that are seen in each cell
  plotted,       \* history: the values in each grid, and their range
  pushes         \* how many samples were pushed, for the bound

chartVars == <<autoScale, series, canvas, outer, xaxis, detailMode, grids, thresholds,
          thresholdGrids, yRange, labels, asked, picture, plotted, pushes>>

Empty == [x \in {} |-> x]
-----------------------------------------------------------------------------
(***************************************************************************)
(* From values to marks.  A plain grid marks <<x, y, direction>>, a grid   *)
(* of dots <<x, y>>; rows count from the top, from 0.                      *)
(***************************************************************************)
Clamp(v, r) == Max({r[1], Min({v, r[2]})})

\* Of n + 1 rows, that of v, as far below the top as a fraction of the range.
RowOf(v, r, n) ==
  LET span == r[2] - r[1] IN
  (2 * (r[2] - Clamp(v, r)) * n + span) \div (2 * span)

\* Mutant: values near the ends of the range share the rows of the ends.
PlainRow_NoEdges(v, r, h) == IF h <= 1 THEN 0 ELSE RowOf(v, r, h - 1)

\* The first and the last row are kept for values within 0.5% of the ends.
PlainRow(v, r, h) ==
  LET span == r[2] - r[1]
      y == IF h <= 1 THEN 0 ELSE RowOf(v, r, h - 1)
      y2 == IF 200 * (v - r[1]) > span /\ h >= 3 /\ y >= h - 1 THEN h - 2 ELSE y
  IN IF 200 * (r[2] - v) > span /\ h >= 3 /\ y2 <= 0 THEN 1 ELSE y2

DotRow(v, r, h) == RowOf(v, r, 4 * h - 1)

\* drawSegment from row y1 to row y2: along y1 to column x, then up or down.
Segment(x, y1, y2) ==
  LET toward == IF y2 < y1 THEN "N" ELSE "S"
      back == IF y2 < y1 THEN "S" ELSE "N"
      between == (Min({y1, y2}) + 1)..(Max({y1, y2}) - 1)
  IN {<<x - 1, y1, "E">>, <<x, y1, "W">>}
     \union {<<x, y, d>> : y \in between, d \in {"N", "S"}}
     \union (IF y1 = y2 THEN {} ELSE {<<x, y1, toward>>, <<x, y2, back>>})

\* Does a line go on at column x, or begin there?
Joined(vals, x) == x > 1 /\ vals[x - 1] # Gap

\* lineGrid.drawValues.
PlainMarks(vals, r, h) == UNION {
  IF Joined(vals, x)
  THEN Segment(x, PlainRow(vals[x - 1], r, h), PlainRow(vals[x], r, h))
  ELSE {<<x, PlainRow(vals[x], r, h), d>> : d \in {"E", "W"}} :
  x \in {c \in DOMAIN vals : vals[c] # Gap}}

\* drawLine, Bresenham's algorithm, from <<x0, y0>> to <<x1, y1>> to its right;
\* at[k] is where it is after k rounds of its loop, with the error term.
DrawLine(x0, y0, x1, y1) ==
  LET dx == x1 - x0
      dy == IF y1 > y0 THEN y0 - y1 ELSE y1 - y0
      sy == IF y0 > y1 THEN -1 ELSE 1
      Round(p) ==
        LET right == 2 * p.err >= dy
            down == 2 * p.err <= dx
        IN [x |-> IF right THEN p.x + 1 ELSE p.x, y |-> IF down THEN p.y + sy ELSE p.y,
            err |-> p.err + (IF right THEN dy ELSE 0) + (IF down THEN dx ELSE 0)]
      at[k \in 0..dx - dy] ==
        IF k = 0 THEN [x |-> x0, y |-> y0, err |-> dx + dy]
        ELSE LET p == at[k - 1] IN IF p.x = x1 /\ p.y = y1 THEN p ELSE Round(p)
  IN {<<at[k].x, at[k].y>> : k \in 0..dx - dy}

\* brailleGrid.drawValues.
DotMarks(vals, r, h) == UNION {
  IF Joined(vals, x)
  THEN DrawLine(x - 1, DotRow(vals[x - 1], r, h), x, DotRow(vals[x], r, h))
  ELSE {<<x, DotRow(vals[x], r, h)>>} :
  x \in {c \in DOMAIN vals : vals[c] # Gap}}

NewGrid(c) == [w |-> c.w, h |-> c.h, marks |-> {}]

Plot(g, vals, r, d) ==
  [g EXCEPT !.marks = IF g.w <= 0 \/ g.h <= 0 THEN {}
                      ELSE IF d THEN DotMarks(vals, r, g.h) ELSE PlainMarks(vals, r, g.h)]

\* A threshold fills a row, of connectors (fillRow) or of dots.
ThresholdMarks(v, c, r, d) ==
  IF d
  THEN LET y == ((r[2] - Clamp(v, r)) * (4 * c.h - 1)) \div (r[2] - r[1]) IN
       {<<x, y>> : x \in 1..2 * c.w}
  ELSE LET y == RowOf(v, r, c.h - 1) IN
       {<<x, y, "E">> : x \in 1..Max({1, c.w - 1})} \union {<<x, y, "W">> : x \in Min({2, c.w})..c.w}

\* buildThresholdGrids; without a canvas there are none.
ThresholdGrids(ts, c, r, d) ==
  IF c.w <= 0 \/ c.h <= 0 THEN <<>>
  ELSE [i \in DOMAIN ts |-> [NewGrid(c) EXCEPT !.marks = ThresholdMarks(ts[i], c, r, d)]]
-----------------------------------------------------------------------------
(***************************************************************************)
(* From samples to values.                                                 *)
(***************************************************************************)
WindowStart(now) == now - canvas.w * ChartResolution

\* resample: in each of cols columns, the latest value up to its end, or 0.
Resample(s, now, cols) == [col \in 1..cols |->
  LET end == WindowStart(now) + (canvas.w * ChartResolution * col) \div cols
      seen == {i \in DOMAIN s : s[i].t <= end}
  IN IF seen = {} THEN 0 ELSE s[Max(seen)].v]

\* niceCeiling of tenths / 10, at least 1: the next 1, 2 or 5 times a power of 10.
NiceCeiling(tenths) == Min({n \in Nice : tenths <= 10 * n})

\* What may be seen of s in the window that ends now, gaps left out.
InWindow(s, now) ==
  LET finite == {i \in DOMAIN s : s[i].v # Gap /\ s[i].t <= now}
      before == {i \in finite : s[i].t < WindowStart(now)}
  IN {s[i].v : i \in (finite \ before) \union (IF before = {} THEN {} ELSE {Max(before)})}

\* Mutant: a value from before the window, though it is drawn, does not count.
RangeForDraw_ForgetsHeld(names, now) ==
  LET values == UNION {{s.v : s \in {x \in ToSet(series[n]) :
                   x.v # Gap /\ WindowStart(now) <= x.t /\ x.t <= now}} :
                   n \in ToSet(names) \cap DOMAIN series}
      span == Max(values \union {YRange[1]}) - YRange[1]
  IN IF ~autoScale THEN YRange
     ELSE IF span <= 0 THEN yRange
     ELSE <<YRange[1], YRange[1] + NiceCeiling(11 * span)>>

\* yRangeForDraw: the span and a tenth of it, rounded up to a nice number.
RangeForDraw(names, now) ==
  LET values == UNION {InWindow(series[n], now) : n \in ToSet(names) \cap DOMAIN series}
      span == Max(values \union {YRange[1]}) - YRange[1]
  IN IF ~autoScale THEN YRange
     ELSE IF span <= 0 THEN yRange
     ELSE <<YRange[1], YRange[1] + NiceCeiling(11 * span)>>
-----------------------------------------------------------------------------
(***************************************************************************)
(* From grids to the picture.                                              *)
(***************************************************************************)
CellOf(m, d) == IF d THEN <<(m[1] + 1) \div 2, m[2] \div 4>> ELSE <<m[1], m[2]>>
Covered(g, d) == {CellOf(m, d) : m \in g.marks}

\* renderChart: the cells in which each series is seen.  The first of the names
\* takes a cell; in detail mode the dots of every grid are lit in it.
Render(names, c, gs, d) ==
  IF c.w <= 0 \/ c.h <= 0 THEN Empty
  ELSE [n \in DOMAIN gs |->
    IF d THEN Covered(gs[n], d)
    ELSE IF n \notin ToSet(names) THEN {}
    ELSE LET above == {names[i] : i \in 1..Min({j \in DOMAIN names : names[j] = n}) - 1} IN
         Covered(gs[n], d) \ UNION {Covered(gs[k], d) : k \in above \cap DOMAIN gs}]

\* renderYAxis, of the y axis that the screen asks for with any layout: what the
\* labels are rendered for.  Their rows depend on the mode too, which is left out.
NoLabels == [range |-> YRange, h |-> 0]
Labels(c, r) == IF c.h <= 0 THEN NoLabels ELSE [range |-> r, h |-> c.h]
-----------------------------------------------------------------------------
Canvas(size, x) ==
  [w |-> Max({Max({size[1], 1}) - 2, 0}), h |-> Max({size[2] - (IF x THEN 1 ELSE 0) - 2, 0})]

\* New; the axis is not rendered yet.
ChartInit ==
  /\ autoScale \in BOOLEAN
  /\ detailMode \in BOOLEAN
  /\ outer \in Sizes
  /\ xaxis = FALSE
  /\ canvas = Canvas(outer, FALSE)
  /\ series = Empty
  /\ grids = Empty
  /\ thresholds = <<>>
  /\ thresholdGrids = <<>>
  /\ yRange = YRange
  /\ labels = NoLabels
  /\ asked = <<>>
  /\ picture = Empty
  /\ plotted = Empty
  /\ pushes = 0

\* A sample older than the last is dropped; one of the same time replaces it.
\* trimSamples, which drops what is older than any window, is left out.
PushSample(n, t, v) ==
  LET s == IF n \in DOMAIN series THEN series[n] ELSE <<>>
      stored == IF s = <<>> \/ t > s[Len(s)].t THEN Append(s, [t |-> t, v |-> v])
                ELSE IF t = s[Len(s)].t THEN [s EXCEPT ![Len(s)].v = v] ELSE s
  IN
  /\ pushes < MaxPushes
  /\ pushes' = pushes + 1
  /\ series' = [m \in DOMAIN series \union {n} |-> IF m = n THEN stored ELSE series[m]]
  /\ UNCHANGED <<autoScale, canvas, outer, xaxis, detailMode, grids, thresholds,
                 thresholdGrids, yRange, labels, asked, picture, plotted>>

\* Setting its style makes a series.
SetSeriesStyle(n) ==
  /\ n \notin DOMAIN series
  /\ series' = [m \in DOMAIN series \union {n} |-> IF m = n THEN <<>> ELSE series[m]]
  /\ UNCHANGED <<autoScale, canvas, outer, xaxis, detailMode, grids, thresholds,
                 thresholdGrids, yRange, labels, asked, picture, plotted, pushes>>

\* Mutant: the thresholds keep the grids of the old size.
Resize_KeepsThresholds(size) ==
  /\ outer' = size
  /\ canvas' = Canvas(size, xaxis)
  /\ grids' = [n \in DOMAIN series |-> NewGrid(canvas')]
  /\ labels' = Labels(canvas', yRange)
  /\ picture' = Render(asked, canvas', grids', detailMode)
  /\ plotted' = Empty
  /\ UNCHANGED <<autoScale, series, xaxis, detailMode, thresholds, thresholdGrids, yRange, asked, pushes>>

\* Resize makes every grid anew, blank.
Resize(size) ==
  /\ outer' = size
  /\ canvas' = Canvas(size, xaxis)
  /\ grids' = [n \in DOMAIN series |-> NewGrid(canvas')]
  /\ thresholdGrids' = ThresholdGrids(thresholds, canvas', yRange, detailMode)
  /\ labels' = Labels(canvas', yRange)
  /\ picture' = Render(asked, canvas', grids', detailMode)
  /\ plotted' = Empty
  /\ UNCHANGED <<autoScale, series, xaxis, detailMode, thresholds, yRange, asked, pushes>>

\* New styles lay the chart out again.
SetStyles == Resize(outer)

\* The canvas follows with the next Resize.
EnableAxes(x) ==
  /\ x # xaxis \/ labels = NoLabels
  /\ xaxis' = x
  /\ labels' = Labels(canvas, yRange)
  /\ UNCHANGED <<autoScale, series, canvas, outer, detailMode, grids, thresholds,
                 thresholdGrids, yRange, asked, picture, plotted, pushes>>

\* The picture, and the labels, stay those of the other mode for now.
SetDetailMode(d) ==
  /\ d # detailMode
  /\ detailMode' = d
  /\ grids' = Empty
  /\ thresholdGrids' = ThresholdGrids(thresholds, canvas, yRange, d)
  /\ plotted' = Empty
  /\ UNCHANGED <<autoScale, series, canvas, outer, xaxis, thresholds, yRange, labels,
                 asked, picture, pushes>>

SetThresholds(ts) ==
  /\ ts # thresholds
  /\ thresholds' = ts
  /\ thresholdGrids' = ThresholdGrids(ts, canvas, yRange, detailMode)
  /\ UNCHANGED <<autoScale, series, canvas, outer, xaxis, detailMode, grids, yRange,
                 labels, asked, picture, plotted, pushes>>

\* Reset forgets the series; the grids keep their marks until the next draw.
ResetSeries ==
  /\ series' = Empty
  /\ UNCHANGED <<autoScale, canvas, outer, xaxis, detailMode, grids, thresholds,
                 thresholdGrids, yRange, labels, asked, picture, plotted, pushes>>

Drawable(names) ==
  {n \in ToSet(names) \cap DOMAIN series : series[n] # <<>> /\ canvas.w > 0}

Cols == IF detailMode THEN 2 * canvas.w ELSE canvas.w

\* Mutant: the grids of series that are not asked for keep their marks.
GridOf_ClearsAsked(names, n) ==
  IF n \notin DOMAIN grids THEN NewGrid(canvas)
  ELSE IF n \in ToSet(names) THEN [grids[n] EXCEPT !.marks = {}]
  ELSE grids[n]

\* The grid a draw of names starts from: cleared, or a new one.
GridOf(names, n) ==
  IF n \in DOMAIN grids THEN [grids[n] EXCEPT !.marks = {}] ELSE NewGrid(canvas)

\* Draw clears every grid, then plots the series asked for.
DrawSeries(names, time) ==
  LET now == time - (time % ChartResolution)
      r == RangeForDraw(names, now)
  IN
  /\ asked' = names
  /\ yRange' = r
  /\ IF r = yRange THEN UNCHANGED <<labels, thresholdGrids>>
     ELSE /\ labels' = Labels(canvas, r)
          /\ thresholdGrids' = ThresholdGrids(thresholds, canvas, r, detailMode)
  /\ plotted' = [n \in Drawable(names) |-> [values |-> Resample(series[n], now, Cols), range |-> r]]
  /\ grids' = [n \in DOMAIN grids \union DOMAIN plotted' |->
       IF n \in DOMAIN plotted' THEN Plot(GridOf(names, n), plotted'[n].values, r, detailMode) ELSE GridOf(names, n)]
  /\ picture' = Render(names, canvas, grids', detailMode)
  /\ UNCHANGED <<autoScale, series, canvas, outer, xaxis, detailMode, thresholds, pushes>>

ChartNext ==
  \/ \E n \in Name, t \in PushTimes, v \in Value : PushSample(n, t, v)
  \/ \E n \in Name : SetSeriesStyle(n)
  \/ \E size \in Sizes : Resize(size)
  \/ SetStyles
  \/ \E b \in BOOLEAN : EnableAxes(b) \/ SetDetailMode(b)
  \/ \E ts \in Thresholds : SetThresholds(ts)
  \/ ResetSeries
  \/ \E names \in NameLists, now \in DrawTimes : DrawSeries(names, now)

ChartSpec == ChartInit /\ [][ChartNext]_chartVars
-----------------------------------------------------------------------------
\* Every grid has the cells of the canvas, and its marks lie in them: the render
\* loops, which index the grids by the canvas, never leave them.
ChartTypeOK ==
  LET InCanvas(m) == CellOf(m, detailMode) \in (1..canvas.w) \X (0..canvas.h - 1)
      Fits(g) == g.w = canvas.w /\ g.h = canvas.h /\ \A m \in g.marks : InCanvas(m)
  IN
  /\ DOMAIN series \subseteq Name
  /\ \A n \in DOMAIN grids : Fits(grids[n])
  /\ \A i \in DOMAIN thresholdGrids : Fits(thresholdGrids[i])
  /\ thresholdGrids = <<>> \/ Len(thresholdGrids) = Len(thresholds)
  /\ asked \in NameLists \union {<<>>}

\* A line tells its values and nothing else.  A column holds the way from the row
\* of the value before to that of its own, without a hole, and is empty at a gap;
\* connectors meet; a higher value is not lower; with three rows, the last and
\* the first are only for values at the ends of the range (drawValues of both
\* grids, drawSegment, drawLine).
LineTells == \A n \in DOMAIN plotted :
  LET vals == plotted[n].values
      r == plotted[n].range
      h == canvas.h
      marks == grids[n].marks
      Row(x) == IF detailMode THEN DotRow(vals[x], r, h) ELSE PlainRow(vals[x], r, h)
      First(x) == IF Joined(vals, x) THEN Row(x - 1) ELSE Row(x)
      Way(x) == Min({First(x), Row(x)})..Max({First(x), Row(x)})
      In(x) == {m[2] : m \in {k \in marks : k[1] = x}}
      Shown == {x \in DOMAIN vals : vals[x] # Gap}
      At(x, y, d) == <<x, y, d>> \in marks
  IN h > 0 =>
  /\ \A x \in DOMAIN vals \ Shown : In(x) = {}
  /\ \A x, z \in Shown : vals[x] <= vals[z] => Row(x) >= Row(z)
  /\ detailMode => \A x \in Shown :
       /\ Row(x) \in In(x)
       /\ Joined(vals, x) => Way(x) \subseteq In(x - 1) \union In(x)
       /\ In(x) \subseteq Way(x) \union (IF x + 1 \in Shown THEN Way(x + 1) ELSE {})
  /\ ~detailMode => \A x \in Shown :
       /\ In(x) = Way(x)
       /\ \A y \in In(x) :
            /\ At(x, y, "N") <=> At(x, y - 1, "S")
            /\ Joined(vals, x) => (At(x, y, "W") <=> At(x - 1, y, "E"))
       /\ h >= 3 /\ Row(x) = h - 1 => 200 * (vals[x] - r[1]) <= r[2] - r[1]
       /\ h >= 3 /\ Row(x) = 0 => 200 * (r[2] - vals[x]) <= r[2] - r[1]

\* Lines, thresholds and labels are drawn on one scale, and an automatic one
\* holds every value there is to see, whatever was resized, rescaled or switched
\* between two draws.  Only the labels may be those of the other mode, until the
\* next layout or change of range (yRangeForDraw, buildThresholdGrids,
\* renderYAxis).
OneScale ==
  /\ thresholdGrids = ThresholdGrids(thresholds, canvas, yRange, detailMode)
  /\ labels = NoLabels \/ (labels.range = yRange /\ labels.h = canvas.h)
  /\ \A n \in DOMAIN plotted :
       /\ plotted[n].range = yRange
       /\ autoScale => \A x \in DOMAIN plotted[n].values :
            plotted[n].values[x] # Gap => plotted[n].values[x] <= yRange[2]

\* The picture shows the series last asked for and no other, and shows each of
\* their cells, under its own name or that of a series further up.  What is left
\* in the grids of a series that was switched off is not seen (Draw, renderChart).
OnlyAsked ==
  LET seen(n) == IF n \in DOMAIN picture THEN picture[n] ELSE {} IN
  /\ \A n \in Name : seen(n) # {} => n \in ToSet(asked)
  /\ \A n \in DOMAIN plotted :
       canvas.h > 0 => Covered(grids[n], detailMode) \subseteq UNION {seen(k) : k \in ToSet(asked)}
=============================================================================
