----------------------------- MODULE GraphPoints -----------------------------
(***************************************************************************)
(* The points of a graph (services/history.ts): raw history for a day or   *)
(* less, else hourly trends topped up with history where trends stop, then *)
(* folded into equal buckets with a null where nothing was collected.      *)
(*                                                                         *)
(* A reading is its clock; a sample or a point stands for the set of       *)
(* readings it is the mean, minimum and maximum of, and the number it is   *)
(* weighed with.  A point's time is in parts of a second, 2 * points of    *)
(* them.  Left out: values, what makes a series a step, and statistics,    *)
(* which are of the same samples.                                          *)
(***************************************************************************)
EXTENDS Integers, Sequences, FiniteSets, SequencesExt, FiniteSetsExt

CONSTANTS
  Kinds,       \* what may be asked for: see GraphInit
  RowSpan,     \* 3600
  LongRange,   \* DAY
  FillWindow,  \* HISTORY_FILL_WINDOW
  Clock        \* now

VARIABLES graph,   \* what is asked for, and what Zabbix has of it
          drawn    \* <<the points>>, once there are some
graphVars == <<graph, drawn>>

UseTrends == graph.to - graph.from > LongRange
RowOf(clock) == (clock \div RowSpan) * RowSpan

Sorted(clocks) ==
  IF clocks = {} THEN <<>>
  ELSE SelectSeq([n \in 1..Max(clocks) + 1 |-> n - 1], LAMBDA c : c \in clocks)

\* history.get, and historySample.
HistorySamples(lo, hi) ==
  LET clocks == Sorted({c \in graph.readings : c \in lo..hi})
  IN [n \in 1..Len(clocks) |-> [clock |-> clocks[n], of |-> {clocks[n]}, num |-> 1, trend |-> FALSE]]

\* trend.get: a row for each hour with readings, up to where trends stop.
TrendSamples ==
  LET of(mark) == {c \in graph.readings : RowOf(c) = mark}
      marks == Sorted({m \in graph.from..graph.to - 1 :
                         m = RowOf(m) /\ m < graph.trendsEnd /\ of(m) # {}})
  IN [n \in 1..Len(marks) |->
        [clock |-> marks[n], of |-> of(marks[n]), num |-> Cardinality(of(marks[n])), trend |-> TRUE]]

\* Where history takes over.
\*
\* Fault: at the last row, not after its hour.
FillFrom_LastRow(rows) ==
  Max({graph.from, Clock - FillWindow, IF rows = <<>> THEN graph.from ELSE Last(rows).clock})

FillFrom(rows) ==
  Max({graph.from, Clock - FillWindow,
       IF rows = <<>> THEN graph.from ELSE Last(rows).clock + RowSpan})

Samples ==
  IF ~UseTrends THEN HistorySamples(graph.from, graph.to - 1)
  ELSE LET rows == TrendSamples IN rows \o HistorySamples(FillFrom(rows), graph.to - 1)

\* median, of the spaces between samples.
Spacing(samples) ==
  LET spaces == [n \in 1..Len(samples) - 1 |-> samples[n + 1].clock - samples[n].clock]
      below(v) == Cardinality({n \in 1..Len(spaces) : spaces[n] < v})
      upTo(v) == Cardinality({n \in 1..Len(spaces) : spaces[n] <= v})
      middle == Len(spaces) \div 2
  IN IF spaces = <<>> THEN 0
     ELSE CHOOSE v \in {spaces[n] : n \in 1..Len(spaces)} : below(v) <= middle /\ middle < upTo(v)

EffectiveDelay(samples) ==
  IF graph.delay # 0 THEN graph.delay ELSE Spacing(SelectSeq(samples, LAMBDA s : ~s.trend))

\* baseExpected
Expected(samples) ==
  LET delay == EffectiveDelay(samples)
  IN Max({IF delay # 0 THEN delay ELSE Spacing(samples),
          IF \E n \in 1..Len(samples) : samples[n].trend THEN RowSpan ELSE 0})

-----------------------------------------------------------------------------
(* shapeSeries                                                             *)

Unit == 2 * graph.points
Width == 2 * (graph.to - graph.from)      \* of a bucket, in units

Null(at) == [at |-> at, of |-> {}, num |-> 0]

\* withGaps
WithGaps(points, expected) ==
  FoldLeft(LAMBDA out, p :
             IF out # <<>> /\ p.at - Last(out).at > 3 * expected
             THEN out \o <<Null((Last(out).at + p.at) \div 2), p>>
             ELSE Append(out, p),
           <<>>, points)

AsTheyAre(samples) ==
  [n \in 1..Len(samples) |-> [at |-> samples[n].clock * Unit, of |-> samples[n].of, num |-> samples[n].num]]

Bucket(s) == Min({graph.points - 1, Max({0, ((s.clock - graph.from) * Unit) \div Width})})

Bucketed(samples) ==
  LET filled == Sorted({Bucket(samples[n]) : n \in 1..Len(samples)})
      in(i) == SelectSeq(samples, LAMBDA s : Bucket(s) = i)
  IN [n \in 1..Len(filled) |->
        FoldLeft(LAMBDA p, s : [p EXCEPT !.of = @ \cup s.of, !.num = @ + s.num],
                 Null(graph.from * Unit + filled[n] * Width + Width \div 2), in(filled[n]))]

\* Between buckets a gap is never less than a bucket's width.
Gap(samples) == Max({Expected(samples) * Unit, Width})

Raw(samples) == WithGaps(AsTheyAre(samples), Expected(samples) * Unit)
Fit(samples) == Len(samples) <= graph.points /\ Len(Raw(samples)) <= graph.points

Shaped(samples) ==
  IF Fit(samples) THEN Raw(samples) ELSE WithGaps(Bucketed(samples), Gap(samples))

-----------------------------------------------------------------------------
\* Trends are of whole hours that are over, and history is kept for longer than
\* it has to stand in for trends.
GraphInit ==
  /\ \E window \in Kinds.windows, points \in Kinds.points, delay \in Kinds.delays,
        readings \in Kinds.readings, stop \in Kinds.trendsEnd :
       graph = [from |-> window[1], to |-> window[2], points |-> points, delay |-> delay,
                readings |-> readings, trendsEnd |-> stop]
  /\ drawn = <<>>

Draw ==
  /\ drawn = <<>>
  /\ drawn' = <<Shaped(Samples)>>
  /\ UNCHANGED graph

GraphSpec == GraphInit /\ [][Draw]_graphVars

-----------------------------------------------------------------------------
\* What there is to draw.
Due ==
  IF ~UseTrends THEN graph.readings \cap (graph.from..graph.to - 1)
  ELSE {c \in graph.readings : RowOf(c) \in graph.from..graph.to - 1 /\ c < graph.trendsEnd}
       \cup {c \in graph.readings \cap (graph.from..graph.to - 1) :
               c >= graph.trendsEnd /\ c >= Clock - FillWindow}

\* What points may be apart, and how far a reading may lie from the time of its
\* point: a trend row is drawn at the start of its hour, a bucket at its middle.
Apart == IF Fit(Samples) THEN Expected(Samples) * Unit ELSE Gap(Samples)
Blur == (IF Fit(Samples) THEN 0 ELSE Width) + (IF UseTrends THEN (RowSpan - 1) * Unit ELSE 0)

Silence(p, q) == (Min(q.of) - Max(p.of)) * Unit

\* "Everything is bucketed down to at most `points` per series" (history.ts:238),
\* the nulls of its gaps included; every reading that is kept of the range is
\* in one point and weighs once, also where trends end in the middle of it;
\* points are in order and inside the range.  "Wherever two neighbouring points are
\* further apart than 3x the expected spacing a null is inserted" (:104), which
\* says of the readings: a line is drawn across a silence of three intervals, of
\* the item, the trends or the buckets, and no more than the width of a bucket and
\* the length of a trend row on top; and it breaks only where nothing was
\* collected for longer than such an interval.
GraphFaithful ==
  drawn # <<>> =>
    LET points == drawn[1]
        shown == UNION {points[n].of : n \in 1..Len(points)}
    IN /\ Len(points) <= graph.points
       /\ Due \subseteq shown
       /\ shown \subseteq Due \cup (graph.readings \cap (graph.from..graph.to - 1))
       /\ FoldLeft(LAMBDA n, p : n + p.num, 0, points) = Cardinality(shown)
       /\ \A n \in 1..Len(points) - 1 : points[n].at < points[n + 1].at
       /\ \A n \in 1..Len(points) : points[n].at \in graph.from * Unit..graph.to * Unit
       /\ \A n \in 1..Len(points) - 1 :
            points[n].of # {} /\ points[n + 1].of # {} =>
              Silence(points[n], points[n + 1]) <= 3 * Apart + Blur
       /\ \A n \in 1..Len(points) :
            points[n].of = {} => Silence(points[n - 1], points[n + 1]) > Apart
=============================================================================
