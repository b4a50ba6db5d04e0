----------------------------- MODULE SliFigures -----------------------------
(***************************************************************************)
(* The figures of the derived SLA from its intervals (sli/engine.ts,       *)
(* coveredFromTrends, the gaps of icmpCoverage, the loop over the hosts of *)
(* computeSli, buildWanPaths), for two hosts that are the legs of one WAN  *)
(* path.  What is asked are the hosts' problem intervals, planned          *)
(* maintenance, declared spans and collected hours, as lists in any order. *)
(*                                                                         *)
(* A percentage stays the pair it is computed from, <<seconds up, seconds  *)
(* measured>>.  Left out: the hour not yet in the trends, the report's     *)
(* groups (plain means) and order.                                         *)
(***************************************************************************)
EXTENDS Intervals

CONSTANTS
  Lists,        \* lists of intervals
  Hours,        \* sets of hour marks in which a host collected data
  HourLength,
  From, Until,  \* the window, from to min(to, now)
  MinCoverage   \* SLA_MIN_COVERAGE, in percent

\* An hour's mark is the second it begins with, on the clock.
ASSUME FigureAssumption ==
  /\ Lists \subseteq Seq(Int \X Int)
  /\ From \in Nat /\ Until \in Nat /\ From <= Until
  /\ HourLength \in Nat \ {0}
  /\ IsFiniteSet(UNION Hours)
  /\ \A t \in UNION Hours : t \in Nat /\ \E n \in 0..t : t = n * HourLength

Host == {"legA", "legB"}

VARIABLES asked, figures
figureVars == <<asked, figures>>

Window == Until - From
HourFloor(t) == (t \div HourLength) * HourLength

Declared == Merged(Clipped(asked.declared, From, Until))
OutsideDeclared == Complement(Declared, From, Until)

\* coveredFromTrends, then icmpCoverage's last step.
Collected(h) ==
  LET marks == asked.collected[h]
      hours == KeptEntries([t \in marks |-> <<t, t + HourLength>>], marks)
  IN Intersected(Intersected(hours, <<<<From, Until>>>>), OutsideDeclared)

\* Hours in which (of few hosts) none collected, when any did.
Gaps(collected) ==
  LET active == {h \in Host : collected[h] # <<>>}
      mark(n) == HourFloor(From) + (n - 1) * HourLength
      hour(n) == <<Greater(mark(n), From), Lesser(mark(n) + HourLength, Until)>>
      hours == [n \in 1..((Until - HourFloor(From)) + HourLength - 1) \div HourLength |-> hour(n)]
      silent == KeptEntries(hours, {n \in 1..Len(hours) :
                  \A h \in active : Intersected(collected[h], <<hours[n]>>) = <<>>})
  IN IF active = {} THEN <<>> ELSE Intersected(Merged(silent), OutsideDeclared)

EstateSeconds(gaps) ==
  Greater(0, Window - (IF asked.strict THEN TotalSeconds(gaps) + TotalSeconds(Declared) ELSE 0))

-----------------------------------------------------------------------------
(* A host.                                                                 *)

Planned(h) == Clipped(asked.planned[h], From, Until)
OutsidePlanned(h) == Complement(Planned(h), From, Until)

Covered(h, collected) ==
  IF asked.strict THEN Intersected(collected, OutsidePlanned(h)) ELSE OutsidePlanned(h)

Measured(h, covered) == Intersected(Intersected(Merged(asked.down[h]), covered), OutsideDeclared)

NoFigure == <<>>
Figure(down, whole) == IF whole <= 0 THEN NoFigure ELSE <<Greater(0, whole - down), whole>>

FigureRow(down, covered, planned, longest, estate) ==
  LET measurable == Window - planned
      nodata == asked.strict /\ (covered = 0 \/ 100 * covered < MinCoverage * measurable)
  IN [downtime |-> down, covered |-> covered, maintenance |-> planned, longest |-> longest,
      sli |-> IF nodata THEN NoFigure ELSE Figure(down, IF asked.strict THEN covered ELSE measurable),
      status |-> IF nodata THEN "nodata"
                 ELSE IF asked.strict /\ 100 * covered < 95 * Greater(0, estate - planned)
                 THEN "partial" ELSE "ok"]

HostFigures(h, covered, measured, estate) ==
  FigureRow(TotalSeconds(measured), TotalSeconds(covered), TotalSeconds(Planned(h)),
          Longest(measured), estate)

\* buildWanPaths: down while every leg is.
PathFigures(legs, covered, measured) ==
  LET down == TotalSeconds(Intersected(measured["legA"], measured["legB"]))
      whole == IF asked.strict
               THEN TotalSeconds(Intersected(covered["legA"], covered["legB"])) ELSE Window
      nodata == \E h \in Host : legs[h].status = "nodata"
  IN [downtime |-> down, sli |-> IF nodata THEN NoFigure ELSE Figure(down, whole)]

WithPath(legs, covered, measured) == [legs |-> legs, path |-> PathFigures(legs, covered, measured)]

AllFigures(covered, measured, estate) ==
  WithPath([h \in Host |-> HostFigures(h, covered[h], measured[h], estate)], covered, measured)

FiguresOf(covered, estate) ==
  AllFigures(covered, [h \in Host |-> Measured(h, covered[h])], estate)

-----------------------------------------------------------------------------
NoFigures == [legs |-> <<>>, path |-> <<>>]

\* Bound: the second leg has no maintenance and collects in every hour.
FigureInit ==
  /\ asked \in [strict : BOOLEAN,
                down : [Host -> Lists],
                planned : {[h \in Host |-> IF h = "legA" THEN l ELSE <<>>] : l \in Lists},
                collected : {[h \in Host |-> IF h = "legA" THEN s ELSE UNION Hours] : s \in Hours},
                declared : Lists]
  /\ figures = NoFigures

ComputeFigures ==
  /\ figures = NoFigures
  /\ LET collected == [h \in Host |-> Collected(h)]
     IN figures' = FiguresOf([h \in Host |-> Covered(h, collected[h])],
                             EstateSeconds(Gaps(collected)))
  /\ UNCHANGED asked

FigureSpec == FigureInit /\ [][ComputeFigures]_figureVars

-----------------------------------------------------------------------------
In(ivs) == Seconds(ivs) \cap (From..Until - 1)
CollectedSeconds(h) ==
  {s \in From..Until - 1 : HourFloor(s) \in asked.collected[h]} \ In(asked.declared)
MeasuredSeconds(h) ==
  (IF asked.strict THEN CollectedSeconds(h) ELSE From..Until - 1) \ In(asked.planned[h])
DownSeconds(h) == (In(asked.down[h]) \cap MeasuredSeconds(h)) \ In(asked.declared)

\* The figures of a host, and of the path its downtime, are counts of seconds,
\* each once, whatever order the lists are in and however they overlap, touch or
\* leave the window (intervals.ts:3-5: "a mistake does not throw: it produces a
\* plausible percentage").  Downtime is
\* never more than what was measured, and a host that collected whenever the
\* estate did is not called partial.
FiguresExact ==
  figures # NoFigures =>
    /\ \A h \in Host :
         LET f == figures.legs[h] IN
         /\ f.downtime = Cardinality(DownSeconds(h))
         /\ f.covered = Cardinality(MeasuredSeconds(h))
         /\ f.maintenance = Cardinality(In(asked.planned[h]))
         /\ f.downtime <= f.covered
         /\ \A a, b \in From..Until - 1 :
              a..b \subseteq DownSeconds(h) => b - a + 1 <= f.longest
         /\ f.sli # NoFigure => f.sli = <<f.covered - f.downtime, f.covered>>
         /\ f.status = "partial" =>
              \E s \in (From..Until - 1) \ In(asked.declared) :
                \E g \in Host : s \in CollectedSeconds(g) \ CollectedSeconds(h)
    /\ figures.path.downtime = Cardinality(DownSeconds("legA") \cap DownSeconds("legB"))
=============================================================================
