------------------------------- MODULE SliFetch -------------------------------
(***************************************************************************)
(* Reading a long history in requests that fit (sli/events.ts): events by  *)
(* halving the window until no page is full, trends by cutting items and   *)
(* hours beforehand.  Zabbix is external: event.get gives the events of an *)
(* inclusive window in order, no more than the limit.                      *)
(***************************************************************************)
EXTENDS Integers, Sequences, FiniteSets, SequencesExt

CONSTANTS
  Clocks,         \* the seconds of the history, 0..Last
  MaxPerSecond,   \* bound: events in one second
  PageLimit, MinSliceSeconds,
  MaxItems,       \* bound: items of a trend request
  RowLimits,      \* values of maxRows
  MinItems,       \* TREND_MIN_ITEMS
  Mark            \* 3600

ASSUME FetchAssumption ==
  /\ IsFiniteSet(Clocks) /\ Clocks = 0..Cardinality(Clocks) - 1
  /\ PageLimit \in Nat \ {0} /\ MinSliceSeconds \in Nat \ {0} /\ Mark \in Nat \ {0}
  /\ MinItems \in Nat \ {0} /\ RowLimits \subseteq {rows \in Nat : rows >= MinItems}
  /\ MaxPerSecond \in Nat /\ MaxItems \in Nat

VARIABLES
  wanted,    \* what is asked for
  gotten     \* <<the answer>>, once there is one
fetchVars == <<wanted, gotten>>

AtMost(a, b) == IF a < b THEN a ELSE b
AtLeast(a, b) == IF a < b THEN b ELSE a
DivUp(a, b) == (a + b - 1) \div b

\* event.get without its limit: <<clock, number within the second>>.
EventsOf(lo, hi) ==
  LET seconds == [n \in 1..AtLeast(0, hi - lo + 1) |-> lo + n - 1]
      of(s) == [n \in 1..wanted.density[s] |-> <<s, n>>]
  IN FlattenSeq([n \in 1..Len(seconds) |-> of(seconds[n])])

\* A full page is never taken for an answer.
\*
\* Fault: it is when it holds no more than a page.
FullPage_Exceeded(rows) == Len(rows) > PageLimit

FullPage(rows) == Len(rows) >= PageLimit

\* fetchEventsSliced: the rows, or none of them and not ok.
TooDense == [ok |-> FALSE, rows |-> <<>>]
Both(first, second) ==
  IF first.ok /\ second.ok THEN [ok |-> TRUE, rows |-> first.rows \o second.rows] ELSE TooDense

\* One request of it, and the halves when its page is full.
SliceOf(lo, hi, sliced) ==
  LET page == EventsOf(lo, hi)
      rows == SubSeq(page, 1, AtMost(PageLimit, Len(page)))
      mid == (lo + hi) \div 2
  IN IF ~FullPage(rows) THEN [ok |-> TRUE, rows |-> rows]
     ELSE IF hi - lo < MinSliceSeconds THEN TooDense
     ELSE Both(sliced[<<lo, mid>>], sliced[<<mid + 1, hi>>])

Sliced(from, to) ==
  LET sliced[w \in Clocks \X Clocks] == SliceOf(w[1], w[2], sliced)
  IN IF to < from THEN [ok |-> TRUE, rows |-> <<>>] ELSE sliced[<<from, to>>]

\* hourMarks
MarksIn(lo, hi) == AtLeast(0, (hi \div Mark) - DivUp(lo, Mark) + 1)

\* The windows of trendSlices: the first ends before the mark `hours' marks in.
Windows(lo, hi, hours) ==
  LET first == DivUp(lo, Mark) * Mark + hours * Mark
      start(n) == IF n = 1 THEN lo ELSE first + (n - 2) * hours * Mark
  IN {[from |-> start(n), to |-> AtMost(hi, first + (n - 1) * hours * Mark - 1)] :
        n \in {m \in 1..hi - lo + 1 : start(m) <= hi}}

\* chunk: items 1..count as [first, last].
Chunks(count, size) ==
  {[first |-> (n - 1) * size + 1, last |-> AtMost(count, n * size)] : n \in 1..DivUp(count, size)}

\* trendSlices
TrendSlices(count, lo, hi, maxRows) ==
  IF count = 0 \/ hi < lo THEN {}
  ELSE LET marks == AtLeast(1, MarksIn(lo, hi))
           perRequest == AtMost(count, AtLeast(MinItems, maxRows \div marks))
           hours == AtLeast(1, maxRows \div perRequest)
           windows == IF marks <= hours THEN {[from |-> lo, to |-> hi]} ELSE Windows(lo, hi, hours)
       IN {[first |-> c.first, last |-> c.last, from |-> w.from, to |-> w.to] :
           c \in Chunks(count, perRequest), w \in windows}

-----------------------------------------------------------------------------
FetchInit ==
  /\ gotten = <<>>
  /\ \E lo, hi \in Clocks :
       \/ \E d \in [Clocks -> 0..MaxPerSecond] :
            /\ lo \in {0, 1}
            /\ wanted = [what |-> "events", from |-> lo, to |-> hi, density |-> d]
       \/ \E n \in 0..MaxItems, m \in RowLimits :
            wanted = [what |-> "trends", from |-> lo, to |-> hi, items |-> n, maxRows |-> m]

ReadHistory ==
  /\ wanted.what = "events" /\ gotten = <<>>
  /\ gotten' = <<Sliced(wanted.from, wanted.to)>>
  /\ UNCHANGED wanted

ReadTrends ==
  /\ wanted.what = "trends" /\ gotten = <<>>
  /\ gotten' = <<TrendSlices(wanted.items, wanted.from, wanted.to, wanted.maxRows)>>
  /\ UNCHANGED wanted

FetchNext == ReadHistory \/ ReadTrends

FetchSpec == FetchInit /\ [][FetchNext]_fetchVars

-----------------------------------------------------------------------------
\* "In ascending clock order, every event exactly once", or an error when so
\* few seconds hold a page that no slice can be told to fit.
EveryEvent(answer) ==
  \/ answer.ok /\ answer.rows = EventsOf(wanted.from, wanted.to)
  \/ /\ ~answer.ok
     /\ \E lo, hi \in wanted.from..wanted.to :
          hi - lo < MinSliceSeconds /\ Len(EventsOf(lo, hi)) >= PageLimit

\* Every item's row of every hour in exactly one request, none of more rows
\* than allowed.
EveryRow(slices) ==
  /\ \A i \in 1..wanted.items, t \in wanted.from..wanted.to :
       t % Mark = 0 => Cardinality({s \in slices : i \in s.first..s.last /\ t \in s.from..s.to}) = 1
  /\ \A s \in slices : (s.last - s.first + 1) * MarksIn(s.from, s.to) <= wanted.maxRows

\* Nothing that was asked for is lost, cut off or read twice, however dense the
\* history and wherever the cuts fall (events.ts, fetchEventsSliced and
\* trendSlices).
ReadOnce ==
  gotten # <<>> =>
    /\ wanted.what = "events" => EveryEvent(gotten[1])
    /\ wanted.what = "trends" => EveryRow(gotten[1])
=============================================================================
