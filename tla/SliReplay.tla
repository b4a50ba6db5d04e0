------------------------------ MODULE SliReplay ------------------------------
(***************************************************************************)
(* How the derived SLA learns when a trigger was in problem (sli/engine.ts,*)
(* computeSli up to the intervals of one trigger).  It fixes `now', then   *)
(* reads the triggers as they are, then the events of the window, then,    *)
(* for a trigger without any that changed later, the first event after the *)
(* window.  Zabbix goes on meanwhile.                                      *)
(*                                                                         *)
(* `problem' is the trigger's state in each second so far, its last entry  *)
(* the present one.  An event is a change (the trigger generates one event *)
(* per problem), and Zabbix has it from the second it carries.             *)
(***************************************************************************)
EXTENDS Intervals

CONSTANTS
  Spans,          \* the spans of firstEventsAfter, 7 to 400 days
  EventsKept,     \* how far back a window may begin: 400 days
  MaxSeconds      \* bound on the history

\* The last span is as long as the history a window may ask for.
ASSUME SpanAssumption ==
  /\ Spans \in Seq(Nat) /\ Spans # <<>>
  /\ EventsKept \in Nat /\ Last(Spans) >= EventsKept

VARIABLES
  problem,
  job        \* [stage, strict, from, to, now, value, lastchange, initial, down]

sliVars == <<problem, job>>

Changes(lo, hi) == {c \in Greater(lo, 2)..Lesser(hi, Len(problem)) : problem[c] # problem[c - 1]}

\* event.get over lo..hi, ascending.
Events(lo, hi) ==
  KeptEntries([c \in 1..Len(problem) |-> [clock |-> c, value |-> problem[c]]], Changes(lo, hi))

End == Lesser(job.to, job.now)
Closed == job.to <= job.now
\* HCML's report clips a problem open at month end to the last second.
EndClip == IF ~job.strict /\ Closed THEN job.to - 1 ELSE End

\* firstEventsAfter: span by span up to now.
\*
\* Fault: a span begins after the second the next begins with.
LookOn_Gap(last, span) ==
  LET till == Lesser(job.now, last.start + span)
  IN IF last.found # <<>> \/ last.start > job.now THEN last
     ELSE [start |-> till + 2, found |-> Events(last.start, till)]

LookOn(last, span) ==
  LET till == Lesser(job.now, last.start + span)
  IN IF last.found # <<>> \/ last.start > job.now THEN last
     ELSE [start |-> till + 1, found |-> Events(last.start, till)]

FirstAfter == FoldLeft(LookOn, [start |-> End, found |-> <<>>], Spans).found

\* initialState
Initial(evs, later) ==
  IF evs # <<>> THEN ~evs[1].value
  ELSE IF job.lastchange < End \/ later = <<>> THEN job.value
  ELSE ~later[1].value

\* intervalsFor, its intervals: what an event makes of those before it, and all.
Replaying(acc, ev) ==
  IF ev.clock < job.from \/ ev.clock > EndClip THEN acc
  ELSE IF ev.value THEN [acc EXCEPT !.open = IF @ = 0 THEN ev.clock ELSE @]
  ELSE IF acc.open = 0 THEN acc
  ELSE [open |-> 0, out |-> acc.out \o Span(acc.open, ev.clock)]

Replayed(evs, initial) ==
  LET all == FoldLeft(Replaying, [open |-> IF initial THEN job.from ELSE 0, out |-> <<>>], evs)
  IN IF all.open = 0 THEN all.out ELSE all.out \o Span(all.open, EndClip)

-----------------------------------------------------------------------------
NoJob == [stage |-> "idle", strict |-> FALSE, from |-> 0, to |-> 0, now |-> 0, value |-> FALSE,
          lastchange |-> 0, initial |-> FALSE, down |-> <<>>]

ZabbixGoesOn(b) ==
  /\ Len(problem) < MaxSeconds
  /\ problem' = Append(problem, b)
  /\ UNCHANGED job

\* The window may not have ended; one that has not begun is refused, and one
\* of which Zabbix may have forgotten the events.
AskFor(from, to, strict) ==
  /\ job.stage = "idle"
  /\ from < to /\ from <= Len(problem) /\ from >= Len(problem) - EventsKept
  /\ job' = [NoJob EXCEPT !.stage = "asked", !.strict = strict, !.from = from, !.to = to,
                          !.now = Len(problem)]
  /\ UNCHANGED problem

\* trigger.get
ReadTrigger ==
  /\ job.stage = "asked"
  /\ LET clocks == Changes(2, Len(problem))
     IN job' = [job EXCEPT !.stage = "read", !.value = Last(problem),
                  !.lastchange = IF clocks = {} THEN 0 ELSE CHOOSE c \in clocks : \A d \in clocks : d <= c]
  /\ UNCHANGED problem

ReadEvents ==
  /\ job.stage = "read"
  /\ LET evs == Events(job.from, End - 1)
         later == IF evs = <<>> /\ job.lastchange >= End THEN FirstAfter ELSE <<>>
         initial == Initial(evs, later)
     IN job' = [job EXCEPT !.stage = "answered", !.initial = initial, !.down = Replayed(evs, initial)]
  /\ UNCHANGED problem

SliInit == problem \in {<<FALSE>>, <<TRUE>>} /\ job = NoJob

SliNext ==
  \/ \E b \in BOOLEAN : ZabbixGoesOn(b)
  \/ \E from \in 2..MaxSeconds, to \in 3..MaxSeconds + 1, strict \in BOOLEAN : AskFor(from, to, strict)
  \/ ReadTrigger
  \/ ReadEvents

SliSpec == SliInit /\ [][SliNext]_sliVars

-----------------------------------------------------------------------------
\* The trigger changed for the first time since the window opened, and did so
\* after `now' but before it was read.
ChangedUnseen == job.lastchange > job.now /\ Changes(job.from, job.now) = {}

\* The intervals are the seconds the trigger was in problem, all of them and no
\* other, for a window that has ended as for one under way, whatever changed
\* while it was computed (engine.ts, initialState and intervalsFor); but for
\* ChangedUnseen.
ReplayExact ==
  job.stage = "answered" /\ ~ChangedUnseen =>
    Seconds(job.down) = {s \in job.from..EndClip - 1 : problem[s]}

\* "The state a trigger was in when the window opened" (engine.ts:196,
\* initialState), for a window that has begun.
OpensAsItWas ==
  job.stage = "answered" /\ job.from < End => job.initial = problem[job.from - 1]
=============================================================================
