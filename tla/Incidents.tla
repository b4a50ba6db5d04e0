------------------------------ MODULE Incidents ------------------------------
(***************************************************************************)
(* The any-problem availability report and the alert-noise report, from    *)
(* the events Zabbix holds (services/incidents.ts, availability.ts and     *)
(* noise.ts): four reads at once, of a Zabbix that goes on raising and     *)
(* resolving problems, then the lookups of outages older than the          *)
(* look-back.                                                              *)
(*                                                                         *)
(* A problem and its recovery share an id, <<trigger, number>>.  One       *)
(* problem of a trigger is open at a time and keeps its severity.  Slices  *)
(* are SliFetch's; acknowledgements, medians and order are left out.       *)
(***************************************************************************)
EXTENDS Intervals

CONSTANTS
  Trigger,
  OnHost,        \* hosts
  Placings,      \* the host a trigger is of, by trigger
  Histories,     \* what may have happened to a trigger before the report
  WindowStart, CutAt, ReportTime,  \* the window is from WindowStart to one of CutAt
                 \* (a past month) and ReportTime (now)
  LookBack,      \* OPEN_AT_START_LOOKBACK
  Lookups,       \* LONG_OUTAGE_LOOKUPS
  NotMeasured,   \* SLA_NO_DATA_WINDOWS
  Chronic        \* CHRONIC_SECONDS

StillOpen == -1                 \* ended: still open

\* Of a trigger, in order: <<began, ended, recovery lost>>.
OutageList(h) ==
  /\ h \in Seq(Nat \X (Nat \cup {StillOpen}) \X BOOLEAN)
  /\ \A n \in 1..Len(h) :
       /\ h[n][1] <= ReportTime
       /\ h[n][2] = StillOpen => n = Len(h) /\ ~h[n][3]
       /\ h[n][2] # StillOpen => h[n][1] <= h[n][2] /\ h[n][2] <= ReportTime
       /\ \A m \in 1..n - 1 : h[m][2] <= h[n][1]

ASSUME IncidentAssumption ==
  /\ IsFiniteSet(Trigger) /\ \A h \in Histories : OutageList(h)
  /\ LookBack \in Nat /\ WindowStart \in Nat /\ CutAt \in Nat /\ ReportTime \in Nat
  /\ LookBack <= WindowStart /\ WindowStart < CutAt /\ CutAt < ReportTime
  /\ Lookups \in Nat /\ Chronic \in Nat
  /\ NotMeasured \in Seq(Int \X Int)

VARIABLES
  outages,    \* Zabbix: by trigger, its OutageList
  hostOf, severe,   \* Zabbix: its triggers' hosts, those at the floor or above
  till,       \* the end of the window
  reads,      \* by read, <<what it has given>>
  report

incidentVars == <<outages, hostOf, severe, till, reads, report>>

NotYetRead == <<>>
NoReport == <<>>
ReadNames == {"inWindow", "before", "openIds", "older", "recoveries"}
LookFrom == WindowStart - LookBack

Outage(id) == outages[id[1]][id[2]]
Ids == UNION {{<<t, n>> : n \in 1..Len(outages[t])} : t \in Trigger}

\* A PROBLEM event as it is now: r_eventid is there once there is a recovery.
Event(id) == [id |-> id, clock |-> Outage(id)[1], resolved |-> Outage(id)[2] # StillOpen]

\* event.get of PROBLEM events, at the floor or above, in a window.
ProblemsFrom(lo, hi) == {Event(id) : id \in {i \in Ids : i[1] \in severe /\ Outage(i)[1] \in lo..hi}}

\* event.get of recovery events: no floor, and the lost are not there.
Recovery(id) == [id |-> id, clock |-> Outage(id)[2]]
HasRecovery(id) == Outage(id)[2] # StillOpen /\ ~Outage(id)[3]
RecoveriesFrom(lo, hi) == {Recovery(id) : id \in {i \in Ids : HasRecovery(i) /\ Outage(i)[2] \in lo..hi}}

-----------------------------------------------------------------------------
(* The reads of fetchIncidents and, of stillOpenBefore, the two in turn.   *)

Answer(read) == reads[read][1]

Got(read, answer) ==
  /\ reads[read] = NotYetRead
  /\ reads' = [reads EXCEPT ![read] = <<answer>>]
  /\ UNCHANGED <<outages, hostOf, severe, till, report>>

ReadWindow == Got("inWindow", ProblemsFrom(WindowStart, till))
ReadBefore == Got("before", ProblemsFrom(LookFrom, WindowStart - 1))
ReadRecoveries == Got("recoveries", RecoveriesFrom(WindowStart, till))
ReadOpenIds ==
  Got("openIds", {id \in Ids : id[1] \in severe /\ Outage(id)[1] < LookFrom /\ Outage(id)[2] = StillOpen})
ReadOlder ==
  /\ reads["openIds"] # NotYetRead
  /\ Got("older", {Event(id) : id \in Answer("openIds")})

\* One problem by id, of two that were read at different times.
Latest(events) ==
  {CHOOSE e \in events : e.id = id /\ \A f \in events : f.id = id /\ f.resolved => e.resolved :
     id \in {e.id : e \in events}}

-----------------------------------------------------------------------------
(* endedInWindow                                                           *)

FirstOfTrigger ==
  {r \in Answer("recoveries") :
     \A q \in Answer("recoveries") : q.id[1] = r.id[1] => r.id[2] <= q.id[2]}

\* The recoveries no problem read so far points at, of triggers at the floor.
Wanted(read) ==
  {r \in FirstOfTrigger : (\A e \in read : ~(e.resolved /\ e.id = r.id)) /\ r.id[1] \in severe}

\* The last problem of the trigger before the look-back, when this ended it.
LongOutage(r) ==
  LET older == {id \in Ids : id[1] = r.id[1] /\ Outage(id)[1] < LookFrom}
  IN {Event(id) : id \in {i \in older : i = r.id /\ \A j \in older : j[2] <= i[2]}}

-----------------------------------------------------------------------------
(* The incidents, clipped to the window.                                   *)

\* The clocks of recoveries in hand and of those asked for by id.
\*
\* Fault: only the window's.
RecoveryKnown_Window(e) == e.id \in {r.id : r \in Answer("recoveries")}

RecoveryKnown(e) == e.id \in {r.id : r \in Answer("recoveries")} \/ HasRecovery(e.id)

Clip(e) ==
  [id |-> e.id, began |-> e.clock, resolved |-> e.resolved,
   start |-> Greater(e.clock, WindowStart),
   end |-> IF e.resolved /\ RecoveryKnown(e) THEN Lesser(Outage(e.id)[2], till) ELSE till]

IncidentsOf(events) ==
  {i \in {Clip(e) : e \in {f \in events : ~(f.clock < WindowStart /\ f.resolved /\ ~RecoveryKnown(f))}} :
     i.end > i.start}

\* getAvailability: a host's row.
OutsideNotMeasured ==
  Complement(Merged(Clipped(NotMeasured, WindowStart, till)), WindowStart, till)
Kept(i) == Intersected(<<<<i.start, i.end>>>>, OutsideNotMeasured)

HostRow(h, incidents) ==
  LET mine == {i \in incidents : hostOf[i.id[1]] = h /\ Kept(i) # <<>>}
      spans == Merged(FlattenSeq([n \in 1..Cardinality(mine) |-> Kept(SetToSeq(mine)[n])]))
  IN [downtime |-> TotalSeconds(spans), incidents |-> Cardinality(mine), longest |-> Longest(spans)]

\* getNoise: a trigger's row.  An open problem's age is its real one.
TriggerRow(t, incidents) ==
  LET mine == {i \in incidents : i.id[1] = t}
      durations == {i.end - i.start : i \in mine}
      ages == {i.end - i.began : i \in {j \in mine : ~j.resolved}}
      spanOf(i) == <<i.start, i.end>>
  IN [count |-> Cardinality(mine),
      total |-> FoldLeft(Longer, 0, [n \in 1..Cardinality(mine) |-> spanOf(SetToSeq(mine)[n])]),
      stillOpen |-> ages # {},
      chronic |-> ages # {} /\ \E d \in durations \cup ages : d > Chronic]

\* The rest of fetchIncidents: of more lookups than are allowed, some are left
\* out and the report says so.
WriteReport ==
  /\ report = NoReport /\ \A read \in ReadNames : reads[read] # NotYetRead
  /\ LET events == Latest(Answer("older") \cup Answer("before") \cup Answer("inWindow"))
         wanted == Wanted(events)
     IN \E asked \in SUBSET wanted :
          /\ Cardinality(asked) = Lesser(Lookups, Cardinality(wanted))
          /\ LET incidents == IncidentsOf(Latest(events \cup UNION {LongOutage(r) : r \in asked}))
             IN report' = <<[truncated |-> asked # wanted,
                             hosts |-> [h \in OnHost |-> HostRow(h, incidents)],
                             noise |-> [t \in Trigger |-> TriggerRow(t, incidents)]]>>
  /\ UNCHANGED <<outages, hostOf, severe, till, reads>>

-----------------------------------------------------------------------------
(* Zabbix, meanwhile.                                                      *)

Clear(t) == outages[t] # <<>> => Last(outages[t])[2] \notin {StillOpen, ReportTime}

Raise(t) ==
  /\ report = NoReport /\ Clear(t)
  /\ outages' = [outages EXCEPT ![t] = Append(@, <<ReportTime, StillOpen, FALSE>>)]
  /\ UNCHANGED <<hostOf, severe, till, reads, report>>

Resolve(t) ==
  /\ report = NoReport /\ outages[t] # <<>>
  /\ Last(outages[t])[2] = StillOpen /\ Last(outages[t])[1] < ReportTime
  /\ outages' = [outages EXCEPT ![t][Len(outages[t])][2] = ReportTime]
  /\ UNCHANGED <<hostOf, severe, till, reads, report>>

IncidentInit ==
  /\ outages \in [Trigger -> Histories] /\ hostOf \in Placings
  /\ severe \in (SUBSET Trigger) \ {{}}
  /\ till \in {CutAt, ReportTime}
  /\ reads = [read \in ReadNames |-> NotYetRead] /\ report = NoReport

IncidentNext ==
  \/ ReadWindow \/ ReadBefore \/ ReadRecoveries \/ ReadOpenIds \/ ReadOlder \/ WriteReport
  \/ \E t \in Trigger : Raise(t) \/ Resolve(t)

IncidentSpec == IncidentInit /\ [][IncidentNext]_incidentVars

-----------------------------------------------------------------------------
(* What the reports should say.                                            *)

\* An outage of the window whose recovery Zabbix has lost counts to its end.
EndOf(id) ==
  IF Outage(id)[2] = StillOpen \/ (Outage(id)[3] /\ Outage(id)[1] >= WindowStart)
  THEN ReportTime ELSE Outage(id)[2]
InWindow(id) == (Outage(id)[1]..EndOf(id) - 1) \cap (WindowStart..till - 1)
Ignored == Seconds(NotMeasured)
Severe == {id \in Ids : id[1] \in severe}

\* "Only one that began earlier than this and was resolved after the window
\* ended is missed" (incidents.ts:76), and those whose recovery Zabbix has lost.
MayBeMissed(id) ==
  \/ Outage(id)[1] < LookFrom /\ Outage(id)[2] >= till
  \/ Outage(id)[1] < WindowStart /\ Outage(id)[3]
EndedLong(id) == Outage(id)[1] < LookFrom /\ Outage(id)[2] \in WindowStart..till
Sure(r) == {id \in Severe : ~(MayBeMissed(id) \/ (r.truncated /\ EndedLong(id)))}

\* An outage that is resolved between two of the reads may ask for a lookup too.
FloorExplained(r) ==
  r.truncated =>
    Cardinality({id \in Severe : EndedLong(id) \/ Outage(id)[2] = ReportTime}) > Lookups

SecondsDown(h, ids) == (UNION {InWindow(id) : id \in {i \in ids : hostOf[i[1]] = h}}) \ Ignored

HostExact(r, h) ==
  LET row == r.hosts[h]
      all == SecondsDown(h, Severe)
  IN /\ Cardinality(SecondsDown(h, Sure(r))) <= row.downtime
     /\ row.downtime <= Cardinality(all)
     /\ Sure(r) = Severe =>
          /\ row.incidents =
               Cardinality({id \in Severe : hostOf[id[1]] = h /\ InWindow(id) \ Ignored # {}})
          /\ \A a, b \in all : a..b \subseteq all => b - a + 1 <= row.longest
          /\ row.longest # 0 => \E a \in all : a..a + row.longest - 1 \subseteq all

TriggerExact(r, t) ==
  LET row == r.noise[t]
      mine == {id \in Severe : id[1] = t}
      past(id) == till - Outage(id)[1] > Chronic
  IN /\ mine \subseteq Sure(r) =>
          /\ row.count = Cardinality({id \in mine : InWindow(id) # {}})
          /\ row.total = Cardinality(UNION {{id} \X InWindow(id) : id \in mine})
     /\ (\E id \in mine : Outage(id)[2] = StillOpen /\ past(id)) => row.chronic
     /\ row.chronic => /\ \E id \in mine : Outage(id)[2] \in {StillOpen, ReportTime}
                       /\ \E id \in mine : past(id)

\* Whatever Zabbix does while the reads run, and in whichever order they come
\* back: a host's downtime, its longest and its count, and a trigger's count,
\* time and age, are those of the problems that were open in the window, each
\* once and from the window's first second; but for what the code says it may
\* miss, and a report that is a floor says so, for that reason alone.
ReportsExact ==
  report # NoReport =>
    /\ FloorExplained(report[1])
    /\ \A h \in OnHost : HostExact(report[1], h)
    /\ \A t \in Trigger : TriggerExact(report[1], t)
=============================================================================
