------------------------------- MODULE MCParts -------------------------------
(***************************************************************************)
(* Instances for TLC of the smaller modules, in one run: `part' says which *)
(* of them a behaviour is of, and the variables of the others stay as they *)
(* are.  Nothing is composed here.                                         *)
(***************************************************************************)
EXTENDS SignIn, AiLimits, Snapshot, Readiness,
        Chat, Highlight, SentRows, UrlState, SliReplay, SliFigures, SliFetch, SliMaintenance,
        Incidents, GraphPoints, ServiceTree

VARIABLE part

Parts == {"sign-in", "ai", "snapshot", "ready", "chat", "wall", "rows", "url",
          "replay", "figures", "fetch", "maintenance", "reports", "graph", "tree"}

-----------------------------------------------------------------------------
(* Values of the constants.                                                *)

SpanList == <<1, 2, 3>>

IntervalLists ==
  {<<>>, <<<<0, 3>>>>, <<<<4, 5>>, <<1, 3>>, <<2, 4>>>>, <<<<2, 3>>, <<4, 7>>>>,
   <<<<1, 6>>, <<3, 3>>, <<3, 4>>>>, <<<<3, 5>>>>}
HourSets == {{}, {0, 2, 4}, {0, 4}, {2}}

Seconds6 == 0..5

Period(type, nth, weekdays, months, dayNo, start, period) ==
  [type |-> type, every |-> nth, weekdays |-> weekdays, months |-> months, day |-> dayNo,
   start |-> start, period |-> period]

PeriodSet ==
  {Period("once", 0, {}, {}, 0, 12, 4)}
  \cup {Period("daily", e, {}, {}, 0, s, p) : e \in {1, 2}, s \in {0, 2}, p \in {0, 1, 4}}
  \cup {Period("weekly", e, w, {}, 0, 2, p) : e \in {1, 2}, w \in {{0}, {0, 1}}, p \in {2, 5}}
  \cup {Period("monthly", 0, {}, m, d, 2, 5) : m \in {{1}, {2}}, d \in {1, 5}}
  \cup {Period("monthly", e, w, {1, 2}, 0, 2, 2) : w \in {{0}, {1}}, e \in {2, 3, 5}}
BoundsSet == {<<0, 40>>, <<4, 17>>}
RangeSet == {<<3, 31>>, <<13, 14>>}

HistorySet ==
  {<<>>, <<<<0, -1, FALSE>>>>, <<<<1, 6, FALSE>>>>, <<<<0, 8, FALSE>>>>, <<<<1, 5, TRUE>>>>,
   <<<<0, 1, FALSE>>, <<1, 5, FALSE>>, <<6, 7, FALSE>>>>, <<<<2, 4, FALSE>>, <<5, -1, FALSE>>>>,
   <<<<3, 7, FALSE>>>>, <<<<3, -1, FALSE>>>>, <<<<4, 5, FALSE>>, <<7, 8, FALSE>>>>,
   <<<<4, 5, TRUE>>, <<5, 5, FALSE>>>>}
\* Both triggers of a host, or one each.
PlacingSet ==
  {f \in [Trigger -> OnHost] : f[CHOOSE t \in Trigger : TRUE] = CHOOSE h \in OnHost : TRUE}
NotMeasuredList == <<<<5, 6>>>>

GraphKinds ==
  [windows |-> {<<0, 24>>, <<2, 23>>, <<9, 14>>, <<1, 9>>},
   points |-> {2, 3, 5, 9}, delays |-> {0, 1, 2}, trendsEnd |-> {0, 8, 16, 24},
   readings |-> {{c \in 0..23 : c % spacing = 0 /\ c \notin a..b} :
                   spacing \in {1, 2, 5}, a \in {0, 1, 7, 11}, b \in {0, 4, 9, 14, 18, 23}}]

HostKind(class, site, path) == [class |-> class, site |-> site, path |-> path]
HostKindSet ==
  {HostKind("web", 0, "none"), HostKind("server", 1, "none"), HostKind("switch", 1, "none"),
   HostKind("switch", 0, "none"), HostKind("wan-link", 1, "none"), HostKind("wan-link", 1, "a"),
   HostKind("wan-link", 2, "a"), HostKind("wan-link", 0, "a"), HostKind("wan-link", 2, "b")}
SeveritySet == {<<>>, <<3>>, <<5, 4, 2>>}

-----------------------------------------------------------------------------
Or(chosen, init, still) == IF part = chosen THEN init ELSE still

PartInit ==
  /\ part \in Parts
  /\ SignInInit
  /\ AiInit
  /\ SnapshotInit
  /\ ReadyInit
  /\ ChatInit
  /\ HighlightInit
  /\ SentInit
  /\ UrlInit /\ (part # "url" => address = Here(Plain))
  /\ SliInit /\ (part # "replay" => problem = <<FALSE>>)
  /\ Or("figures", FigureInit,
        /\ asked = [strict |-> FALSE, down |-> [h \in Host |-> <<>>], planned |-> [h \in Host |-> <<>>],
                    collected |-> [h \in Host |-> {}], declared |-> <<>>]
        /\ figures = NoFigures)
  /\ Or("fetch", FetchInit,
        /\ wanted = [what |-> "trends", from |-> 0, to |-> 0, items |-> 0, maxRows |-> 2]
        /\ gotten = <<>>)
  /\ Or("maintenance", MaintenanceInit,
        /\ maintenance = [periods |-> <<>>, since |-> 0, till |-> 0, from |-> 0, to |-> 0]
        /\ windowsFound = Unknown)
  /\ Or("reports", IncidentInit,
        /\ outages = [t \in Trigger |-> <<>>] /\ hostOf = [t \in Trigger |-> "none"]
        /\ severe = {} /\ till = ReportTime
        /\ reads = [read \in ReadNames |-> NotYetRead] /\ report = NoReport)
  /\ Or("graph", GraphInit, graph = <<>> /\ drawn = <<>>)
  /\ Or("tree", TreeInit, estate = <<>> /\ tree = <<>>)

\* The variables of a part are its own.
Keep(p, v) == IF part = p THEN TRUE ELSE UNCHANGED v

\* Names that are alike: a behaviour that uses them in another order is one of
\* these renamed.  Accounts and callers come in turn; of the attempts
\* that are free always the same is begun; the first change is sent of the same
\* row, and a dialog that is closed without one changes nothing.  Nor does time
\* before the first attempt, or an attempt that MaxTried leaves without an answer.
InTurn(names) == ("eve" \in names => "bob" \in names) /\ ("bob" \in names => "ann" \in names)
TheSameAttempt ==
  \A a \in Attempt :
    hashing[a] = NoAccount /\ hashing'[a] # NoAccount =>
      a = CHOOSE b \in Attempt : hashing[b] = NoAccount
AttemptsInTurn ==
  LET names == {hashing'[a] : a \in Attempt} \cup {tried'[i].key : i \in 1..Len(tried')}
  IN /\ TheSameAttempt /\ InTurn(names)
     /\ signInTime' > 0 => "ann" \in names
     /\ Len(tried') + Cardinality({a \in Attempt : hashing'[a] # NoAccount}) <= MaxTried
TheSameRow == sends = 0 /\ dialog'.open => dialog'.of = CHOOSE e \in Row : TRUE

PartNext ==
  /\ UNCHANGED part
  /\ \/ part = "sign-in" /\ SignInNext /\ AttemptsInTurn
     \/ part = "ai" /\ AiNext /\ InTurn({takes'[i].key : i \in 1..Len(takes')})
     \/ part = "snapshot" /\ SnapshotNext
     \/ part = "ready" /\ ReadyNext
     \/ part = "chat" /\ ChatNext
     \/ part = "wall" /\ HighlightNext
     \/ part = "rows" /\ SentNext /\ TheSameRow
     \/ part = "url" /\ UrlNext
     \/ part = "replay" /\ SliNext
     \/ part = "figures" /\ ComputeFigures
     \/ part = "fetch" /\ FetchNext
     \/ part = "maintenance" /\ FindWindows
     \/ part = "reports" /\ IncidentNext
     \/ part = "graph" /\ Draw
     \/ part = "tree" /\ BuildTree
  /\ Keep("sign-in", signInVars) /\ Keep("ai", aiVars)
  /\ Keep("snapshot", snapshotVars) /\ Keep("ready", readyVars)
  /\ Keep("chat", chatVars) /\ Keep("wall", highlightVars)
  /\ Keep("rows", sentVars) /\ Keep("url", urlVars)
  /\ Keep("replay", sliVars) /\ Keep("figures", figureVars)
  /\ Keep("fetch", fetchVars) /\ Keep("maintenance", maintenanceVars)
  /\ Keep("reports", incidentVars) /\ Keep("graph", graphVars) /\ Keep("tree", treeVars)

PartSpec ==
  /\ PartInit
  /\ [][PartNext]_<<part, signInVars, aiVars, snapshotVars, readyVars,
                    chatVars, highlightVars, sentVars, urlVars,
                    sliVars, figureVars, fetchVars, maintenanceVars, incidentVars, graphVars,
                    treeVars>>
=============================================================================
