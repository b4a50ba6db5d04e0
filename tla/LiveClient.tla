----------------------------- MODULE LiveClient -----------------------------
(***************************************************************************)
(* The page's end of the live problem stream (useSSE.ts).  Four things     *)
(* open and close its EventSource without knowing of each other: the       *)
(* browser, which reconnects a dropped one and gives up on a bad answer,   *)
(* the watchdog on a silent one, the reopening timer, and the tab, which   *)
(* is hidden and shown.                                                    *)
(*                                                                         *)
(* Abstracted: how long a timer runs, but that the watchdog's three missed *)
(* frames do not pass on a line that is alive, so a keep-alive changes     *)
(* nothing; the age and content of the list; the session check that a drop *)
(* starts (Session's Probe).                                               *)
(***************************************************************************)
EXTENDS Naturals

CONSTANT Source     \* EventSource objects; one is used again when nothing refers to it
ASSUME SourceAssumption == "none" \notin Source

VARIABLES
  mounted, shown,   \* the hook's effect runs; the tab is visible
  es,               \* the source in use, or NoSource
  status,           \* of each source: readyState, "dead" an open one the line has left
  retry,            \* the reopening timer is armed
  quiet,            \* the source the watchdog is armed for, or NoSource
  connected, haveList,
  up                \* the BFF can be reached and reads Zabbix

hookVars == <<es, status, retry, quiet, connected, haveList>>
clientVars == <<mounted, shown, up, hookVars>>

NoSource == "none"
Live == {s \in Source : status[s] # "closed"}

Put(s, st) == status' = [status EXCEPT ![s] = st]

\* new EventSource
OpenSource ==
  \E s \in Source :
    /\ status[s] = "closed" /\ s # quiet /\ s # es
    /\ es' = s
    /\ Put(s, "connecting")
    /\ haveList' = FALSE

Close(s) == IF s = NoSource THEN UNCHANGED status ELSE Put(s, "closed")

\* reopenLater
ReopenLater == retry' = (retry \/ shown)

\* close(), with both timers.
CloseAll ==
  /\ Close(es)
  /\ es' = NoSource /\ retry' = FALSE /\ quiet' = NoSource
  /\ UNCHANGED <<connected, haveList>>

-----------------------------------------------------------------------------
(* The line.                                                               *)

\* onopen: the watchdog is armed; it is not connected before a frame has come.
\*
\* Fault: only a frame arms it.
Opened_Unwatched(s) ==
  /\ status[s] = "connecting" /\ up
  /\ Put(s, "open")
  /\ UNCHANGED <<mounted, shown, up, es, retry, quiet, connected, haveList>>

Opened(s) ==
  /\ status[s] = "connecting" /\ up
  /\ Put(s, "open")
  /\ quiet' = s
  /\ UNCHANGED <<mounted, shown, up, es, retry, connected, haveList>>

\* A frame with the list.  The BFF sends one to a newcomer and after an error.
ListFrame(s) ==
  /\ status[s] = "open" /\ up
  /\ quiet' = s
  /\ haveList' = TRUE /\ connected' = TRUE
  /\ UNCHANGED <<mounted, shown, up, es, status, retry>>

\* An error frame, or a list the page cannot show.
ErrorFrame(s) ==
  /\ status[s] = "open" /\ ~up
  /\ quiet' = s
  /\ haveList' = FALSE /\ connected' = FALSE
  /\ UNCHANGED <<mounted, shown, up, es, status, retry>>

Broken(s) == s \in Live /\ (~up \/ status[s] = "dead")

\* The connection breaks and the browser reconnects.
Drop(s) ==
  /\ Broken(s)
  /\ Put(s, "connecting")
  /\ connected' = FALSE /\ haveList' = FALSE
  /\ UNCHANGED <<mounted, shown, up, es, retry, quiet>>

\* The answer is no event stream: the browser gives up.
GiveUp(s) ==
  /\ Broken(s)
  /\ Put(s, "closed")
  /\ connected' = FALSE /\ haveList' = FALSE
  /\ es' = IF es = s THEN NoSource ELSE es
  /\ ReopenLater
  /\ UNCHANGED <<mounted, shown, up, quiet>>

\* The line dies and neither end is told.
Sever(s) ==
  /\ status[s] = "open" /\ ~up
  /\ Put(s, "dead")
  /\ UNCHANGED <<mounted, shown, up, es, retry, quiet, connected, haveList>>

Turn ==
  /\ up' = ~up
  /\ UNCHANGED <<mounted, shown, hookVars>>

-----------------------------------------------------------------------------
(* The page.                                                               *)

\* No frame for STREAM_SILENT_MS.  The timer of a source no longer in use does
\* nothing.
QuietFires ==
  /\ quiet # NoSource
  /\ ~(status[quiet] = "open" /\ up)
  /\ quiet' = NoSource
  /\ IF es = quiet
     THEN /\ Close(es) /\ es' = NoSource
          /\ haveList' = FALSE /\ connected' = FALSE
          /\ ReopenLater
     ELSE UNCHANGED <<es, status, retry, connected, haveList>>
  /\ UNCHANGED <<mounted, shown, up>>

RetryFires ==
  /\ retry
  /\ retry' = FALSE
  /\ IF es = NoSource THEN OpenSource ELSE UNCHANGED <<es, status, haveList>>
  /\ UNCHANGED <<mounted, shown, up, quiet, connected>>

\* visibilitychange
Hide ==
  /\ shown /\ shown' = FALSE
  /\ IF mounted THEN CloseAll ELSE UNCHANGED hookVars
  /\ UNCHANGED <<mounted, up>>

Show ==
  /\ ~shown /\ shown' = TRUE
  /\ IF mounted /\ es = NoSource
     THEN OpenSource /\ UNCHANGED <<retry, quiet, connected>>
     ELSE UNCHANGED hookVars
  /\ UNCHANGED <<mounted, up>>

LoadPage ==
  /\ ~mounted /\ mounted' = TRUE
  /\ connected' = FALSE
  /\ IF shown
     THEN OpenSource
     ELSE haveList' = FALSE /\ UNCHANGED <<es, status>>
  /\ UNCHANGED <<shown, up, retry, quiet>>

LeavePage ==
  /\ mounted /\ mounted' = FALSE
  /\ CloseAll
  /\ UNCHANGED <<shown, up>>

ClientInit ==
  /\ mounted = FALSE /\ shown \in BOOLEAN /\ up \in BOOLEAN
  /\ es = NoSource /\ status = [s \in Source |-> "closed"]
  /\ retry = FALSE /\ quiet = NoSource
  /\ connected = FALSE /\ haveList = FALSE

ClientNext ==
  \/ \E s \in Source :
       Opened(s) \/ ListFrame(s) \/ ErrorFrame(s) \/ Drop(s) \/ GiveUp(s) \/ Sever(s)
  \/ QuietFires \/ RetryFires \/ Turn
  \/ Hide \/ Show \/ LoadPage \/ LeavePage

ClientSpec == ClientInit /\ [][ClientNext]_clientVars

\* Timers fire, and a BFF that can be reached lets the browser in and sends the
\* list (LiveStream).
ClientFairness ==
  /\ WF_clientVars(QuietFires) /\ WF_clientVars(RetryFires)
  /\ \A s \in Source : WF_clientVars(Opened(s)) /\ WF_clientVars(ListFrame(s))

-----------------------------------------------------------------------------
\* There is never a second connection, nor one that nobody looks at, and a page
\* that is looked at has one or has the timer that opens it (useSSE.ts, open,
\* close and reopenLater).
OneSource ==
  /\ Live \subseteq {es}
  /\ Live # {} => mounted /\ shown
  /\ mounted /\ shown => Live # {} \/ retry

\* Once the page stays in view and the BFF stays up, the page gets the list over
\* a line that is alive, for good, whatever happened before (the watchdog, the
\* reopening).
Reconnects ==
  <>[](mounted /\ shown /\ up)
    => <>[](connected /\ \E s \in Source : es = s /\ status[s] = "open")
=============================================================================
