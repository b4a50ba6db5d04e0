------------------------------- MODULE SentRows -------------------------------
(***************************************************************************)
(* The Problems page after an acknowledge or a close (Problems.tsx,        *)
(* AckDialog.tsx): Zabbix applies it a moment later, or never, and until   *)
(* the list shows it the row says that it waits, for a minute.             *)
(*                                                                         *)
(* One visit of the page.  A read of the list brings, for each problem,    *)
(* what Zabbix holds now or what the page already shows (the BFF's cache); *)
(* when the page reads is left open.                                       *)
(***************************************************************************)
EXTENDS Integers, FiniteSets

CONSTANTS
  Row,          \* the problems of the list
  WaitTicks,    \* WAIT_FOR_ZABBIX_MS, in ticks
  MaxSends      \* bound: the changes the page sends

ASSUME SentAssumption == WaitTicks \in Nat \ {0} /\ MaxSends \in Nat /\ "none" \notin Row

VARIABLES
  zbx,        \* each problem at Zabbix
  shownRows,  \* each problem in q.data
  sent,       \* `sent', by problem
  dialog,     \* the Acknowledge dialog
  timers,     \* the timers that run, each [of, left]
  latest,     \* giveUp: the timer last started for a problem
  waited,     \* ticks since a problem's last send that is awaited
  sends       \* changes sent

sentVars == <<zbx, shownRows, sent, dialog, timers, latest, waited, sends>>

Fresh == [listed |-> TRUE, acknowledged |-> FALSE, resolved |-> FALSE]
NothingSent == [acknowledge |-> FALSE, close |-> FALSE, late |-> FALSE]
Shut == [open |-> FALSE]
NoTimer == [of |-> "none", left |-> 0]

Awaited(e) == sent[e] # NothingSent

\* applied
Applied(p, s) == (s.acknowledge => p.acknowledged) /\ (s.close => p.resolved)

\* waiting, closeNotApplied
Waiting(e) == Awaited(e) /\ ~sent[e].late /\ ~Applied(shownRows[e], sent[e])
CloseNotApplied(e) == sent[e].late /\ sent[e].close /\ ~shownRows[e].resolved

-----------------------------------------------------------------------------
(* Zabbix, external: what was asked is applied late or never, and others   *)
(* change problems too.                                                    *)

ZabbixChanges(e) ==
  /\ zbx[e].listed
  /\ \/ zbx' = [zbx EXCEPT ![e].acknowledged = ~@]
     \/ ~zbx[e].resolved /\ zbx' = [zbx EXCEPT ![e].resolved = TRUE]
     \/ zbx[e].resolved /\ zbx' = [zbx EXCEPT ![e].listed = FALSE]
  /\ UNCHANGED <<shownRows, sent, dialog, timers, latest, waited, sends>>

-----------------------------------------------------------------------------
(* The page.                                                               *)

\* The effect of a new list: what it shows is forgotten.
StillAwaited(s, list) ==
  [e \in Row |-> IF list[e].listed /\ ~Applied(list[e], s[e]) THEN s[e] ELSE NothingSent]

ReadList ==
  /\ shownRows' \in [Row -> {zbx[e] : e \in Row} \cup {shownRows[e] : e \in Row}]
  /\ \A e \in Row : shownRows'[e] \in {zbx[e], shownRows[e]}
  /\ sent' = StillAwaited(sent, shownRows')
  /\ UNCHANGED <<zbx, dialog, timers, latest, waited, sends>>

\* The Ack button, or a link to the dialog, which is there for a row that waits
\* too.
OpenDialog(e) ==
  /\ ~dialog.open /\ sends < MaxSends
  /\ shownRows[e].listed /\ ~shownRows[e].resolved
  /\ dialog' = [open |-> TRUE, of |-> e, acknowledged |-> shownRows[e].acknowledged]
  /\ UNCHANGED <<zbx, shownRows, sent, timers, latest, waited, sends>>

\* Cancel.
CloseDialog ==
  /\ dialog.open /\ dialog' = Shut
  /\ UNCHANGED <<zbx, shownRows, sent, timers, latest, waited, sends>>

\* The timer of a send.
\*
\* Fault: the one of an earlier send goes on.
StartTimer_LeavesTheOld(e) ==
  /\ latest' = [latest EXCEPT ![e] = [of |-> e, left |-> WaitTicks]]
  /\ timers' = timers \cup {latest'[e]}

StartTimer(e) ==
  /\ latest' = [latest EXCEPT ![e] = [of |-> e, left |-> WaitTicks]]
  /\ timers' = (timers \ {latest[e]}) \cup {latest'[e]}

\* onSent, once Zabbix has taken the request: what the list can show is awaited.
\* A message alone leaves nothing to wait for.
OnSent(e, acknowledge, close) ==
  IF acknowledge \/ close
  THEN /\ sent' = [sent EXCEPT ![e] = [acknowledge |-> acknowledge, close |-> close, late |-> FALSE]]
       /\ waited' = [waited EXCEPT ![e] = 0]
       /\ StartTimer(e)
  ELSE UNCHANGED <<sent, waited, timers, latest>>

\* submit: the dialog stays when the request fails, though Zabbix may have it.
Submit ==
  /\ dialog.open /\ sends < MaxSends
  /\ sends' = sends + 1
  /\ \E acknowledge, close \in BOOLEAN :
       \/ /\ dialog' = Shut
          /\ OnSent(dialog.of, acknowledge /\ ~dialog.acknowledged, close)
       \/ UNCHANGED <<dialog, sent, waited, timers, latest>>
  /\ UNCHANGED <<zbx, shownRows>>

\* A timer is over: a close not applied is late, an acknowledgement is dropped.
WaitIsOver(t) ==
  /\ t.left = 0
  /\ timers' = timers \ {t}
  /\ latest' = [latest EXCEPT ![t.of] = NoTimer]
  /\ sent' = [sent EXCEPT ![t.of] = IF @.close THEN [@ EXCEPT !.late = TRUE] ELSE NothingSent]
  /\ UNCHANGED <<zbx, shownRows, dialog, waited, sends>>

\* Time passes; a timer that is over runs first.
Ticked(t) == [t EXCEPT !.left = @ - 1]

SentTick ==
  /\ timers # {} /\ \A t \in timers : t.left > 0
  /\ timers' = {Ticked(t) : t \in timers}
  /\ latest' = [e \in Row |-> IF latest[e] \in timers THEN Ticked(latest[e]) ELSE latest[e]]
  /\ waited' = [e \in Row |-> IF waited[e] < WaitTicks THEN waited[e] + 1 ELSE waited[e]]
  /\ UNCHANGED <<zbx, shownRows, sent, dialog, sends>>

-----------------------------------------------------------------------------
SentInit ==
  /\ zbx = [e \in Row |-> Fresh] /\ shownRows = zbx
  /\ sent = [e \in Row |-> NothingSent]
  /\ dialog = Shut
  /\ timers = {} /\ latest = [e \in Row |-> NoTimer]
  /\ waited = [e \in Row |-> 0]
  /\ sends = 0

SentNext ==
  \/ \E e \in Row : ZabbixChanges(e) \/ OpenDialog(e)
  \/ ReadList \/ CloseDialog \/ Submit \/ SentTick
  \/ \E t \in timers : WaitIsOver(t)

SentSpec == SentInit /\ [][SentNext]_sentVars

-----------------------------------------------------------------------------
\* "A new send starts a new minute: the earlier send's timer must not end this
\* wait early": a row stops waiting only when the list shows the change, when
\* the problem has left the list, or a whole minute after the last send.
MinuteKept ==
  [][ \A e \in Row :
        Waiting(e) /\ ~Waiting(e)' =>
          \/ Applied(shownRows'[e], sent[e]) \/ ~shownRows'[e].listed
          \/ Awaited(e)' /\ Applied(shownRows[e], sent[e])'
          \/ waited[e] = WaitTicks ]_sentVars

\* "... so it stays on the row until the problem shows resolved" (the comment of
\* closeNotApplied): the row of a close that was not applied in its minute goes
\* on saying that it was asked for.
CloseStaysSaid ==
  [][ \A e \in Row :
        CloseNotApplied(e) /\ shownRows'[e].listed /\ ~shownRows'[e].resolved
          => sent'[e].close ]_sentVars
=============================================================================
