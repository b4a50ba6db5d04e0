------------------------------ MODULE Polling -------------------------------
(***************************************************************************)
(* What a page reads and reads again (useAsync.ts): a run per change of    *)
(* its dependencies, per poll and per reload(), of which only the latest   *)
(* may write.  A render commits first: its layout effect gives the hook    *)
(* the new dependencies at once, while the effects that act on them run in *)
(* a task of their own, after any timer, answer or visibility change that  *)
(* comes before it.                                                        *)
(*                                                                         *)
(* Abstracted: how long an interval is, only whether there is one; a run's *)
(* answer and its finally are one step; a run is used again once it has    *)
(* settled.                                                                *)
(***************************************************************************)
EXTENDS Naturals, FiniteSets

CONSTANTS
  Selection,    \* values of deps
  Run           \* bound: runs in flight at once
ASSUME PollAssumption == "none" \notin Selection \cup Run

VARIABLES
  deps, every,            \* latest.current, of the last commit
  attached, polling,      \* what the effects last ran for; polling: the listener is there
  live,                   \* `mounted'
  inView,                 \* the tab is visible
  current,                \* the latest run, or Nothing
  flying,                 \* runs that have not settled
  wants,                  \* the deps each run was started with
  timer, dropping,        \* armed or not
  snap                    \* [data, error, loading, stale]

pollVars == <<deps, every, attached, polling, live, inView, current, flying, wants,
              timer, dropping, snap>>

Nothing == "none"

\* stopTimer, and arm again if there is something to wait for.
Armed(run, visible, alive) == every /\ alive /\ run = Nothing /\ visible

\* start, but for what a change of deps does to the snapshot.
Start ==
  \E r \in Run \ flying :
    /\ current' = r
    /\ flying' = flying \cup {r}
    /\ wants' = [wants EXCEPT ![r] = deps]
    /\ timer' = FALSE

Awaiting ==
  snap' = [snap EXCEPT !.loading = TRUE, !.error = FALSE, !.stale = snap.data # Nothing]

-----------------------------------------------------------------------------
\* A render commits, the first or a later one, and its layout effect runs; what
\* is left to do of the one before has been done by then.
Commit(d, e) ==
  /\ deps = Nothing \/ (live /\ attached = deps /\ polling = every)
  /\ <<d, e>> # <<deps, every>>
  /\ deps' = d /\ every' = e
  /\ UNCHANGED <<attached, polling, live, inView, current, flying, wants, timer, dropping, snap>>

\* The effect on deps, on the first render and when they change: cleanup, which
\* takes a run in flight for one to drop, then attach, which keeps it if it is
\* for the same deps.
Keeps == current # Nothing /\ wants[current] = deps

Attach ==
  /\ attached # deps /\ (attached = Nothing \/ live)
  /\ live' = TRUE /\ dropping' = FALSE
  /\ attached' = deps /\ polling' = every
  /\ IF Keeps
     THEN timer' = FALSE /\ UNCHANGED <<current, flying, wants, snap>>
     ELSE Start /\ Awaiting
  /\ UNCHANGED <<deps, every, inView>>

\* The effects on intervalMs, when deps are the same: schedule, and the listener.
Reschedule ==
  /\ live /\ attached = deps /\ polling # every
  /\ polling' = every
  /\ timer' = Armed(current, inView, TRUE)
  /\ UNCHANGED <<deps, every, attached, live, inView, current, flying, wants, dropping, snap>>

\* StrictMode's unmount and remount: the run for the same deps goes on.
Rehearse ==
  /\ live /\ attached = deps
  /\ IF Keeps
     THEN timer' = FALSE /\ UNCHANGED <<current, flying, wants, snap>>
     ELSE Start /\ Awaiting
  /\ dropping' = FALSE
  /\ UNCHANGED <<deps, every, attached, polling, live, inView>>

TimerFires ==
  /\ timer
  /\ Start
  /\ UNCHANGED <<deps, every, attached, polling, live, inView, dropping, snap>>

Reload ==
  /\ live
  /\ Start
  /\ UNCHANGED <<deps, every, attached, polling, live, inView, dropping, snap>>

\* A run settles.  One that was replaced, or dropped, writes nothing.
\*
\* Faults: every run writes; only an answer arms the next poll.
Land_Writes(r, ok) ==
  /\ r \in flying
  /\ flying' = flying \ {r}
  /\ IF ok THEN snap' = [data |-> wants[r], error |-> FALSE, loading |-> FALSE, stale |-> FALSE]
           ELSE snap' = [snap EXCEPT !.error = TRUE, !.loading = FALSE]
  /\ IF r # current THEN UNCHANGED <<current, timer>>
     ELSE current' = Nothing /\ timer' = Armed(Nothing, inView, live)
  /\ UNCHANGED <<deps, every, attached, polling, live, inView, wants, dropping>>

Land_NoPollAfterError(r, ok) ==
  /\ r \in flying
  /\ flying' = flying \ {r}
  /\ IF r # current THEN UNCHANGED <<snap, current, timer>>
     ELSE /\ snap' = IF ok
                     THEN [data |-> wants[r], error |-> FALSE, loading |-> FALSE, stale |-> FALSE]
                     ELSE [snap EXCEPT !.error = TRUE, !.loading = FALSE]
          /\ current' = Nothing
          /\ timer' = (ok /\ Armed(Nothing, inView, live))
  /\ UNCHANGED <<deps, every, attached, polling, live, inView, wants, dropping>>

Land(r, ok) ==
  /\ r \in flying
  /\ flying' = flying \ {r}
  /\ IF r # current THEN UNCHANGED <<snap, current, timer>>
     ELSE /\ snap' = IF ok
                     THEN [data |-> wants[r], error |-> FALSE, loading |-> FALSE, stale |-> FALSE]
                     ELSE [snap EXCEPT !.error = TRUE, !.loading = FALSE]
          /\ current' = Nothing
          /\ timer' = Armed(Nothing, inView, live)
  /\ UNCHANGED <<deps, every, attached, polling, live, inView, wants, dropping>>

\* visibilitychange, which is listened to while the page polls.
Turned ==
  /\ inView' = ~inView
  /\ timer' = IF polling /\ live THEN Armed(current, ~inView, live) ELSE timer
  /\ UNCHANGED <<deps, every, attached, polling, live, current, flying, wants, dropping, snap>>

\* The component goes: a run in flight is dropped in a task of its own.
Unmount ==
  /\ live /\ live' = FALSE
  /\ timer' = FALSE /\ dropping' = (current # Nothing)
  /\ UNCHANGED <<deps, every, attached, polling, inView, current, flying, wants, snap>>

Dropped ==
  /\ dropping /\ dropping' = FALSE
  /\ current' = Nothing
  /\ UNCHANGED <<deps, every, attached, polling, live, inView, flying, wants, timer, snap>>

PollInit ==
  /\ deps = Nothing /\ every = FALSE
  /\ attached = Nothing /\ polling = FALSE /\ live = FALSE /\ inView \in BOOLEAN
  /\ current = Nothing /\ flying = {}
  /\ wants = [r \in Run |-> deps]
  /\ timer = FALSE /\ dropping = FALSE
  /\ snap = [data |-> Nothing, error |-> FALSE, loading |-> TRUE, stale |-> FALSE]

PollNext ==
  \/ \E d \in Selection, e \in BOOLEAN : Commit(d, e)
  \/ Attach \/ Reschedule \/ Rehearse
  \/ TimerFires \/ Reload \/ Turned
  \/ \E r \in Run, ok \in BOOLEAN : Land(r, ok)
  \/ Unmount \/ Dropped

PollSpec == PollInit /\ [][PollNext]_pollVars

\* Timers fire, React runs the effects of a commit, and a request ends: it is
\* answered, fails or is aborted.
PollFairness ==
  /\ WF_pollVars(Attach) /\ WF_pollVars(Reschedule) /\ WF_pollVars(TimerFires)
  /\ \A r \in Run : WF_pollVars(\E ok \in BOOLEAN : Land(r, ok))

-----------------------------------------------------------------------------
\* Nothing in flight means that what was selected last is on screen, or that
\* reading it failed: no late answer for an earlier selection replaces it, and
\* the page never waits for a run that nobody started (useAsync.ts, start).
LastAskedShown ==
  live /\ attached = deps /\ current = Nothing =>
    ~snap.loading /\ (snap.error \/ snap.data = deps)

\* A page in view that polls goes on polling, whatever fails and however the
\* tab, the interval and the selection changed before (useAsync.ts, schedule).
PollsGoOn == <>[](live /\ inView /\ every) => []<>(current # Nothing)
=============================================================================
