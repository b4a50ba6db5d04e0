------------------------------ MODULE Highlight ------------------------------
(***************************************************************************)
(* The wall screen's live list and its short highlight (useChangeHighlight,*)
(* liveList.ts, Overview.tsx): what is marked New, what stays on screen    *)
(* marked Cleared, and for how long.                                       *)
(*                                                                         *)
(* A problem is its place in the order of worstFirst, 1 the worst.  A step *)
(* is a commit with its effects, so the baseline (previous, previousHeld)  *)
(* is the list on screen; the list comes from the stream or from a poll.   *)
(***************************************************************************)
EXTENDS Integers, FiniteSets

CONSTANTS
  Problem,        \* the places 1..n
  LiveRows,       \* LIVE_ROWS
  HighlightMs     \* HIGHLIGHT_MS, in ticks

ASSUME HighlightAssumption ==
  /\ Problem \subseteq Nat /\ IsFiniteSet(Problem)
  /\ LiveRows \in Nat \ {0} /\ HighlightMs \in Nat \ {0}

VARIABLES
  list,       \* the open problems and those held in a maintenance window
  on,         \* a wall, and no less motion asked for
  fresh,      \* the problems marked New, each with the ticks it has left
  gone        \* those marked Cleared

highlightVars == <<list, on, fresh, gone>>

Unlisted == [loaded |-> FALSE, open |-> {}, held |-> {}]
Listed(o, h) == [loaded |-> TRUE, open |-> o, held |-> h]

-----------------------------------------------------------------------------
Worse(p, ps) == {q \in ps : q < p}

\* topRows
TopRows(ps) == {p \in ps : Cardinality(Worse(p, ps)) < LiveRows}

\* The rows on screen: liveRows of the open problems and the cleared.
Rows(open, cleared) ==
  {p \in open : Cardinality(Worse(p, open)) < LiveRows}
    \cup {p \in cleared \ open :
            \A q \in Worse(p, open) : Cardinality(Worse(q, open)) < LiveRows}

OnScreen == Rows(list.open, DOMAIN gone)

StillPlaced(p, open) == p \in TopRows(open \cup {p})

Within(marks, ps) == [p \in ps |-> marks[p]]
WithAll(marks, ps) == [p \in DOMAIN marks \cup ps |-> IF p \in ps THEN HighlightMs ELSE marks[p]]
NoMarks == [p \in {} |-> 0]

\* What of the cleared stays: not one that is open again, nor one pushed off.
\*
\* Fault: one pushed off waits for its place.
KeptCleared_WaitsForPlace(open) == {p \in DOMAIN gone : p \notin open}

KeptCleared(open) == {p \in DOMAIN gone : p \notin open /\ StillPlaced(p, open)}

\* A new list is committed, with the effect that compares it to the list.
NewList(open, held) ==
  /\ list' = Listed(open, held)
  /\ UNCHANGED on
  /\ IF ~list.loaded \/ ~on THEN UNCHANGED <<fresh, gone>>
     ELSE LET added == {p \in open : p \notin list.open \cup list.held}
              removed == {p \in TopRows(list.open) :
                            p \notin open \cup held /\ StillPlaced(p, open)}
          IN /\ fresh' = WithAll(fresh, added)
             /\ gone' = WithAll(Within(gone, KeptCleared(open)), removed)

\* A frame of the stream, or the answer of a poll.
ListArrives ==
  \E open, held \in SUBSET Problem :
    /\ open \cap held = {}
    /\ Listed(open, held) # list
    /\ NewList(open, held)

\* Wall mode or the system's setting is switched, and turning off drops the
\* marks.
SwitchMotion ==
  /\ on' = ~on
  /\ fresh' = NoMarks /\ gone' = NoMarks
  /\ UNCHANGED list

\* Time passes; the timer drops each mark when its time is up.
Left(marks) == {p \in DOMAIN marks : marks[p] > 1}

MarksAge ==
  /\ DOMAIN fresh \cup DOMAIN gone # {}
  /\ fresh' = [p \in Left(fresh) |-> fresh[p] - 1]
  /\ gone' = [p \in Left(gone) |-> gone[p] - 1]
  /\ UNCHANGED <<list, on>>

-----------------------------------------------------------------------------
HighlightInit ==
  /\ list = Unlisted
  /\ on = FALSE
  /\ fresh = NoMarks /\ gone = NoMarks

HighlightNext == ListArrives \/ SwitchMotion \/ MarksAge

HighlightSpec == HighlightInit /\ [][HighlightNext]_highlightVars

-----------------------------------------------------------------------------
\* "A row must not vanish and come back later marked Cleared" (the hook's
\* comment): whatever is marked Cleared on screen was on screen the moment
\* before, and nothing marked Cleared waits off the screen, whichever order
\* problems appear in, clear in and go into maintenance in.
ClearedWereShown ==
  [][ \A p \in DOMAIN gone' \ list'.open : p \in OnScreen /\ p \in OnScreen' ]_highlightVars
=============================================================================
