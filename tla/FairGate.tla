------------------------------- MODULE FairGate -------------------------------
(***************************************************************************)
(* What the three "so many at once" gates of the BFF promise their users:  *)
(* core/gate.ts (the slow reports), the local model's slot and the hosted  *)
(* calls' places (clients/ai.ts).  At most Limit are inside; whoever finds *)
(* no place waits in line; a place that comes free goes to the head of the *)
(* line; one who is tired of waiting may leave the line.                   *)
(***************************************************************************)
EXTENDS Integers, Sequences, FiniteSets, SequencesExt

CONSTANTS Request, Limit

VARIABLES inside, line

gateVars == <<inside, line>>

InLine(r) == \E i \in 1..Len(line) : line[i] = r

\* There is a place and nobody has been waiting for it.
Enter(r) ==
  /\ r \notin inside /\ ~InLine(r)
  /\ Cardinality(inside) < Limit /\ line = <<>>
  /\ inside' = inside \cup {r}
  /\ UNCHANGED line

LineUp(r) ==
  /\ r \notin inside /\ ~InLine(r)
  /\ Cardinality(inside) >= Limit
  /\ line' = Append(line, r)
  /\ UNCHANGED inside

\* The place of one who leaves passes to the head of the line, if there is one.
Depart(r) ==
  /\ r \in inside
  /\ IF line = <<>>
     THEN inside' = inside \ {r} /\ UNCHANGED line
     ELSE inside' = (inside \ {r}) \cup {Head(line)} /\ line' = Tail(line)

GiveUp(r) ==
  /\ \E i \in 1..Len(line) : line[i] = r /\ line' = RemoveAt(line, i)
  /\ UNCHANGED inside

GateInit == inside = {} /\ line = <<>>

GateNext == \E r \in Request : Enter(r) \/ LineUp(r) \/ Depart(r) \/ GiveUp(r)

GateSpec == GateInit /\ [][GateNext]_gateVars

=============================================================================
