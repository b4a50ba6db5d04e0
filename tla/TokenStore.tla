----------------------------- MODULE TokenStore -----------------------------
(***************************************************************************)
(* The sessions of the BFF (security/auth.ts).  A token is its serial      *)
(* number; whose it is matters to nothing here.  The BFF keeps nothing of  *)
(* the tokens it signs but `signedOut', the Map of those signed out before *)
(* they end: in memory, so a restart forgets it, and capped at             *)
(* LOGIN_FAIL_KEYS, the oldest dropped first.                              *)
(*                                                                         *)
(* The Map is kept as a log of what was put in it since the BFF started    *)
(* and the positions of that log still there, which gives its insertion    *)
(* order.  All tokens have one lifetime (SESSION_HOURS), so they end in    *)
(* the order they were signed: `lapsed' is the last that has.  The user    *)
(* list and SESSION_EPOCH do not change.                                   *)
(***************************************************************************)
EXTENDS Naturals, Sequences, FiniteSets, FiniteSetsExt

CONSTANTS
  MaxTokens,      \* bound: tokens signed
  MaxSignedOut    \* LOGIN_FAIL_KEYS, the cap of signedOut

ASSUME TokenAssumption == MaxTokens \in Nat /\ MaxSignedOut \in Nat \ {0}

VARIABLES
  issued,     \* how many tokens were signed
  lapsed,     \* tokens 1..lapsed are past their exp
  puts,       \* the tokens put in signedOut since the BFF started, in order
  kept        \* the positions of puts still in it

tokenVars == <<issued, lapsed, puts, kept>>

NoToken == 0
Issued == 1..issued

TokenTypeOK ==
  /\ issued \in Nat
  /\ lapsed \in 0..issued
  /\ puts \in Seq(Issued)
  /\ kept \subseteq 1..Len(puts)

SignedOut(t) == \E i \in kept : puts[i] = t

\* authenticate
Accepts(t) == t \in Issued /\ t > lapsed /\ ~SignedOut(t)

\* issue
Issue ==
  /\ issued < MaxTokens
  /\ issued' = issued + 1
  /\ UNCHANGED <<lapsed, puts, kept>>

\* Those that have ended are dropped first.
Pruned == {i \in kept : puts[i] > lapsed}

\* Over the cap the oldest goes.
\*
\* Fault: the newest goes.
WithinCap_Newest(S) == IF Cardinality(S) > MaxSignedOut THEN S \ {Max(S)} ELSE S

WithinCap(S) == IF Cardinality(S) > MaxSignedOut THEN S \ {Min(S)} ELSE S

\* POST /api/auth/logout.  Only a token this BFF signed and that has not ended
\* is remembered; one already there keeps its place.
SignOutToken(t) ==
  /\ UNCHANGED <<issued, lapsed>>
  /\ IF t \notin Issued \/ t <= lapsed
     THEN UNCHANGED <<puts, kept>>
     ELSE IF SignedOut(t)
     THEN kept' = Pruned /\ UNCHANGED puts
     ELSE /\ puts' = Append(puts, t)
          /\ kept' = WithinCap(Pruned \cup {Len(puts) + 1})

Lapse ==
  /\ lapsed < issued
  /\ lapsed' = lapsed + 1
  /\ UNCHANGED <<issued, puts, kept>>

\* The BFF starts again: the Map is empty, every token signed before is good.
Restart ==
  /\ puts' = <<>> /\ kept' = {}
  /\ UNCHANGED <<issued, lapsed>>

TokenInit == issued = 0 /\ lapsed = 0 /\ puts = <<>> /\ kept = {}

TokenNext ==
  \/ Issue
  \/ \E t \in Issued : SignOutToken(t)
  \/ Lapse
  \/ Restart

TokenSpec == TokenInit /\ [][TokenNext]_tokenVars

-----------------------------------------------------------------------------
\* A token that was signed out is refused for as long as the BFF runs, unless
\* MaxSignedOut others were signed out after it: made-up tokens, ended ones and
\* the same one again push nothing out (auth.ts, `signedOut').
SignedOutRefused ==
  \A i \in 1..Len(puts) : Accepts(puts[i]) => Len(puts) - i >= MaxSignedOut
=============================================================================
