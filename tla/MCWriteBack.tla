----------------------------- MODULE MCWriteBack -----------------------------
(***************************************************************************)
(* WriteBack on small instances.  Time is in units of HOLD_TTL_MS; the     *)
(* hold is shorter than in the code, and the ttl longer than the hold, as  *)
(* the 30 s of 'stats' are longer than the 15 s of WRITE_HOLD_MS.          *)
(*                                                                         *)
(* Keys: one STALE_AFTER_WRITE lists ('stats'), one that shows problem     *)
(* counts and is not listed ('devices', routes/devices.ts), and a report   *)
(* with a stale window and a fallback ('sli:...', services/sli.ts).        *)
(***************************************************************************)
EXTENDS WriteBack, TLC

CONSTANTS stats, devices, sli, listed

WriteMatch == listed :> {stats} \cap Key
WriteOpt == [k \in Key |-> IF k = sli THEN [ttl |-> 1, stale |-> 1, onError |-> TRUE, pin |-> TRUE]
                           ELSE [ttl |-> 3, stale |-> 0, onError |-> FALSE, pin |-> FALSE]]
ProblemKeys == {stats, devices} \cap Key

Symmetric == Permutations(Caller) \cup Permutations(Flight)
=============================================================================
