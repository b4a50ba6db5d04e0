----------------------------- MODULE MCTtlCache -----------------------------
(***************************************************************************)
(* TtlCache on small instances.  Time is in units of HOLD_TTL_MS.          *)
(*                                                                         *)
(* Freshness: one key with every option a call site passes (stale window,  *)
(* fallback on error, pin), which takes every path of cached(), and two    *)
(* prefixes that match it, whose holds overlap.  Capacity: two pinned and  *)
(* two unpinned keys, values of one to five units, caps that three values  *)
(* can overrun.                                                            *)
(***************************************************************************)
EXTENDS TtlCache, TLC

CONSTANTS report, p1, p2, a, b, x, y

FreshKeys == {report}
FreshPrefixes == {p1, p2}
FreshMatch == p1 :> {report} @@ p2 :> {report}
FreshOpt == report :> [ttl |-> 2, stale |-> 1, onError |-> TRUE, pin |-> TRUE]

CapKeys == {a, b, x, y}
CapPrefixes == {p1, p2}
CapMatch == p1 :> {a, x} @@ p2 :> CapKeys
CapOpt == [k \in CapKeys |-> [ttl |-> 1, stale |-> 1, onError |-> TRUE, pin |-> k \in {a, b}]]
=============================================================================
