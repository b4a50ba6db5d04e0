---------------------------- MODULE MCLiveStream ----------------------------
(***************************************************************************)
(* LiveStream on small instances: one to three screens of one owner.       *)
(* A tick is one unit of time where only the order of events matters, two  *)
(* where the age of what was sent does.                                    *)
(***************************************************************************)
EXTENDS LiveStream, TLC

CONSTANTS a, b, third, ann

Owns == [s \in Screen |-> ann]

Symmetric == Permutations(Screen)
=============================================================================
