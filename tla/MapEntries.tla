----------------------------- MODULE MapEntries -----------------------------
(***************************************************************************)
(* The entries of a JavaScript Map in the order they were put in, as a     *)
(* sequence: deleting some leaves the others in their order.               *)
(***************************************************************************)
EXTENDS Naturals, Sequences, FiniteSets

\* The entries at the given places, in their order.
KeptEntries(entries, places) ==
  LET nth(n) == CHOOSE i \in places : Cardinality({j \in places : j <= i}) = n
  IN [n \in 1..Cardinality(places) |-> entries[nth(n)]]
=============================================================================
