------------------------------- MODULE Counts -------------------------------
(* How often something occurs in a sequence.                                *)
EXTENDS Naturals, Sequences, FiniteSets

Positions(q, T) == {i \in 1 .. Len(q) : q[i] \in T}
Occurrences(q, T) == Cardinality(Positions(q, T))
=============================================================================
