----------------------------- MODULE MC_Workers -----------------------------
(* Workers for TLC: one run and one job; the job asks for a label that only *)
(* one of the two workers has.                                              *)
EXTENDS Workers, TLC

CONSTANTS r1, j1, w1, w2, d1, d2, d3

MCLabels == [w \in Workers |-> IF w = w1 THEN {"gpu"} ELSE {}]

MCRequired == [t \in Tasks |-> IF t \in Jobs THEN {"gpu"} ELSE {}]

\* Identifiers of deliveries are interchangeable.
Symmetry == Permutations(Deliveries)

=============================================================================
