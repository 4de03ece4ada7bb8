---------------------------- MODULE MCTurnStore ----------------------------
(* TurnStore on small sets; t1 and t2 are Turns of one agent, t3 of another. *)
EXTENDS TurnStore, TLC

CONSTANTS a1, a2, t1, t2, t3

MCTargetOf == [t \in Turn |-> IF t = t3 THEN a2 ELSE a1]

\* Attempt identifiers are interchangeable, and so are t1 and t2.
Symmetric == Permutations(Attempt) \cup Permutations({t1, t2})
============================================================================
