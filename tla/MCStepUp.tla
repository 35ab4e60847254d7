----------------------------- MODULE MCStepUp -----------------------------
(* StepUp with a quorum that one approval satisfies and one that needs both  *)
(* of its keys.                                                              *)
EXTENDS StepUp, TLC

CONSTANTS q1, q2, hard
MCRequired == [q \in Quorums |-> IF q = q1 THEN 1 ELSE 2]
MCOnes     == [q \in Quorums |-> 1]
MCCounts   == [k \in Keys |-> IF k = hard THEN 2 ELSE 1]
MCTwos     == [k \in Keys |-> 2]
MCCapacity == [q \in Quorums |-> 2]
Symmetry == Permutations(Challenges) \cup Permutations(Actions)
=============================================================================
