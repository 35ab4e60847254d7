--------------------------- MODULE MCEnforcement ---------------------------
(* Enforcement with one action per plane and the given capabilities, each for *)
(* the action it is named after.                                              *)
EXTENDS Enforcement, TLC

MCActionOf == [c \in Caps |-> IF c = "c1" THEN "exec" ELSE IF c = "c2" THEN "get" ELSE "tool"]
MCPlaneOf ==
  [a \in Actions |-> IF a = "exec" THEN "shell" ELSE IF a = "get" THEN "http" ELSE "mcp"]
Symmetry == Permutations(Callers)
=============================================================================
