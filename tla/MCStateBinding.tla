--------------------------- MODULE MCStateBinding ---------------------------
(* StateBinding with two policies over a balance and a tally, both for a      *)
(* positive balance only: "spend" takes a unit from it, "note" writes the     *)
(* tally, which it may or may not have read.                                  *)
EXTENDS StateBinding, TLC

MCActionOf == [c \in CapabilityIds |-> IF c = "c1" THEN "note" ELSE "spend"]

MCPlans(view, action) ==
  LET unit == IF action = "spend" THEN ("balance" :> view["balance"] - 1) ELSE ("tally" :> 1)
  IN  IF "balance" \in DOMAIN view /\ view["balance"] > 0 THEN {unit} ELSE {}

MCReadSets == {{"balance"}, {"balance", "tally"}}
MCDeployments == {("balance" :> 1), ("tally" :> 0)}
Symmetry == Permutations(Agents) \cup Permutations(PreviewIds)
=============================================================================
