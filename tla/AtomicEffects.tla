--------------------------- MODULE AtomicEffects ---------------------------
(***************************************************************************)
(* What prepare/commit promises (state_binding.py): an effect is a policy  *)
(* decision on the state as it is when the effect happens, applied in one  *)
(* step, and each capability pays for at most one effect.                  *)
(***************************************************************************)
CONSTANTS
  Keys, Values,    \* agent_state: keys and what they may hold
  Caps,            \* capabilities
  ActionOf,        \* the action each capability is bound to
  ReadSets,        \* the sets of keys a caller may ask the policy to read
  Plans(_, _)      \* the writes a policy may allow: Plans(values, action)

VARIABLES
  state,           \* the governed state
  spent            \* capabilities that have been used

Restricted(keys) == [k \in keys |-> state[k]]
Updated(plan) == [k \in Keys |-> IF k \in DOMAIN plan THEN plan[k] ELSE state[k]]

Init == state \in [Keys -> Values] /\ spent = {}

\* The policy decides on what it reads now, and its writes land now.
Effect(c, keys, plan) ==
  /\ c \notin spent
  /\ plan \in Plans(Restricted(keys), ActionOf[c])
  /\ DOMAIN plan \subseteq keys
  /\ state' = Updated(plan)
  /\ spent' = spent \cup {c}

\* The state also changes by deployment, without a policy and a capability.
Deploy == state' \in [Keys -> Values] /\ UNCHANGED spent

\* A capability may be used for something that is not a state effect.
UseElsewhere(c) == c \notin spent /\ spent' = spent \cup {c} /\ UNCHANGED state

Next ==
  \/ \E c \in Caps, keys \in ReadSets : \E plan \in Plans(Restricted(keys), ActionOf[c]) :
       Effect(c, keys, plan)
  \/ Deploy
  \/ \E c \in Caps : UseElsewhere(c)

Spec == Init /\ [][Next]_<<state, spent>>
=============================================================================
