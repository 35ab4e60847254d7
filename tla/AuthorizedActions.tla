------------------------- MODULE AuthorizedActions -------------------------
(***************************************************************************)
(* What the enforcement points promise (pep.py, mcp_gateway.py): an action *)
(* is performed only on a capability that was granted for exactly that     *)
(* action and has been spent on it, and one capability is good for one     *)
(* performance, by whichever enforcement point.                            *)
(***************************************************************************)
EXTENDS Naturals

CONSTANTS Caps, Actions, ActionOf

VARIABLES
  granted,     \* capabilities that may still be spent
  spent,       \* capabilities that have been spent
  performed    \* how often each action was performed on each capability

Init ==
  /\ granted = Caps
  /\ spent = {}
  /\ performed = [c \in Caps |-> [a \in Actions |-> 0]]

Withdraw(c) == granted' = granted \ {c} /\ UNCHANGED <<spent, performed>>

Spend(c) ==
  /\ c \in granted \ spent
  /\ spent' = spent \cup {c}
  /\ UNCHANGED <<granted, performed>>

Perform(c) ==
  /\ c \in spent
  /\ \A a \in Actions : performed[c][a] = 0
  /\ performed' = [performed EXCEPT ![c][ActionOf[c]] = 1]
  /\ UNCHANGED <<granted, spent>>

Next == \E c \in Caps : Withdraw(c) \/ Spend(c) \/ Perform(c)

Spec == Init /\ [][Next]_<<granted, spent, performed>>
=============================================================================
