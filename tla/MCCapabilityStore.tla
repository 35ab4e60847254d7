------------------------- MODULE MCCapabilityStore -------------------------
(* CapabilityStore with what bounds TLC's search: the symmetries and, for the *)
(* run about revocation, a start from mandates that are already running.      *)
EXTENDS CapabilityStore, TLC

Symmetry ==
  Permutations(Caps) \cup Permutations(Minters) \cup Permutations(Consumers)
    \cup Permutations(Syncers)

\* Every mandate has been created without limits, issued and activated at time 0.
InitRunning ==
  \E d \in Digests, h \in Holders, ttl \in Lifetimes, s \in StalenessBounds :
    InitWith([m \in Mandates |-> "ACTIVE"],
             [m \in Mandates |-> [kind |-> "mandate", digest |-> d, holder |-> h,
                spendLimit |-> None, expiresAt |-> ttl, staleness |-> s, mandate |-> m]])

SpecRunning == InitRunning /\ [][Next]_vars

\* No mandate is paused or ended.
MandatesStayActive == \A m \in Mandates : lifecycle[m] = "ACTIVE"
=============================================================================
