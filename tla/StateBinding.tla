---------------------------- MODULE StateBinding ----------------------------
(***************************************************************************)
(* Prepare and commit of state-bound effects: state_binding.prepare and    *)
(* commit, and the agent_state half of CapabilityStore.                    *)
(*                                                                         *)
(* prepare reads a snapshot under the store's lock, runs the policy        *)
(* outside it and signs a preview.  commit consumes the capability,        *)
(* compares the live state with the preview's binding and writes, in one   *)
(* transaction.  Agents interleave between these steps, and a preview,     *)
(* once signed, may be committed by anyone, with any capability, any       *)
(* number of times.                                                        *)
(*                                                                         *)
(* commit's checks before the lock read only the preview and the envelope, *)
(* which never change, so they are part of its one step.  A refusal (an    *)
(* expired preview, or a capability that is revoked, expired, not the      *)
(* holder's: module CapabilityStore) leaves the preview to be tried again. *)
(***************************************************************************)
EXTENDS Naturals, FiniteSets

CONSTANTS
  Agents,          \* threads that prepare and commit
  PreviewIds,      \* preview ids the authority may draw
  Keys, Values,    \* agent_state: keys and what they may hold (Absent: no row)
  CapabilityIds,   \* capabilities
  ActionOf,        \* the action digest each is bound to
  Actions,         \* action digests of the envelopes
  ReadSets,        \* read_keys a caller may ask for
  Plans(_, _),     \* planned_writes the policy may allow: Plans(values, action)
  Deployments,     \* the writes deployment makes with write_state
  MaxVersion,      \* bound on the number of state changes
  Absent

Snapshots == UNION {[keys -> Values] : keys \in ReadSets}
Writes    == UNION {[keys -> Values] : keys \in SUBSET Keys}
Previews  == [action: Actions, version: Nat, view: Snapshots, plan: Writes]

ASSUME BindingAssumption ==
  /\ ActionOf \in [CapabilityIds -> Actions]
  /\ ReadSets \subseteq (SUBSET Keys) \ {{}}
  /\ \A view \in Snapshots, a \in Actions : Plans(view, a) \subseteq Writes
  /\ Deployments \subseteq Writes \ {<<>>}
  /\ MaxVersion \in Nat

VARIABLES
  version, state,  \* meta.state_version and table agent_state
  capRow,          \* the capability's row: ISSUED or CONSUMED
  agent,           \* what each agent is in the middle of
  preview,         \* the signed previews
  commits          \* history: <<preview, capability>> of every commit

bindingVars == <<version, state, capRow, agent, preview, commits>>

IdleAgent == [pc |-> "idle"]

Read(keys) == [k \in keys |-> state[k]]

\* Mutant of Updated: the writes replace the table.
ReplacedBy(plan) == plan

Updated(plan) == [k \in Keys |-> IF k \in DOMAIN plan THEN plan[k] ELSE state[k]]

BindingInit ==
  /\ version = 0
  /\ state \in [Keys -> Values]
  /\ capRow = [c \in CapabilityIds |-> "ISSUED"]
  /\ agent = [t \in Agents |-> IdleAgent]
  /\ preview = [p \in PreviewIds |-> Absent]
  /\ commits = {}

-----------------------------------------------------------------------------
(* prepare *)

\* store.read_state: version and values under one lock
PrepareRead(t, a, keys) ==
  /\ agent[t] = IdleAgent
  /\ agent' = [agent EXCEPT ![t] =
       [pc |-> "deciding", action |-> a, version |-> version, view |-> Read(keys)]]
  /\ UNCHANGED <<version, state, capRow, preview, commits>>

\* policy_fn allows: the preview carries the snapshot it decided on
PrepareSign(t, p, plan) ==
  /\ agent[t].pc = "deciding"
  /\ plan \in Plans(agent[t].view, agent[t].action)
  /\ preview[p] = Absent
  /\ preview' = [preview EXCEPT ![p] =
       [action |-> agent[t].action, version |-> agent[t].version, view |-> agent[t].view,
        plan |-> plan]]
  /\ agent' = [agent EXCEPT ![t] = IdleAgent]
  /\ UNCHANGED <<version, state, capRow, commits>>

\* StatePolicyDenied: no preview is returned
PrepareDenied(t) ==
  /\ agent[t].pc = "deciding"
  /\ Plans(agent[t].view, agent[t].action) = {}
  /\ agent' = [agent EXCEPT ![t] = IdleAgent]
  /\ UNCHANGED <<version, state, capRow, preview, commits>>

-----------------------------------------------------------------------------
(* commit *)

WritesWithinReads(p) == DOMAIN preview[p].plan \subseteq DOMAIN preview[p].view

Consumable(p, c) == capRow[c] = "ISSUED" /\ ActionOf[c] = preview[p].action

\* Mutant of StateMatches: only the values of the written keys are compared.
WrittenKeysMatch(p) ==
  \A k \in DOMAIN preview[p].plan : k \in DOMAIN preview[p].view => state[k] = preview[p].view[k]

\* version and digest of the live state are the preview's
StateMatches(p) == version = preview[p].version /\ Read(DOMAIN preview[p].view) = preview[p].view

CanCommit(p, c) == WritesWithinReads(p) /\ Consumable(p, c) /\ StateMatches(p)

\* Mutant of CommitStateBound: the capability is not consumed with the effect.
CommitWithoutConsuming(p, c) ==
  /\ preview[p] # Absent
  /\ CanCommit(p, c)
  /\ version < MaxVersion
  /\ state' = Updated(preview[p].plan)
  /\ version' = version + 1
  /\ commits' = commits \cup {<<p, c>>}
  /\ UNCHANGED <<capRow, agent, preview>>

\* store.commit_state_bound: consume, compare, write and bump ...
CommitStateBound(p, c) ==
  /\ preview[p] # Absent
  /\ CanCommit(p, c)
  /\ version < MaxVersion
  /\ capRow' = [capRow EXCEPT ![c] = "CONSUMED"]
  /\ state' = Updated(preview[p].plan)
  /\ version' = version + 1
  /\ commits' = commits \cup {<<p, c>>}
  /\ UNCHANGED <<agent, preview>>

\* ... or roll back, leaving the capability ISSUED and the state as it is.
CommitRefused(p, c) ==
  /\ preview[p] # Absent
  /\ ~CanCommit(p, c)
  /\ UNCHANGED bindingVars

-----------------------------------------------------------------------------
(* What happens around them *)

\* store.write_state: deployment writes outside the commit path
WriteState(writes) ==
  /\ version < MaxVersion
  /\ state' = Updated(writes)
  /\ version' = version + 1
  /\ UNCHANGED <<capRow, agent, preview, commits>>

\* consume_capability through another enforcement point
ConsumeElsewhere(c) ==
  /\ capRow[c] = "ISSUED"
  /\ capRow' = [capRow EXCEPT ![c] = "CONSUMED"]
  /\ UNCHANGED <<version, state, agent, preview, commits>>

\* An agent crashes while its policy runs; a transaction in flight is rolled back.
Crash(t) ==
  /\ agent[t] # IdleAgent
  /\ agent' = [agent EXCEPT ![t] = IdleAgent]
  /\ UNCHANGED <<version, state, capRow, preview, commits>>

BindingNext ==
  \/ \E t \in Agents, a \in Actions, keys \in ReadSets : PrepareRead(t, a, keys)
  \/ \E t \in Agents, p \in PreviewIds, plan \in Writes : PrepareSign(t, p, plan)
  \/ \E t \in Agents : PrepareDenied(t) \/ Crash(t)
  \/ \E p \in PreviewIds, c \in CapabilityIds : CommitStateBound(p, c) \/ CommitRefused(p, c)
  \/ \E writes \in Deployments : WriteState(writes)
  \/ \E c \in CapabilityIds : ConsumeElsewhere(c)

BindingSpec == BindingInit /\ [][BindingNext]_bindingVars

-----------------------------------------------------------------------------
(* Properties *)

\* Every variable stays in its range.
BindingTypeOK ==
  /\ version \in Nat
  /\ state \in [Keys -> Values]
  /\ capRow \in [CapabilityIds -> {"ISSUED", "CONSUMED"}]
  /\ agent \in [Agents ->
       {IdleAgent}
         \cup [pc: {"deciding"}, action: Actions, version: Nat, view: Snapshots]]
  /\ preview \in [PreviewIds -> Previews \cup {Absent}]
  /\ commits \subseteq PreviewIds \X CapabilityIds

\* The promise: every effect is the policy's decision on the state it lands in,
\* each paid for with a capability of its own.
Promise == INSTANCE AtomicEffects
  WITH Caps <- CapabilityIds, spent <- {c \in CapabilityIds : capRow[c] = "CONSUMED"}
Implements == Promise!Spec

\* Of the previews prepared at one version of the state at most one is committed,
\* and that once, by whichever agents hold them and with whichever capabilities; and
\* a capability pays for at most one commit.
CommitsAreExclusive ==
  \A x, y \in commits :
    preview[x[1]].version = preview[y[1]].version \/ x[2] = y[2] => x = y
=============================================================================
