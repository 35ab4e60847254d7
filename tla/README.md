# ANCHOR v1 in TLA+

ANCHOR v1 (`src/src/anchor_v1`) is an authority layer for AI agents: every effect
an agent has passes an enforcement point that consumes a signed, narrowly scoped
capability exactly once. This directory holds TLA+ models of the parts of it that
keep state, the TLC runs that check them on small instances, and theorems about
them that TLAPS proves for every instance.

`tlc -config Budget.cfg MCCapabilityStore` model-checks a run (the table below
gives each run's module), `tlapm CapabilityStoreProofs.tla` checks the proofs.

## 1. Inventory

How the parts hang together: an *authority* signs mandates and mints capabilities
under them; the *store* keeps the only mutable truth about them (lifecycle,
budget, ISSUED/CONSUMED, a view of revocations). The *enforcement points* (shell,
egress, MCP gateway) resolve an action in their own tables, consume a capability
in the store and act. *State binding* ties a consumption to the governed state
that a policy decided on. The *Guardian* receives agent events from the wire, runs
a decision function and mints through a callback; humans answer what it asks.
*Step-up quorums* produce the approval records that high-risk decisions need.
Around these stand offline documents (tokens, delegations, constitutions,
checkpoints, transparency receipts) whose verification is stateless except for a
few ledgers.

| component | state | operations | what is hard | what makes it correct |
|---|---|---|---|---|
| `store.py` | mandates, capabilities, revocations, agent_state in SQLite; one lock | create/transition mandate, debit, register, consume, check, sync_revocations, revoke, read/write_state, commit_state_bound | a mint is three calls with crashes between; clocks read before the lock; overlapping syncs | the ledger equals what was reserved; single use; no overspending; bounded revocation and expiry windows |
| `authority.py` | keys only | issue, mint_child (attenuation), verify | called between the store's transactions | a child never exceeds its parent |
| `state_binding.py` | signed previews, outside the store | prepare, commit | decide on a snapshot, commit later, on anything | an effect equals a decision on the live state |
| `stepup.py` | sign counts per verifier; burned and in-flight challenge registries; quorum progress | create/verify assertion, approve, abandon, finalize, verify record | three shared structures, two locks' worth of critical sections, no lock on counts | no challenge serves two quorums; m distinct approvers |
| `acs_guardian.py` | nonces, pending entries, a decision pool | handle_frame, handle_event, resolve_pending | replays and skewed clocks, hanging decisions, racing resolvers | a nonce once; a capability once; always an answer |
| `pep.py` | registered commands and routes, secrets | ShellPEP.execute, EgressProxy.authorize_http, register_* | resolve / consume / act without a lock, failures after the consumption | no action without its own capability; none twice; no capability burned for nothing |
| `mcp_gateway.py` | registered tools | tools_list, tools_call, receipts | as above, plus receipts | receipts are true |
| `planes.py` | token nonces | decide | check-then-add of a nonce without a lock | a token is allowed once by one thread, and once per thread at the most |
| `attenuated_tokens.py` | none (signed documents) | issue, attenuate, verify, _check_subsumption | ten rules of narrowing, over long chains and over children that `attenuate` did not build | a child authorizes nothing that its parent does not |
| `delegation_chains.py`, `a2a.py` | none (signed documents) | issue, delegate, propagate, verify | narrowing over long chains, holders off the protocol | no link widens |
| `multisig_constitution.py` | a chain of versions | admit, rotation of signers | who may admit the next version after rotations | every version had its own position's quorum |
| `shadow_mode.py` | mode, last sequence, nonces, record chain | evaluate, apply_mode_change, verify_log | a mode change during an evaluation or another change; no lock | an action is spared only while the newest change says so |
| `agent_identity.py` | a registry of DIDs, revoked assertions, without a lock | register, resolve, revoke_assertion | registering again | what was revoked stays revoked |
| `anchored_checkpoints.py` | an evidence log, an anchor's log, a checkpoint chain with its active signer | append, register_signer, seal, verify_checkpoint_chain, verify_inclusion | tiling, root links and rotation over a chain; seal waits for an anchor without a lock; stolen keys | the kept chain verifies; a fork needs the key that is active at its position |
| `scitt.py` | a Merkle log of statements | register, add_receipt, verify_transparent_statement | two lists appended to and read without a lock; a receipt's index, size and path are not signed | what verifies is in the log, a lone registration's receipt verifies |
| `provenance.py` | versioned data, an audit chain | write, read | capability checked before the lock | reads are authorized and audited |
| `identity_adapters.py`, `policy_providers.py` | almost none | verify credentials, evaluate policies | formats and expression evaluation | (data, not states) |
| `canonical.py`, `cbor.py`, `cose.py`, `crypto.py`, `envelope.py`, `models.py` | none | conversions, signatures | bytes | (data, not states) |
| `src/rust/verifier` | none | a second, offline verification of documents | bytes | (data, not states) |

`PROJECT.json` lists every component with what is modelled of it, and every hazard
at the line where it bites with the properties that watch it.

## 2. The modules and the code

### CapabilityStore (with MCCapabilityStore, CapabilityStoreProofs)

`store.py` and what `authority.py` signs for it. Every public method is one SQLite
transaction under one lock, so it is one action. What the lock does not cover is
split into the steps of a thread:

* a mint is `Sign` (authority.mint_child), `DebitMandateForChild` and
  `RegisterCapability`: three calls, with other threads and crashes in between;
* `consume_capability` reads the clock (`ReadClock`) before it takes the lock
  (`ConsumeCapability`, which carries every check of the code in its guard;
  `ConsumeRefused` and `CheckCapability` leave everything as it is);
* `sync_revocations` gets the authority's list (`FetchRevocations`), reads the
  clock (`SyncCall`) and commits (`SyncCommit`); `revoke` is the same with one id.

`CrashRestart` forgets every thread's progress and keeps the database, as SQLite
does. The payload of a capability is a record of the fields the checks read; a
signature is the fact that `payload[c]` was set by `Sign`. History variables
(`debited`, `spendConsumed`, `lastHeard`, ...) only record, and are named as such
in the module.

### StateBinding, AtomicEffects (with MCStateBinding, CapabilityStoreProofs)

`state_binding.prepare` is two steps (`PrepareRead` under the store's lock,
`PrepareSign` after the policy has run outside it); `commit` is one
(`CommitStateBound`): its checks before the transaction read only immutable
documents. `WriteState` is the deployment's own write, `ConsumeElsewhere` any other
consumption of the same capabilities. `AtomicEffects` is the promise: an effect
happens in one step, decided on the state it changes, paid for by an unused
capability of that action. `Implements` states that StateBinding refines it, with
`spent` the consumed capabilities.

### StepUp (with MCStepUp, StepUpProofs)

`WebAuthnVerifier.verify_assertion` is a read of the stored count and a later write
(`ReadSignCount`, `VerifyAssertion`); `QuorumApproval.approve` is the burned check
(`ApproveStart`), the verification and the claim of the challenge
(`RecordApproval`); `finalize` burns the challenge (`FinalizeBurn`) and then seals
and releases (`FinalizeSeal`). The registries are class-level and shared by all
quorums; a quorum has no lock and is driven by one thread. Devices are modelled
with their own counters, so that an assertion exists only if a device made it.

### Guardian (with MCGuardian, GuardianProofs)

A handler thread reads the clock and judges the timestamp (`FrameArrives`), then
takes the nonce lock, prunes and records (`AcceptNonce`, `ReplayDenied`), submits
the decision to the pool (`DecisionStarts`, `Decides`, `DecisionTimesOut`), and
mints or leaves a pending entry. Peers send frames with any of the given stamps and
deliver them any number of times. `resolve_pending` is a
pop of the entry (`TakePending`) and a mint (`Resolve`). A decision function may hold
the interpreter lock while it computes (`HoldsInterpreter`, `YieldsInterpreter`, the
variable `held`), waited for or not; until it yields no other thread takes a step, the
timeout of the one that waits included.

### Enforcement, AuthorizedActions (with MCEnforcement, EnforcementProofs)

`ShellPEP.execute`, `EgressProxy.authorize_http` and
`NativeMCPGateway.tools_call` over one store: `Present` resolves the action in the
point's own table, `Consume` is the store's step, `Dispatch` / `ReturnHeaders` act,
`CannotAct` is what can still fail after the consumption, `SignReceipt` is the MCP
gateway's receipt. Whether a wiring works is fixed: that a command starts at one time
and not at another is left out. `Wire` is the registration calls (a tool's name is taken for
good, commands and routes are overwritten), `Crash` may hit between any two steps.
`AuthorizedActions` is the promise: an action is performed on a capability that was
spent for exactly it, at most once; `Implements` states the refinement.

### Delegation (with MCDelegation, DelegationProofs)

`delegation_chains.py` and the delegation half of `a2a.py`. Receipts are documents:
`issue_root` and `delegate` are what an honest holder signs, `SignOffProtocol` is what
any other holder may sign instead ("a hostile delegator may have minted
off-protocol"). Both take the caller's `delegation_id` or draw one: a receipt is named by its
hash, an id that was drawn is that name, and one that was asked for is the id of any
receipt. A receipt knows its parent's hash, so a parent is signed before its child. `verify_chain` is its loop, one round a step
(`VerifyReceipt`): a round reads the receipts it has passed and none further
down, so the model picks the next receipt when it gets there and thereby
presents every chain. `propagate_delegation` mints the child capability,
`receive_delegation` ties chain, mandate and child together. Refusals, among
them every check of what is malformed or revoked, are `VerifyEnds`. `Verifies`,
`IsRoot`, `LinkedTo` and `WithinGrant` are the checks of a round in the code's
order. An agent's time of verification is one reading, as in the code.

### Constitution (with MCConstitution, ConstitutionProofs)

`multisig_constitution.py`. A constitution is named by its content hash and its
fields are constants, functions of that name. `ConstitutionalChain` objects are
built from a genesis (`Construct`), grow (`append`, of which `extend` is a sequence
that may stop anywhere) and are dropped after `verify_full_chain` or
`resolve_governed_version` has rebuilt one from untrusted input (`Drop`). All
admission is `_admit`: no duplicate, `Supersedes`, `HasQuorum` under the
position's trust config (`TrustAfter`). Some keys are dishonest and have signed
everything; the others sign what is in `Approved` only, in any order and at any
time. A trust config may list one key under two names, as `TrustConfig` allows.

### Decisions (with MCDecisions, DecisionsProofs)

`attenuated_tokens.py` and the three that decide by its tokens. `Issue` is
`issue_token`, `attenuate` builds a child and checks it as the code's own sanity check
does, `SignStray` is a child that an issuer's key signs without `attenuate`
(`verify` must judge those). `verify` is a guard: with a token's chain it calls
`_check_subsumption` (`Subsumes`) link by link. The governors have no lock, so each
decision is split where another thread can step in:

* `planes.DecisionGovernor.decide` verifies (`Decide`) and adds the nonce (`Allow`);
* a relying party that calls `verify` with a chain does the same
  (`VerifyWithChain`, `Accept`);
* `ShadowGovernor.evaluate` verifies (`Evaluate`), adds the nonce
  (`ConsumeToken`), reads the mode and the head of the log (`Judge`) and appends its
  record (`AppendRecord`).

`apply_mode_change` has no lock either: it compares the sequence with the last one
applied (`apply_mode_change`), writes the mode (`SetMode`) and writes the sequence
(`SetSequence`). Two calls may run at a time; `overlapped` records that they did.
Caveats are abstract values with a `Kind` and a `Bound`: an amount with its currency or
without, a set of hosts and one of URL prefixes of which either may be absent, a prefix of
resources, a number of uses, a time. Resources and URLs are compared by the constant
relations `Below`, an order, and `UrlOk`, which says which URLs a prefix admits.

### Evidence (with MCEvidence, EvidenceProofs)

`anchored_checkpoints.py`. An event carries the hash of the one before it, so the hash
of the i-th event is the ledger up to i, and the hash of a Merkle node is its pair of
children. The operator starts with no signer registered, as the code does. `append` and
`register_signer` are one step (the ledger has no lock, and is taken to have one appender); `CheckpointChain.seal` reads
the head and signs (`SealStarts`), waits for the anchor (`Anchored`, `AnchorFails`),
verifies the chain with the new checkpoint (`SealAdmits`), appends it
(`SealAppends`) and makes a declared signer the active one (`SealRotates`).
`StealKey` and `Forge` are outside the program: who holds a key signs any
checkpoint over any ledger, and has it anchored. `verify_checkpoint_chain`,
`verify_inclusion` and the Merkle functions are operators, called by `seal` and
by the properties, which present every sequence of known checkpoints.

### Transparency (with MCTransparency, EvidenceProofs)

`scitt.py`. `LocalTransparencyLog.register` is its six accesses to the two lists:
`AppendStatement` (with the checks before it), `AppendLeaf`, `ReadIndex`, `ReadSize`,
`ReadRoot` and `SignReceipt`, which copies the leaf hashes for the path. The RFC 6962
functions recurse on slices of a list, as in the code; they are written as recursive
functions on the sequences no longer than the list (`Slices`), which proofs can reason
about. What `_root_from_proof` refuses is `Raises`, which is neither a leaf nor a node.
Whoever holds a receipt may embed it (`add_receipt`) and present the
statement for registration again. A receipt's index, size and path are in its unprotected
header, so they may embed it with others (`Restated`: any of the `Stated` indices and
sizes, the path of any receipt); its signature covers the root only, and
`_verify_receipt` reads the three as they are presented. A statement carries the header of
the receipts or not (`header394`); with the header and an empty list it passes the test
of `register` for none. What a permissive log admits further is its deployment's
`registration_policy`, a constant. `verify_transparent_statement` is evaluated on every statement with
one receipt, issued or restated, and with two that were issued.

## 3. The runs

| run | module | shows |
|---|---|---|
| Budget | MCCapabilityStore | two minters race three children for one mandate's budget, with crashes between sign, debit and register, and a consumer spends: the ledger stays exact, limited children never overspend, capabilities flip once, an ended mandate is debited and consumed no more |
| Revocation | MCCapabilityStore | two overlapping syncs (or operator revokes) and a consumer with an old clock: how long a revoked or expired capability can still be consumed |
| StateBinding | MCStateBinding | two agents, two previews, deployment writes: AtomicEffects is implemented, no preview or capability pays twice |
| StepUp | MCStepUp | two quorums share challenges, a verifier and credentials: the in-flight registry is exact, records are earned |
| Guardian | MCGuardian | replays, skew, lock waits, hanging decisions and racing resolvers: no nonce and no frame authorizes twice, and every frame is answered once decision functions yield |
| Enforcement | MCEnforcement | three points, two callers, rewiring, revocations and crashes: AuthorizedActions is implemented, nothing is burned but by a crash or a broken wiring, receipts are true |
| Delegation | MCDelegation | an authority, an honest agent and one that signs at will, any chain of up to three receipts, with ids drawn and asked for: authority only narrows, honest custody is genuine, what delegate returns verifies, what is received was authorized at the root |
| Constitution | MCConstitution | a deployment's chain and a rebuilt one take any signed versions while three keys sign and a fourth signs everything: nothing unapproved gets in through any rotation, rotations act forward only, the two chains agree |
| Decisions | MCDecisions | tokens attenuated by their issuer and by a stray, decided on by two threads at three gates while mode changes arrive in any order and overlap: a child that passes the subsumption check authorizes no more than its parent, a race costs one use per thread, shadow mode spares only under the newest change unless two changes overlapped |
| Evidence | MCEvidence | two sealers, a rotation of signers, a stolen key and a forgery: the kept chain verifies and is rebuilt from the ledger, a fork needs the key active at its position, exactly the covered events are included |
| Transparency | MCTransparency | two threads register statements, forged ones and ones with receipts or an empty list of them too, at a strict and a permissive log: what verifies as transparent is in a tree its log signed, at the index of its receipt unless that was rewritten, and a registration that met no other yields a receipt that verifies |

A last run, ChallengeReuse (of MCStepUp), shows where a document and the code part
(section 6).

### Bounds and why they are enough

* Budget: three capabilities under a limit of 2 with reserves of 1 or 2 are the
  least for which two minters can both pass a stale check; `actions_limit` 2 is
  exceeded by three. The clock stands still because nothing in the ledger reads it.
* Revocation: a lifetime of 1, a clock to 3 and a lock wait of at most 1 make every
  order of fetch, clock read and commit of two syncs possible, with a consumption
  at the last admissible tick and one after it. `MandatesStayActive` keeps the
  mandate machine out of this run (Budget has it).
* StateBinding: the values can come back after two writes, so `MaxVersion` 3
  contains A-B-A; one policy writes what it did not read.
* StepUp: one quorum of one and one of two over two challenges; one credential
  whose signature binds the action and one whose does not; counts to 2 where a
  second assertion matters.
* Guardian: the window is 1; stamps at both ends of a clock that runs to 5 let a
  frame be early by a window and forgotten two windows later; the lock wait is
  as long as the window. One worker suffices to hang the pool, and one that holds
  the interpreter stops every thread.
* Enforcement: one capability and one action per plane and one wiring that works
  and one that does not; every action may be presented with every capability.
* Delegation: three receipts are the least in which a hop is compared with one that
  is not the root. The other agent signs what `delegate` would return and the same
  with one field changed (delegator, scope in three ways, depth, parent), each
  linked to any receipt and with any id. Documents are signed before they are
  verified, since verifying only reads them; one child capability at a time. One
  receipt at most has an id that its honest delegator was asked for (`AskedOnce`), and then
  it is one that an earlier receipt bears, the only case the checks tell from an id drawn; the
  ids of roots are drawn.
* Constitution: one version without a proposal between two that rotate is the least
  in which "the last proposal so far" differs from the head's and from the bootstrap;
  at every position the dishonest key offers a version that would put it in charge,
  and one approved version has the wrong number. Two signatures are the quorum.
* Decisions: a root and two descendants are the least for a chain of two links, one
  descendant may be a stray. Every kind of caveat occurs, with a bound that is
  kept and one that is widened. An allowlist has hosts, URLs or both
  and an amount a currency or none, on the parent's side and the child's. Two threads and one consumed nonce followed by
  another step contain the race on a nonce; with two records, and one more in the
  hands of each thread, a thread writes twice and passes the shadow gate twice. Three mode changes of two modes contain
  an old SHADOW that arrives after a newer ENFORCE and one that overlaps it. `SignedFirst` signs before
  anyone decides, as decisions only read tokens, and `ModeWithoutTokens` changes the mode
  only where the actions evaluated have no token, since the verdict on a token does not read
  the mode.
* Evidence: three events are the least for a tree with an odd level, and for a
  chain in which a checkpoint follows one that is not the first. `Restricted` keeps the ledger
  and the thief still while someone seals (a seal reads the ledger once) and lets a
  second seal overlap from where the first is admitted, where both have read the
  same head. Signers are registered in any order between seals, and the one that a seal declares next may be missing. One rotation and one forged checkpoint separate the
  active, the retired and the coming key.
* Transparency: an entry in the right subtree of four has both a left root and an
  inner path in its proof. The permissive log of one entry takes a forged
  statement or one that carries a receipt which says it is the second of two, issued so or
  restated, while the other log has two entries at most; after that the other is left alone.
  The restated receipts state the index in a tree of up to four that is the last or the one
  before it (0 of 1, 0 and 1 of 2, 1 and 2 of 3, 3 of 4), with the path of any receipt. An empty list of receipts comes as the second and last entry of the strict
  log, and its fourth entry when no other is being registered.

Symmetry is used only in runs without liveness. `CHECK_DEADLOCK FALSE` is
set where a bound ends the behaviour (the Guardian's clock, the finite challenges).

### Fairness

Only `Guardian!FairSpec` assumes any: weak fairness of each handler thread's own
next step. A thread that can run at all does run, at last: the operating system
schedules it, and the nonce lock is held for straight-line code only. A thread that cannot
run is not assumed to: every step of a handler, the timeout of
`future.result(timeout=...)` included, needs the interpreter, and a decision function
may hold it for as long as it likes, over and over. That is the LIMITATION of
`_run_decision_fn` (acs_guardian.py:518-525) and item 11 of docs/THREAT_MODEL.md, which
reports a bound of 2 s enforced after 56 s and calls such timeouts "a backstop, not a
guarantee". `EveryFrameAnswered` therefore has a premise, `<>[](~held)`: from some
moment on no decision function holds the interpreter. They may still hang for ever, as long as
they yield. Without the premise TLC finds a frame that is never answered. No fairness is
assumed of `YieldsInterpreter`, of peers, of the decision function, of pool workers
or of the people who resolve. The clock bound cannot block a handler: no handler step needs
a tick.

The same interpreter lock makes `MaxLockWait`, the longest that a thread waits between its
clock reading and the nonce lock, an assumption about decision functions
too: one that does not yield for longer than the window would break it.

## 4. What is proved

For any number of threads, mandates, capabilities, frames and so on, from the
`ASSUME`s of the modules alone:

* **CapabilityStoreProofs.** `TypeInv` adds to the types the order of a mint
  (signed before debited before registered). `LedgerInv` says that a mandate's row
  holds exactly the reserved units of the children debited from it; with it,
  `LedgerCorrect` and both halves of `LimitsHold` (spending, number of children)
  follow by counting: a spend limit bounds the cardinality of the set of reserved
  units, and units of spent money map into it. Being a set cardinality, the sum needs
  no induction. `ViewInv` relates the local view to the authority's revocations and
  gives `InTimeHolds`. `SingleUseHolds` and `FrozenHolds` are about every step: the
  one flip of a capability, and what an ended mandate still allows (nothing).
  The same module proves StateBinding, a transaction of the same store: `BindingInv`
  says that a signed preview is a decision of the policy on the view it carries, that
  previews never change, and that a commit raised the version past every preview it
  had been decided on. That is why a preview cannot come back to life when the values
  do, why every step of StateBinding is a step of AtomicEffects or a stutter
  (`BindingRefines`), and why commits exclude each other (`ExclusiveHolds`).
* **StepUpProofs.** The registry holds exactly the challenges of live quorums
  (`RegistryHolds`), so a challenge no approve overlapped when it was burned serves
  one quorum (`OneQuorumHolds`). `Earned` follows an approval from the assertion a
  device created to the record: the credentials counted are distinct, so they are as
  many as the approvals (`DistinctCount`), and `finalize` compares that number with
  m before it burns, after which nobody touches the quorum (`EarnedHolds`).
* **GuardianProofs.** `NonceInv`: an accepted nonce is remembered, or so old that
  no clock reading still waiting for the lock is within the window of it. This needs
  `MaxLockWait <= Window`, the assumption of the module. `RightInv`: the right
  to mint for a frame is in one place (a handler, a pending entry, a resolver)
  or has been used. Together they give `OnceHolds`. `HandlersAdvance` measures the
  steps a handler has before it (`StepsLeft`): its own steps lower the measure
  (`OwnSteps`) and nobody else's touch it.
* **EnforcementProofs.** `OneUse`: a consumed capability is in one caller's hands,
  has been used once, or is gone by a crash or a broken wiring; `Refinement` to
  AuthorizedActions follows.
* **DelegationProofs.** `verify_chain` compares neighbours. Narrowing of scopes is
  shown to be a preorder (`NarrowerTransitive`, resting on `SubPrefixTransitive`), so
  `NarrowInv` extends every comparison to all pairs of positions, and
  `AuthorityOnlyNarrows` follows for chains of any length. `SignedInv` says under
  what circumstances an honest key signs; with the hash links it gives
  `HonestCustody`. `DelegatedHolds` needs the order of signing without a clock:
  `AncestryInv` says of every path of receipts above a delegated one that none of
  them is it, or bears its id if that was drawn afresh, since they were all signed before.
  An id that was asked for and is borne above, and a `max_depth` below the depth of the receipt
  returned, are the two exceptions of the theorem: `delegate` takes both and
  `verify_chain` refuses them.
* **ConstitutionProofs.** `HonestSigner`: in a quorum larger than the number of
  dishonest members some honest key signed, by counting (pigeonhole) the distinct
  names. The trust config of the next position is the bootstrap or the proposal of
  a version in the chain (`TrustAfterIs`), whose versions are all approved, so by
  `TrustAssumption` its dishonest members are fewer than its quorum; hence the next
  version is approved too (`OnlyApprovedHolds`). `TrustAssumption` is the premise
  the design needs and cannot enforce: approved proposals name few dishonest keys.
  `AgreeHolds` takes the first position at which two chains would differ: their
  versions name the same predecessor there, and approved versions never branch.
  `ForwardHolds`: the trust config that rules a position depends on the versions before
  it only (`RulingAgrees`), so the quorum a version was admitted by stays the one that
  counts.
* **DecisionsProofs.** `SubsumptionHolds` compares what a child and its parent
  authorize kind by kind of caveat; a parent's caveat is matched by a tighter one of
  the child, or is in the child itself (`TighterHolds`: hosts, URLs, amount and currency are
  each compared). The exception is the count of uses, which the caller supplies and
  a child of a single use does not read. `RacesHold`: between the check of a nonce
  and its consumption a thread does nothing else, so a thread passes a gate with a
  token once; alone, it links every record to the one before. `SparedHolds`: as long
  as no two calls of `apply_mode_change` overlapped, `mode` is that of the applied change with
  the highest sequence (`ModeInv`, with a clause for the moment between the two writes);
  an action of `never_shadow` is never spared, overlap or not.

* **EvidenceProofs**, Evidence. `IInv`: what is being sealed and what is kept is rebuilt
  from the ledger (`SealedTiles`, `KeptTiles`); a checkpoint that waits to be appended
  was admitted onto the head or starts where a kept one does (`AdmittedExtends`), so
  appending it keeps the chain verified or is a race (`ChainVerifies`); what was not
  sealed is signed by a stolen key (`ForgedByThieves`). `KeptChain` is part of it;
  `ForksAreSigned` follows position by position (`ForkAt`): with the same checkpoints
  before it and the active key safe, a checkpoint is one the operator sealed, and of those
  only the kept one starts there (`ChainAscends`). `InclusionHolds` rests on two theorems
  about the Merkle functions alone, for trees of every size: paths climb to the root
  (`PathsReachTheRoot`), and only leaves of the tree do (`RootsAreExact`).
* **EvidenceProofs**, Transparency. The tree first: leaves and nodes are never equal and a
  node determines its children (`Separated`, what the code's prefixes 0x00 and 0x01 are
  for), so a root determines how many leaves it has. `Weighs` counts the leaves under the
  nodes of a path: all those of the tree but one (`AuditWeighs`), and a proof that leads to
  a root weighs all its leaves but one (`ProofSize`), so a path read from one prefix of
  the log and a root read from another never fit. `AuditPathsLead` and
  `AuditPathsAreExact` are completeness and exactness of audit paths. `ProofsAreExact` and
  `ProofsStayInside` are what a verifier may rely on when index, size and proof are anyone's:
  given the tree's size the leaf is the one at the index, and given nothing it is still a
  leaf of the tree. `RestatedIsLogged` is these two for receipts. `LogInv` says of every receipt that its
  root and its path are each of some prefix of the log's leaves (`ReceiptOK`), whatever
  ran in parallel, of a call that overlapped no other that it reads what it
  appended (`LoneCall`), and that the missing leaves of a log are as many as the calls
  between their two appends (`ListsOK`). `LogTypesHold`, `LoggedHolds` and `LoneHolds` follow.

The tree functions are recursive functions, and what they compute is shown for every
size without an induction rule that takes an operator: `InductionOnHeight` is about
the *set* of numbers at which a claim holds, and comes from the well-foundedness of
the naturals. Every recursive function of these modules has its equation proved first
(`LevelAtDef`, `ClimbedDef`, `MthDef`, `AuditDef`, `RootDef`): that a function which
satisfies it exists, and that two of them agree where both are defined.

The assumptions of the modules are about constants: finite bounds are numbers, the
parameters are of the types the code gives them, `NoValue` and `None` are none of the
values they stand beside. Three say more: `TrustAssumption`, `MaxLockWait <= Window`
(both above) and the order `Below` of the resources in Decisions.

Assumed throughout: signatures are not forged and digests do not collide, SQLite's
transactions are atomic and durable, and a lock is waited for no longer than
the stated bounds.

Only model-checked: the liveness property `EveryFrameAnswered` of the Guardian, since
liveness under fairness and ENABLED are out of the prover's reach, and the one that
ChallengeReuse refutes. Every other property of a run is a theorem. Of
`EveryFrameAnswered` itself, which has the premise that decision functions yield, the
half that is safety is proved: by `HandlersAdvance` no
step moves a handler that holds a frame except towards its answer, which is at most
four moves away. That its own fair steps do happen is what TLC adds.

## 5. Every property and what would break it

For each property of each passing run `PROJECT.json` has a mutant: a
change of a modelled definition that a plausible bug would make (debiting after
registering, dropping a check, pruning one window too early, consuming before
resolving, ...). The mutated definitions stand next to the ones they mutate and
carry the word "Mutant" in their comment; nothing else uses them.

## 6. Where the documents and the code part

* **ChallengeReuse** (run). `approve` checks the burned ledger and claims the
  challenge in two critical sections; a quorum between them approves a second action
  over a burned challenge. stepup.py:59-61 excludes it.

Seen while modelling and not run. Against a statement of the repository:

* A child without a `spend_limit` reserves nothing and may spend anything
  (store.py:452); store.py:16-19 says a mandate's budget can never be oversubscribed.
  `ChildrenWithinLimits` is therefore about children with a limit.
* Sign counts are read and stored without a lock (stepup.py:613), so a stored count
  can go backwards; stepup.py:44-45 says they strictly increase.
* An argv that cannot be started, or a secret the broker lacks, is found after the
  consumption (pep.py:190, pep.py:271); pep.py:111-112 says a misconfigured registry
  cannot burn capabilities. `BurnedByCrashOrWiring` names the wiring as a cause.
* `revoke()` is `sync_revocations([x])` and so moves `last_revocation_sync_at` although
  nothing was heard from the authority, while store.py:28-29 says that this is when
  the view was last refreshed from it. `ConsumedInTime` has the premise that
  the last refresh was a real one.
* `register` of the agent registry puts an empty revoked set in place of the old one
  (agent_identity.py:534-539), so a second registration revives what was revoked;
  agent_identity.py:573-574 says "Revoked assertions never resolve again".
* anchored_checkpoints.py:4-8 says that a forgery must break the root, the link or the
  anchor proof "even if the operator rewrites history", and 428-430 that an operator who
  holds the checkpoint key "still cannot fabricate an anchor proof for rewritten
  history". Who holds the key that is active at a position breaks none of them: they sign a
  checkpoint over another ledger and have the anchor sign its root. `ForksNeedTheActiveKey` claims
  only that nobody else can.

Worth knowing, and contradicting nothing that is written down:

* Tokens: `attenuate` refuses its own child when the parent carries two caveats of
  one kind with different bounds. A single-use token attenuated N times gives N + 1
  uses, as a nonce belongs to one token. A child with a single-use caveat passes where
  its parent's uses are exhausted (`OnlyOnce` in `SubsumptionNarrows`). Children never
  pass `decide` or `evaluate`, which present no chain. `evaluate` does not compare
  the token's audience.
* `apply_mode_change` compares the sequence (shadow_mode.py:549) and writes mode and
  sequence (559-560) without a lock. Two calls that overlap may both find their sequence newer
  and write in either order, so that an older SHADOW rules after a newer ENFORCE and the
  last sequence goes back. Nothing in the code asks for one caller at a time.
  `SparedOnlyInShadow` excepts what follows an overlap.
* A restart of a `ShadowGovernor` forgets its last sequence and its nonces. Two threads
  may link two shadow records to one head, after which `verify_log` fails for good.
* Checkpoints: two calls of `seal` that race for one head leave a chain that never
  verifies again, and so does a declared signer that is not registered or reuses an
  id: nothing can be sealed. `verify_checkpoint_chain` accepts a truncated chain, and
  a first checkpoint that does not start at the first event. A retired
  key that is stolen can rewrite the chain from the beginning, since its turn was
  there; `LocalEmulatedAnchor` takes the timestamp from its caller, so anchoring does
  not date a forgery. `verify_inclusion` does not bind the index of the leaf.
* `delegate` accepts a `delegation_id` that a receipt above already bears, and a
  `max_depth` below the depth of what it returns; `verify_chain` refuses both
  (delegation_chains.py:394; tests/test_delegation_chains.py:207-212 builds such a chain to
  see it refused).
* A decision function that holds the interpreter delays every thread (section 3, Fairness).
* Transparency: index, size and path of a receipt are not authenticated (scitt.py:535-542,
  read at 615-623). The receipt of index 1 in a tree of two, with the first leaf's hash for its path,
  verifies as index 2 in a tree of three with the same path. What a receipt proves is that the
  statement is in the tree whose root was signed, and where only if the size is known.
  A statement that carries an empty list of receipts is registered as if it carried none
  (scitt.py:389), and its receipt never verifies, as the verifier strips the
  list and computes another leaf.
* Transparency: parallel registrations may return a receipt that never verifies,
  one for the tree of another size, or raise after the statement was appended. A
  permissive log registers statements that carry receipts; the receipts it returns
  for them never verify. The `iss` claim is not compared with the key id.
* `receive_delegation` records nothing, so a package is received as often as it
  is presented, and does not compare the chain's `root_mandate_hash` with the mandate
  (a2a.py:617).

## 7. Plan

Done, in this order: CapabilityStore, StateBinding, StepUp, Guardian, Enforcement,
Delegation, Constitution, Decisions, Evidence and Transparency, each with its proofs.

Next:

1. **Provenance**: `read` and `write` of the provenance store, composed with
   CapabilityStore for the capability that is checked before the store's lock is taken.
   Promise: every read that is served is authorized at some moment of the call, and
   audited in the order of service.
2. **Identity**: the registry of agent identities, with registration again.
3. Larger instances of Evidence (two rotations) and Transparency (two strict logs).

## 8. Not modelled, and why

* `identity_adapters.py`, `policy_providers.py`, the encodings, the signature
  wrappers and the Rust verifier: functions of bytes or of expression trees, with
  no state and no interleaving.
* The provenance store and the registry of agent identities (section 7 has the plan). A
  provenance read is a capability check followed by straight-line code under one lock,
  and the window between the two is the one the Revocation run has for consumptions;
  the registry has three short methods, and what they get wrong is in section 6.
* The OpenTimestamps codec, the CBOR and COSE layout of statements and receipts, and
  the wrappers that turn ANCHOR objects into SCITT statements: data.
* The HTTP clients of timestamp anchors, the lifecycle of processes, Python's
  attribute privacy (the brokered secrets).
* A restart of the Guardian or of a governor: nonces, pending entries and sequences live
  in memory and nothing is promised across a restart.
* Agent cards (`a2a.py`) and the check of a delegation package against a
  receiver's list of revocations: functions of documents; a refusal changes nothing.
* A second appender of the evidence ledger: `EvidenceLog.append` has no lock, and two of
  them may link two events to one head. `Evidence` has one.
* That a refused commit leaves its capability unused, on its own: it is SQLite's rollback,
  modelled as one action. A commit that consumed and then refused would look to `Implements`
  like a consumption elsewhere.
* Commands that start at one time and not at another: they would use up a capability as a broken
  wiring does.
* Several threads inside one `QuorumApproval`: the class is not documented for it.
