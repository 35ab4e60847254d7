-------------------------- MODULE CapabilityStore --------------------------
(***************************************************************************)
(* The linearizable consumption and budget engine of store.py, together    *)
(* with the capabilities that authority.py signs for it.                    *)
(*                                                                         *)
(* Every public method of CapabilityStore is one SQLite transaction under  *)
(* one lock, so each is one action.  What the lock does NOT cover is       *)
(* modelled as separate steps of a thread:                                 *)
(*   - a mint is sign (authority.mint_child), debit, register: three calls; *)
(*   - a consume reads the clock before it takes the lock;                 *)
(*   - a revocation sync fetches the authority's list, reads the clock,    *)
(*     and only then takes the lock.                                       *)
(* A crash loses every thread's local state and keeps the database.        *)
(***************************************************************************)
EXTENDS Naturals, FiniteSets

CONSTANTS
  Mandates,         \* mandate ids (rows of the mandates table)
  Caps,             \* capability ids the authority may draw
  Minters,          \* threads that mint
  Consumers,        \* threads that consume or check
  Syncers,          \* threads that sync or revoke
  Holders,          \* holder keys
  Digests,          \* action digests
  DirectKinds,      \* kinds of capability issued without a mandate
  MandateLimits,    \* spend limits of a mandate's row and of a mandate capability
  ChildLimits,      \* spend limits asked for when issuing or minting
  ActionsLimits,    \* action limits of a mandate's row
  Amounts,          \* spend amounts presented at consumption
  Lifetimes,        \* ttl values
  StalenessBounds,  \* max_revocation_staleness values
  MaxTime,          \* bound on the clock
  MaxFetchLag,      \* longest time from fetching the authority's list to the sync call
  MaxLockWait,      \* longest time from reading the clock to holding the lock
  None              \* SQL NULL, Python None, "no thread-local value"

ASSUME ConstantsAssumption ==
  /\ IsFiniteSet(Caps)
  /\ DirectKinds \subseteq {"execution", "read"}
  /\ UNION {MandateLimits, ChildLimits, ActionsLimits} \subseteq Nat \cup {None}
  /\ Amounts \subseteq Nat
  /\ Lifetimes \subseteq Nat \ {0}
  /\ StalenessBounds \subseteq Nat
  /\ MaxTime \in Nat /\ MaxFetchLag \in Nat /\ MaxLockWait \in Nat
  /\ None \notin Nat \cup Caps \cup Mandates
  /\ Caps \cap Mandates = {}

VARIABLES
  now,            \* the wall clock
  \* table mandates
  lifecycle, spendLimit, spendUsed, actionsLimit, actionsUsed,
  \* table capabilities
  capState, spendConsumed,
  \* table revocations and meta.last_revocation_sync_at
  revoked, lastSync,
  \* what the authority has signed: a mandate capability per mandate, and payloads
  grant, payload,
  \* the authority's own revocation list: the time of each revocation
  authorityRevokedAt,
  \* thread-local state
  minter, consumer, syncer,
  \* history: the children whose reservation committed, per mandate, and the
  \* clock of the last sync that carried the authority's list
  debited, lastHeard

mandateVars == <<lifecycle, spendLimit, spendUsed, actionsLimit, actionsUsed>>
capVars     == <<capState, spendConsumed>>
viewVars    == <<revoked, lastSync, lastHeard>>
signedVars  == <<grant, payload>>
vars == <<now, mandateVars, capVars, viewVars, signedVars, authorityRevokedAt,
          minter, consumer, syncer, debited>>

-----------------------------------------------------------------------------
Ids        == Caps \cup Mandates
Lifecycles == {"CREATED", "ACTIVE", "PAUSED", "EXHAUSTED", "REVOKED", "EXPIRED"}
Missing    == "MISSING"   \* no row

LEGAL_TRANSITIONS ==
  [ l \in Lifecycles |->
      CASE l = "CREATED"   -> {"ACTIVE", "REVOKED", "EXPIRED"}
        [] l = "ACTIVE"    -> {"PAUSED", "EXHAUSTED", "REVOKED", "EXPIRED"}
        [] l = "PAUSED"    -> {"ACTIVE", "REVOKED", "EXPIRED"}
        [] l = "EXHAUSTED" -> {"REVOKED"}
        [] OTHER           -> {} ]

Limits(S) == S \cup {None}

\* A signed capability: CapabilityPayload, and the mandate row its issuer
\* registers it under.
Payloads ==
  [ kind: {"mandate", "execution", "read"}, digest: Digests, holder: Holders,
    spendLimit: Limits(Nat), expiresAt: Nat, staleness: Nat,
    mandate: Mandates \cup {None} ]

ASSUME NoneAssumption == None \notin Payloads

IdleMinter == [pc |-> "idle", cap |-> None]
IdleSyncer == [pc |-> "idle", ids |-> {}, at |-> 0, heard |-> FALSE]

\* A fresh store, over mandates in lifecycles l with mandate capabilities g.
InitWith(l, g) ==
  /\ now = 0
  /\ lifecycle = l
  /\ spendLimit = [m \in Mandates |-> None]
  /\ spendUsed = [m \in Mandates |-> 0]
  /\ actionsLimit = [m \in Mandates |-> None]
  /\ actionsUsed = [m \in Mandates |-> 0]
  /\ capState = [c \in Caps |-> Missing]
  /\ spendConsumed = [c \in Caps |-> 0]
  /\ revoked = {}
  /\ lastSync = 0
  /\ lastHeard = 0
  /\ grant = g
  /\ payload = [c \in Caps |-> None]
  /\ authorityRevokedAt = [x \in Ids |-> None]
  /\ minter = [t \in Minters |-> IdleMinter]
  /\ consumer = [t \in Consumers |-> None]
  /\ syncer = [t \in Syncers |-> IdleSyncer]
  /\ debited = [m \in Mandates |-> {}]

Init == InitWith([m \in Mandates |-> Missing], [m \in Mandates |-> None])

-----------------------------------------------------------------------------
(* Mandates *)

CreateMandate(m, limit, actions) ==
  /\ lifecycle[m] = Missing
  /\ lifecycle' = [lifecycle EXCEPT ![m] = "CREATED"]
  /\ spendLimit' = [spendLimit EXCEPT ![m] = limit]
  /\ actionsLimit' = [actionsLimit EXCEPT ![m] = actions]
  /\ UNCHANGED <<now, spendUsed, actionsUsed, capVars, viewVars, signedVars,
                 authorityRevokedAt, minter, consumer, syncer, debited>>

TransitionMandate(m, new) ==
  /\ lifecycle[m] # Missing
  /\ new \in LEGAL_TRANSITIONS[lifecycle[m]]
  /\ lifecycle' = [lifecycle EXCEPT ![m] = new]
  /\ UNCHANGED <<now, spendLimit, spendUsed, actionsLimit, actionsUsed, capVars, viewVars,
                 signedVars, authorityRevokedAt, minter, consumer, syncer, debited>>

\* authority.issue_mandate: the signed mandate capability children are minted
\* from.  Its spend limit is not tied to that of the mandate's row.
IssueMandate(m, d, h, limit, ttl, stale) ==
  /\ grant[m] = None
  /\ grant' = [grant EXCEPT ![m] =
       [kind |-> "mandate", digest |-> d, holder |-> h, spendLimit |-> limit,
        expiresAt |-> now + ttl, staleness |-> stale, mandate |-> m]]
  /\ UNCHANGED <<now, mandateVars, capVars, viewVars, payload, authorityRevokedAt,
                 minter, consumer, syncer, debited>>

-----------------------------------------------------------------------------
(* Minting: sign, debit, register *)

\* A fresh capability id (secrets.token_hex): one no payload carries yet.
Sign(t, c, p) ==
  /\ minter[t].pc = "idle"
  /\ payload[c] = None
  /\ payload' = [payload EXCEPT ![c] = p]
  /\ minter' = [minter EXCEPT ![t] = [pc |-> "signed", cap |-> c]]
  /\ UNCHANGED <<now, mandateVars, capVars, viewVars, grant, authorityRevokedAt,
                 consumer, syncer, debited>>

\* authority.issue_execution and authority.issue_read
IssueDirect(t, c, kind, d, h, limit, ttl, stale) ==
  /\ kind = "read" => limit = None
  /\ Sign(t, c, [kind |-> kind, digest |-> d, holder |-> h, spendLimit |-> limit,
                 expiresAt |-> now + ttl, staleness |-> stale, mandate |-> None])

\* A limit of None asks for the parent's; a bounded parent bounds the child.
ChildLimit(parent, asked) == IF asked = None THEN parent.spendLimit ELSE asked

\* authority.mint_child: the child is an attenuation of the mandate capability
\* in every dimension, and the store is not consulted.
MintChild(t, c, m, h, asked, ttl, stale) ==
  LET parent == grant[m] limit == ChildLimit(parent, asked) IN
  /\ parent # None
  /\ now <= parent.expiresAt
  /\ parent.spendLimit # None => limit <= parent.spendLimit
  /\ now + ttl <= parent.expiresAt
  /\ stale <= parent.staleness
  /\ Sign(t, c, [kind |-> "execution", digest |-> parent.digest, holder |-> h,
                 spendLimit |-> limit, expiresAt |-> now + ttl, staleness |-> stale,
                 mandate |-> m])

\* reserve = child_spend_limit or 0
Reserve(p) == IF p.spendLimit = None THEN 0 ELSE p.spendLimit

WithinLimit(used, limit) == limit # None => used <= limit

\* Mutant of CanDebit: the spend limit is compared with what is used already.
CanDebitLate(m, p) ==
  /\ lifecycle[m] = "ACTIVE"
  /\ WithinLimit(spendUsed[m], spendLimit[m])
  /\ WithinLimit(actionsUsed[m] + 1, actionsLimit[m])

CanDebit(m, p) ==
  /\ lifecycle[m] = "ACTIVE"
  /\ WithinLimit(spendUsed[m] + Reserve(p), spendLimit[m])
  /\ WithinLimit(actionsUsed[m] + 1, actionsLimit[m])

\* Mutant of DebitMandateForChild: credits the reservation.
CreditMandateForChild(t) ==
  LET c == minter[t].cap m == payload[c].mandate IN
  /\ minter[t].pc = "signed"
  /\ m # None
  /\ CanDebit(m, payload[c])
  /\ spendUsed' = [spendUsed EXCEPT ![m] = @ - Reserve(payload[c])]
  /\ actionsUsed' = [actionsUsed EXCEPT ![m] = @ + 1]
  /\ debited' = [debited EXCEPT ![m] = @ \cup {c}]
  /\ minter' = [minter EXCEPT ![t].pc = "debited"]
  /\ UNCHANGED <<now, lifecycle, spendLimit, actionsLimit, capVars, viewVars, signedVars,
                 authorityRevokedAt, consumer, syncer>>

\* store.debit_mandate_for_child: the guarded UPDATE applies the whole debit ...
DebitMandateForChild(t) ==
  LET c == minter[t].cap m == payload[c].mandate IN
  /\ minter[t].pc = "signed"
  /\ m # None
  /\ CanDebit(m, payload[c])
  /\ spendUsed' = [spendUsed EXCEPT ![m] = @ + Reserve(payload[c])]
  /\ actionsUsed' = [actionsUsed EXCEPT ![m] = @ + 1]
  /\ debited' = [debited EXCEPT ![m] = @ \cup {c}]
  /\ minter' = [minter EXCEPT ![t].pc = "debited"]
  /\ UNCHANGED <<now, lifecycle, spendLimit, actionsLimit, capVars, viewVars, signedVars,
                 authorityRevokedAt, consumer, syncer>>

\* ... or nothing: the error propagates and the signed child is dropped.
DebitRefused(t) ==
  LET c == minter[t].cap m == payload[c].mandate IN
  /\ minter[t].pc = "signed"
  /\ m # None
  /\ ~CanDebit(m, payload[c])
  /\ minter' = [minter EXCEPT ![t] = IdleMinter]
  /\ UNCHANGED <<now, mandateVars, capVars, viewVars, signedVars, authorityRevokedAt,
                 consumer, syncer, debited>>

\* Mutant of MayRegister: registers the child before the mandate is debited.
MayRegisterUndebited(job) == job.pc \in {"signed", "debited"}

\* A child is registered after its debit, any other capability at once.
MayRegister(job) ==
  \/ job.pc = "debited"
  \/ job.pc = "signed" /\ payload[job.cap].mandate = None

\* store.register_capability: the mandate's row must exist, in whatever lifecycle.
RegisterCapability(t) ==
  LET c == minter[t].cap m == payload[c].mandate IN
  /\ MayRegister(minter[t])
  /\ m # None => lifecycle[m] # Missing
  /\ capState[c] = Missing
  /\ capState' = [capState EXCEPT ![c] = "ISSUED"]
  /\ minter' = [minter EXCEPT ![t] = IdleMinter]
  /\ UNCHANGED <<now, mandateVars, spendConsumed, viewVars, signedVars, authorityRevokedAt,
                 consumer, syncer, debited>>

-----------------------------------------------------------------------------
(* Consumption *)

\* consume_capability and check_capability read the clock before the lock.
ReadClock(t) ==
  /\ consumer[t] = None
  /\ consumer' = [consumer EXCEPT ![t] = now]
  /\ UNCHANGED <<now, mandateVars, capVars, viewVars, signedVars, authorityRevokedAt,
                 minter, syncer, debited>>

\* _consume_inner, checks (1)-(10), at the moment the caller read.  They only
\* differ in the exception raised, so their order is not kept.
Verifies(c, moment) == payload[c] # None /\ moment <= payload[c].expiresAt

EnvelopeMatches(c, envelope) == envelope # None => envelope = payload[c].digest

RevokeTargets(c) ==
  {c} \cup (IF payload[c].mandate = None THEN {} ELSE {payload[c].mandate})

NotRevoked(c) == RevokeTargets(c) \cap revoked = {}

ViewIsFresh(c, moment) == moment <= lastSync + payload[c].staleness

\* Mutant of MandateIsActive: only REVOKED denies.
MandateNotRevoked(c) == payload[c].mandate # None => lifecycle[payload[c].mandate] # "REVOKED"

MandateIsActive(c) == payload[c].mandate # None => lifecycle[payload[c].mandate] = "ACTIVE"

SpendFits(c, amount) == WithinLimit(amount, payload[c].spendLimit)

\* Mutant of Unused: any registered capability.
IsRegistered(c) == capState[c] # Missing

\* (2) registered and (7) not consumed
Unused(c) == capState[c] = "ISSUED"

Permitted(c, moment, key, envelope, amount) ==
  /\ Verifies(c, moment)
  /\ Unused(c)
  /\ EnvelopeMatches(c, envelope)
  /\ NotRevoked(c)
  /\ ViewIsFresh(c, moment)
  /\ key = payload[c].holder
  /\ MandateIsActive(c)
  /\ SpendFits(c, amount)

\* consume_capability: all checks and the ISSUED -> CONSUMED flip at once
ConsumeCapability(t, c, key, envelope, amount) ==
  /\ consumer[t] # None
  /\ Permitted(c, consumer[t], key, envelope, amount)
  /\ capState' = [capState EXCEPT ![c] = "CONSUMED"]
  /\ spendConsumed' = [spendConsumed EXCEPT ![c] = amount]
  /\ consumer' = [consumer EXCEPT ![t] = None]
  /\ UNCHANGED <<now, mandateVars, viewVars, signedVars, authorityRevokedAt, minter, syncer,
                 debited>>

\* check_capability, or a consume_capability that was refused
ReturnUnchanged(t) ==
  /\ consumer[t] # None
  /\ consumer' = [consumer EXCEPT ![t] = None]
  /\ UNCHANGED <<now, mandateVars, capVars, viewVars, signedVars, authorityRevokedAt,
                 minter, syncer, debited>>

CheckCapability(t, c, key) ==
  ReturnUnchanged(t) /\ Permitted(c, consumer[t], key, None, 0)

ConsumeRefused(t, c, key, envelope, amount) ==
  ReturnUnchanged(t) /\ ~Permitted(c, consumer[t], key, envelope, amount)

-----------------------------------------------------------------------------
(* Revocation: at the authority, and in the store's view of it *)

AuthorityRevokes(x) ==
  /\ authorityRevokedAt[x] = None
  /\ x \in Caps => payload[x] # None
  /\ x \in Mandates => grant[x] # None
  /\ authorityRevokedAt' = [authorityRevokedAt EXCEPT ![x] = now]
  /\ UNCHANGED <<now, mandateVars, capVars, viewVars, signedVars, minter, consumer, syncer,
                 debited>>

FetchRevocations(t) ==
  /\ syncer[t].pc = "idle"
  /\ syncer' = [syncer EXCEPT ![t] =
       [pc |-> "fetched", ids |-> {x \in Ids : authorityRevokedAt[x] # None}, at |-> now,
        heard |-> TRUE]]
  /\ UNCHANGED <<now, mandateVars, capVars, viewVars, signedVars, authorityRevokedAt,
                 minter, consumer, debited>>

\* sync_revocations: `when` is read before the lock is taken
SyncCall(t) ==
  /\ syncer[t].pc = "fetched"
  /\ syncer' = [syncer EXCEPT ![t].pc = "locking", ![t].at = now]
  /\ UNCHANGED <<now, mandateVars, capVars, viewVars, signedVars, authorityRevokedAt,
                 minter, consumer, debited>>

\* revoke(x) is sync_revocations([x]): the authority's list is not consulted
RevokeCall(t, x) ==
  /\ syncer[t].pc = "idle"
  /\ syncer' = [syncer EXCEPT ![t] =
       [pc |-> "locking", ids |-> {x}, at |-> now, heard |-> FALSE]]
  /\ UNCHANGED <<now, mandateVars, capVars, viewVars, signedVars, authorityRevokedAt,
                 minter, consumer, debited>>

\* Mutant of SyncCommit: the sync time is read under the lock.
SyncCommitAtNow(t) ==
  /\ syncer[t].pc = "locking"
  /\ revoked' = revoked \cup syncer[t].ids
  /\ lastSync' = now
  /\ lastHeard' = IF syncer[t].heard THEN now ELSE lastHeard
  /\ syncer' = [syncer EXCEPT ![t] = IdleSyncer]
  /\ UNCHANGED <<now, mandateVars, capVars, signedVars, authorityRevokedAt, minter, consumer,
                 debited>>

SyncCommit(t) ==
  /\ syncer[t].pc = "locking"
  /\ revoked' = revoked \cup syncer[t].ids
  /\ lastSync' = syncer[t].at
  /\ lastHeard' = IF syncer[t].heard THEN syncer[t].at ELSE lastHeard
  /\ syncer' = [syncer EXCEPT ![t] = IdleSyncer]
  /\ UNCHANGED <<now, mandateVars, capVars, signedVars, authorityRevokedAt, minter, consumer,
                 debited>>

-----------------------------------------------------------------------------
(* Environment *)

\* Time passes; MaxFetchLag and MaxLockWait bound how long a thread stalls
\* between reading a clock and using what it read.
Tick ==
  /\ now < MaxTime
  /\ \A t \in Syncers : syncer[t].pc = "fetched" => now < syncer[t].at + MaxFetchLag
  /\ \A t \in Consumers : consumer[t] # None => now < consumer[t] + MaxLockWait
  /\ now' = now + 1
  /\ UNCHANGED <<mandateVars, capVars, viewVars, signedVars, authorityRevokedAt, minter,
                 consumer, syncer, debited>>

\* Every table is committed state: a restart reopens the same database.
CrashRestart ==
  /\ minter' = [t \in Minters |-> IdleMinter]
  /\ consumer' = [t \in Consumers |-> None]
  /\ syncer' = [t \in Syncers |-> IdleSyncer]
  /\ UNCHANGED <<now, mandateVars, capVars, viewVars, signedVars, authorityRevokedAt, debited>>

Next ==
  \/ \E m \in Mandates, l \in MandateLimits, a \in ActionsLimits : CreateMandate(m, l, a)
  \/ \E m \in Mandates, l \in Lifecycles : TransitionMandate(m, l)
  \/ \E m \in Mandates, d \in Digests, h \in Holders, l \in MandateLimits,
        ttl \in Lifetimes, s \in StalenessBounds : IssueMandate(m, d, h, l, ttl, s)
  \/ \E t \in Minters, c \in Caps, k \in DirectKinds, d \in Digests, h \in Holders,
        l \in ChildLimits, ttl \in Lifetimes, s \in StalenessBounds :
       IssueDirect(t, c, k, d, h, l, ttl, s)
  \/ \E t \in Minters, c \in Caps, m \in Mandates, h \in Holders, l \in ChildLimits,
        ttl \in Lifetimes, s \in StalenessBounds : MintChild(t, c, m, h, l, ttl, s)
  \/ \E t \in Minters : DebitMandateForChild(t) \/ DebitRefused(t) \/ RegisterCapability(t)
  \/ \E t \in Consumers : ReadClock(t)
  \/ \E t \in Consumers, c \in Caps, k \in Holders, e \in Limits(Digests), a \in Amounts :
       ConsumeCapability(t, c, k, e, a) \/ ConsumeRefused(t, c, k, e, a)
  \/ \E t \in Consumers, c \in Caps, k \in Holders : CheckCapability(t, c, k)
  \/ \E x \in Ids : AuthorityRevokes(x)
  \/ \E t \in Syncers : FetchRevocations(t) \/ SyncCall(t) \/ SyncCommit(t)
  \/ \E t \in Syncers, x \in Ids : RevokeCall(t, x)
  \/ Tick
  \/ CrashRestart

Spec == Init /\ [][Next]_vars

-----------------------------------------------------------------------------
(* Properties *)

\* Every variable stays in the range its column or field allows.
TypeOK ==
  /\ now \in Nat
  /\ lifecycle \in [Mandates -> Lifecycles \cup {Missing}]
  /\ spendLimit \in [Mandates -> Limits(Nat)]
  /\ spendUsed \in [Mandates -> Nat]
  /\ actionsLimit \in [Mandates -> Limits(Nat)]
  /\ actionsUsed \in [Mandates -> Nat]
  /\ capState \in [Caps -> {Missing, "ISSUED", "CONSUMED"}]
  /\ spendConsumed \in [Caps -> Nat]
  /\ revoked \subseteq Ids
  /\ lastSync \in Nat /\ lastHeard \in Nat
  /\ grant \in [Mandates -> Payloads \cup {None}]
  /\ payload \in [Caps -> Payloads \cup {None}]
  /\ authorityRevokedAt \in [Ids -> Limits(Nat)]
  /\ minter \in [Minters -> [pc: {"idle", "signed", "debited"}, cap: Caps \cup {None}]]
  /\ consumer \in [Consumers -> Limits(Nat)]
  /\ syncer \in [Syncers -> [pc: {"idle", "fetched", "locking"}, ids: SUBSET Ids, at: Nat,
                           heard: BOOLEAN]]
  /\ debited \in [Mandates -> SUBSET Caps]

\* The children of m the store has a row for.
Children(m) == {c \in Caps : capState[c] # Missing /\ payload[c].mandate = m}

\* A spend counted out in units, so that the total over a set of children is
\* the cardinality of a set of pairs.
Units(c, n) == {c} \X (1 .. n)
ReservedUnits(S) == UNION {Units(c, Reserve(payload[c])) : c \in S}
SpentUnits(S) == UNION {Units(c, spendConsumed[c]) : c \in S}

\* The mandate's ledger is exact: it holds the reservation of every child that
\* was debited, whatever minter crashed since, and no child is registered
\* under a mandate that did not reserve for it (debit_mandate_for_child).
LedgerIsExact ==
  \A m \in Mandates :
    /\ Children(m) \subseteq debited[m]
    /\ spendUsed[m] = Cardinality(ReservedUnits(debited[m]))
    /\ actionsUsed[m] = Cardinality(debited[m])

\* A mandate's children that carry a spend limit never spend more, together,
\* than the mandate allows, in whatever order they are minted and consumed.
BoundedChildrenWithinMandate ==
  \A m \in Mandates :
    spendLimit[m] # None =>
      Cardinality(SpentUnits({c \in Children(m) : payload[c].spendLimit # None})) <= spendLimit[m]

\* A mandate never has more registered children than its actions_limit.
ChildrenWithinActionsLimit ==
  \A m \in Mandates : actionsLimit[m] # None => Cardinality(Children(m)) <= actionsLimit[m]

\* Whoever mints, races and crashes: no mandate is overspent by the children that
\* carry a limit, and none has more children than it may (debit_mandate_for_child).
ChildrenWithinLimits == BoundedChildrenWithinMandate /\ ChildrenWithinActionsLimit

Flips(c) == capState[c] = "ISSUED" /\ capState'[c] = "CONSUMED"

\* Single use: a consumed capability stays consumed, with the spend its one
\* consumer presented.
SingleUse ==
  [][\A c \in Caps : capState[c] = "CONSUMED" =>
       capState'[c] = "CONSUMED" /\ spendConsumed'[c] = spendConsumed[c]]_vars

\* As long as the view was last refreshed by the authority, a capability is
\* consumed no later than its staleness bound after the authority revoked it or
\* its mandate, give or take the two stalls the lock does not cover: fetch to
\* sync call, and clock to lock.
RevocationWindow ==
  [][\A c \in Caps : Flips(c) /\ lastSync = lastHeard =>
       \A x \in RevokeTargets(c) : authorityRevokedAt[x] # None =>
         now <= authorityRevokedAt[x] + payload[c].staleness + MaxFetchLag + MaxLockWait]_vars

\* An expired capability is consumed no later than the wait for the lock
\* allows, because the expiry check uses the clock read before it.
ExpiryWindow ==
  [][\A c \in Caps : Flips(c) => now <= payload[c].expiresAt + MaxLockWait]_vars

\* A capability is consumed in time: inside both windows, that of its expiry and
\* that of its revocation, however syncs and clock readings overlap.
ConsumedInTime == RevocationWindow /\ ExpiryWindow

\* Once a mandate has ended, its ledger is closed and none of its children,
\* minted before or registered after, is ever consumed.
EndedMandateIsFrozen ==
  [][\A m \in Mandates : lifecycle[m] \in {"EXHAUSTED", "REVOKED", "EXPIRED"} =>
       /\ lifecycle'[m] \in {"EXHAUSTED", "REVOKED", "EXPIRED"}
       /\ spendUsed'[m] = spendUsed[m] /\ actionsUsed'[m] = actionsUsed[m]
       /\ \A c \in Children(m) : ~Flips(c)]_vars
=============================================================================
