------------------------------ MODULE Evidence ------------------------------
(***************************************************************************)
(* The evidence ledger and its chain of signed checkpoints                  *)
(* (anchored_checkpoints.py): EvidenceLog, the Merkle trees over its        *)
(* events, the append-only log of LocalEmulatedAnchor, CheckpointChain with *)
(* its rotation of signers, and verify_checkpoint_chain as an auditor runs  *)
(* it on whatever chain is presented.                                       *)
(*                                                                          *)
(* An event carries the hash of the one before it, so its hash stands for   *)
(* the ledger up to it; Merkle nodes are the trees they are the hash of.    *)
(* seal has no lock and waits for the anchor: its reading of the head, the  *)
(* anchoring, the admission check and the appending are steps.  Keys may be *)
(* stolen; who holds one signs any checkpoint, over any rewritten ledger,   *)
(* and has it anchored at any time, which the anchor takes from its caller. *)
(***************************************************************************)
EXTENDS Naturals, Sequences, FiniteSets, SequencesExt

CONSTANTS
  Sealers,
  Ids, Keys,        \* a signer is a key id with a key; the id alone proves nothing
  Bootstrap,        \* the signer auditors start from
  Declared,         \* the rotations the operator asks for
  Registered,       \* the signers the operator gives the chain
  Stealable,
  Data,             \* what the events of the ledger say
  Rewritings,       \* the ledgers someone else would like it to have been
  MaxEvents, MaxTime, MaxForged, MaxPresented,
  None

Signer == [id: Ids, key: Keys]

ASSUME SignerAssumption ==
  /\ Bootstrap \in Signer /\ Declared \subseteq Signer \cup {None} /\ Registered \subseteq Signer /\ Stealable \subseteq Keys
  /\ None \notin Signer \cup Keys

ASSUME BoundAssumption == MaxEvents \in Nat

VARIABLES
  log,
  anchored,     \* the anchor's log: roots with their timestamps
  signers,      \* the keys the chain was given, by id
  active, chain,
  sealer,
  stolen,
  known         \* the envelopes anyone may have seen: sealed ones and forged ones

vars == <<log, anchored, signers, active, chain, sealer, stolen, known>>

-----------------------------------------------------------------------------
(* Merkle trees *)

Leaf(ledger, i) == [ledger |-> SubSeq(ledger, 1, i)]
_parent_hash(l, r) == [left |-> l, right |-> r]
Leaves(ledger, start, end) == [i \in 1 .. end - start + 1 |-> Leaf(ledger, start + i)]

\* What a tree may be built over.
Ranges(ledger) == {r \in (0 .. MaxEvents - 1) \X (0 .. MaxEvents - 1) : r[1] <= r[2] /\ r[2] < Len(ledger)}

Even(level) == IF Len(level) % 2 = 1 THEN Append(level, Last(level)) ELSE level
Above(level) == [i \in 1 .. Len(Even(level)) \div 2 |-> _parent_hash(Even(level)[2 * i - 1], Even(level)[2 * i])]

\* The levels of a tree from the leaves up, to the first of one node.
LevelAt(leaves, h) == LET level[k \in 0 .. h] == IF k = 0 THEN leaves ELSE Above(level[k - 1]) IN level[h]
Height(leaves) ==
  CHOOSE h \in 0 .. Len(leaves) :
    Len(LevelAt(leaves, h)) = 1 /\ (h > 0 => Len(LevelAt(leaves, h - 1)) > 1)
build_merkle_root(leaves) == LevelAt(leaves, Height(leaves))[1]

Sibling(level, i) ==
  IF i % 2 = 1 THEN [sibling |-> Even(level)[i + 1], left |-> FALSE]
  ELSE [sibling |-> Even(level)[i - 1], left |-> TRUE]

\* Where the node over the i-th leaf is, h levels up, counting from 1.
PlaceAt(i, h) == LET place[k \in 0 .. h] == IF k = 0 THEN i ELSE (place[k - 1] + 1) \div 2 IN place[h]

\* The path from the i-th leaf to the root.
_prove(leaves, i) == [h \in 1 .. Height(leaves) |-> Sibling(LevelAt(leaves, h - 1), PlaceAt(i, h - 1))]

\* Mutant of Climb: the direction bit is ignored.
ClimbRight(node, step) == _parent_hash(node, step.sibling)

Climb(node, step) ==
  IF step.left THEN _parent_hash(step.sibling, node) ELSE _parent_hash(node, step.sibling)

Climbed(leaf, path) ==
  LET node[k \in 0 .. Len(path)] == IF k = 0 THEN leaf ELSE Climb(node[k - 1], path[k]) IN node[Len(path)]

verify_inclusion(e, leaf, path, total) == total = e.end - e.start + 1 /\ Climbed(leaf, path) = e.root

-----------------------------------------------------------------------------
(* Verification of a chain *)

\* A rotation takes effect after the checkpoint that declares it.
ActiveAt(c, n) ==
  LET rotations == {i \in 1 .. n - 1 : c[i].next # None}
  IN IF rotations = {} THEN Bootstrap ELSE c[CHOOSE i \in rotations : \A j \in rotations : j <= i].next

\* Mutant of SignedByActive: retired signers stay good.
SignedByKnown(c, n) == c[n].signer \in {ActiveAt(c, i) : i \in 1 .. n}

SignedByActive(c, n) == c[n].signer = ActiveAt(c, n)

Follows(c, n) ==
  IF n = 1 THEN c[n].previous = None
  ELSE /\ c[n].previous = c[n - 1].root
       /\ c[n].timestamp >= c[n - 1].timestamp
       /\ c[n].start = c[n - 1].end + 1

verify_checkpoint_chain(c) ==
  /\ c # <<>>
  /\ \A n \in DOMAIN c :
       /\ SignedByActive(c, n)
       /\ Follows(c, n)
       /\ <<c[n].root, c[n].timestamp>> \in anchored

\* verify_checkpoint_events on the operator's ledger
Rebuilds(e) == e.end < Len(log) /\ e.root = build_merkle_root(Leaves(log, e.start, e.end))

-----------------------------------------------------------------------------
(* The operator *)

Idle == [pc |-> "idle", envelope |-> None]

Init ==
  /\ log = <<>> /\ anchored = {}
  /\ signers = [i \in Ids |-> None]
  /\ active = Bootstrap.id /\ chain = <<>>
  /\ sealer = [s \in Sealers |-> Idle]
  /\ stolen = {} /\ known = {}

\* One step, although EvidenceLog.append has no lock: the events are those of a ledger that
\* one thread at a time appends to.
append(d) ==
  /\ Len(log) < MaxEvents
  /\ log' = Append(log, d)
  /\ UNCHANGED <<anchored, signers, active, chain, sealer, stolen, known>>

register_signer(i, k) ==
  /\ signers' = [signers EXCEPT ![i] = k]
  /\ UNCHANGED <<log, anchored, active, chain, sealer, stolen, known>>

seal_checkpoint(ledger, start, end, signer, previous, timestamp, next) ==
  [signer |-> signer, start |-> start, end |-> end,
   root |-> build_merkle_root(Leaves(ledger, start, end)),
   previous |-> previous, timestamp |-> timestamp, next |-> next]

\* seal and seal_checkpoint up to the call of the anchor: events start to end of the
\* ledger, which tile onto the head.  The timestamp may be given by the caller.
SealStarts(s, start, end, next, timestamp) ==
  LET signer == [id |-> active, key |-> signers[active]]
      head == Last(chain) IN
  /\ sealer[s].pc = "idle"
  /\ signers[active] # None
  /\ start = (IF chain = <<>> THEN 0 ELSE head.end + 1)
  /\ start <= end /\ end < Len(log)
  /\ sealer' = [sealer EXCEPT ![s] =
       [pc |-> "anchoring",
        envelope |-> seal_checkpoint(log, start, end, signer,
                                     IF chain = <<>> THEN None ELSE head.root, timestamp, next)]]
  /\ UNCHANGED <<log, anchored, signers, active, chain, stolen, known>>

\* Mutant of Anchored: a proof is signed but not kept in the log.
AnchoredUnlogged(s) ==
  /\ sealer[s].pc = "anchoring"
  /\ sealer' = [sealer EXCEPT ![s].pc = "admitting"]
  /\ UNCHANGED <<log, anchored, signers, active, chain, stolen, known>>

\* The anchor signs what it is asked to; a calendar may be out of reach.
Anchored(s) ==
  LET e == sealer[s].envelope IN
  /\ sealer[s].pc = "anchoring"
  /\ anchored' = anchored \cup {<<e.root, e.timestamp>>}
  /\ sealer' = [sealer EXCEPT ![s].pc = "admitting"]
  /\ UNCHANGED <<log, signers, active, chain, stolen, known>>

AnchorFails(s) ==
  /\ sealer[s].pc = "anchoring"
  /\ sealer' = [sealer EXCEPT ![s] = Idle]
  /\ UNCHANGED <<log, anchored, signers, active, chain, stolen, known>>

\* Mutant of Admits: the sealed checkpoint is not verified.
AdmitsUnseen(e) == TRUE

Admits(e) == verify_checkpoint_chain(Append(chain, e))

\* A checkpoint that is refused has been signed, but stays inside seal.
SealAdmits(s) ==
  /\ sealer[s].pc = "admitting"
  /\ IF Admits(sealer[s].envelope) THEN sealer' = [sealer EXCEPT ![s].pc = "appending"]
     ELSE sealer' = [sealer EXCEPT ![s] = Idle]
  /\ UNCHANGED <<log, anchored, signers, active, chain, stolen, known>>

SealAppends(s) ==
  LET e == sealer[s].envelope IN
  /\ sealer[s].pc = "appending"
  /\ chain' = Append(chain, e)
  /\ known' = known \cup {e}
  /\ sealer' = [sealer EXCEPT ![s] = IF e.next = None THEN Idle ELSE [@ EXCEPT !.pc = "rotating"]]
  /\ UNCHANGED <<log, anchored, signers, active, stolen>>

SealRotates(s) ==
  /\ sealer[s].pc = "rotating"
  /\ active' = sealer[s].envelope.next.id
  /\ sealer' = [sealer EXCEPT ![s] = Idle]
  /\ UNCHANGED <<log, anchored, signers, chain, stolen, known>>

-----------------------------------------------------------------------------
(* Who holds a stolen key *)

StealKey(k) ==
  /\ k \notin stolen
  /\ stolen' = stolen \cup {k}
  /\ UNCHANGED <<log, anchored, signers, active, chain, sealer, known>>

Forged == {e \in known : e \notin Range(chain)}

Forge(k) ==
  /\ k \in stolen
  /\ Cardinality(Forged) < MaxForged
  /\ \E i \in Ids, ledger \in Rewritings, previous \in {None} \cup {e.root : e \in known},
        timestamp \in 0 .. MaxTime, next \in Declared : \E range \in Ranges(ledger) :
       LET e == seal_checkpoint(ledger, range[1], range[2], [id |-> i, key |-> k], previous, timestamp, next)
       IN known' = known \cup {e} /\ anchored' = anchored \cup {<<e.root, timestamp>>}
  /\ UNCHANGED <<log, signers, active, chain, sealer, stolen>>

-----------------------------------------------------------------------------

Next ==
  \/ \E d \in Data : append(d)
  \/ \E x \in Registered : register_signer(x.id, x.key)
  \/ \E s \in Sealers, start, end \in 0 .. MaxEvents - 1, next \in Declared, timestamp \in 0 .. MaxTime :
       SealStarts(s, start, end, next, timestamp)
  \/ \E s \in Sealers :
       Anchored(s) \/ AnchorFails(s) \/ SealAdmits(s) \/ SealAppends(s) \/ SealRotates(s)
  \/ \E k \in Stealable : StealKey(k) \/ Forge(k)

Spec == Init /\ [][Next]_vars

-----------------------------------------------------------------------------
(* Properties *)

Roots ==
  UNION {{build_merkle_root(Leaves(ledger, r[1], r[2])) : r \in Ranges(ledger)} :
           ledger \in Rewritings \cup UNION {[1 .. n -> Data] : n \in 1 .. MaxEvents}}

\* A root is a hash, which is not None.
ASSUME RootAssumption == None \notin Roots

Envelope ==
  [signer: Signer, start: 0 .. MaxEvents - 1, end: 0 .. MaxEvents - 1, root: Roots,
   previous: Roots \cup {None}, timestamp: 0 .. MaxTime, next: Declared]

\* Type invariant: what the ledger, the anchor, the chain, the sealers and the forgers hold;
\* what is past the anchor is in its log.
TypeOK ==
  /\ log \in Seq(Data) /\ Len(log) <= MaxEvents
  /\ anchored \subseteq Roots \X (0 .. MaxTime)
  /\ signers \in [Ids -> Keys \cup {None}] /\ active \in Ids
  /\ Range(chain) \subseteq known
  /\ \A e \in known : e \in Envelope /\ e.start <= e.end /\ <<e.root, e.timestamp>> \in anchored
  /\ \A s \in Sealers :
       IF sealer[s].pc = "idle" THEN sealer[s] = Idle
       ELSE /\ sealer[s].pc \in {"anchoring", "admitting", "appending", "rotating"}
            /\ sealer[s].envelope \in Envelope /\ sealer[s].envelope.start <= sealer[s].envelope.end
            /\ sealer[s].pc # "anchoring" => <<sealer[s].envelope.root, sealer[s].envelope.timestamp>> \in anchored
  /\ stolen \subseteq Stealable

\* No two kept checkpoints are onto the same head.
NotRaced == \A m, n \in DOMAIN chain : m # n => chain[m].start # chain[n].start

\* CheckpointChain's docstring: the chain that seal keeps verifies and is rebuilt from the
\* ledger, whatever signers are declared, registered or replaced, with any timestamps and
\* any failures of the anchor, unless two calls of seal raced for one head.
KeptChainVerifies ==
  chain # <<>> /\ NotRaced =>
    /\ verify_checkpoint_chain(chain)
    /\ \A n \in DOMAIN chain : Rebuilds(chain[n])

\* verify_checkpoint_chain's docstring: rotation is "never retroactive".  A chain that
\* verifies is the operator's as far as both go, up to a checkpoint whose active key at that
\* position was stolen; a key that is stolen rewrites nothing before its turn, nor after it.
\* The module's docstring claims more (anchored_checkpoints.py:4-8: a forgery "must break" the
\* root, the link or the anchor proof; 428-430: who holds the checkpoint key "still cannot
\* fabricate an anchor proof for rewritten history"): LocalEmulatedAnchor.anchor signs and logs
\* what any caller gives it, so that with the active key a chain forks and verifies.
ForksNeedTheActiveKey ==
  NotRaced =>
    \A c \in UNION {[1 .. n -> known] : n \in 1 .. MaxPresented} :
      verify_checkpoint_chain(c) =>
        \A n \in DOMAIN c :
          (\A i \in 1 .. n - 1 : i <= Len(chain) /\ c[i] = chain[i])
            => (n <= Len(chain) /\ c[n] = chain[n]) \/ ActiveAt(c, n).key \in stolen

\* The paths of all trees over a ledger.
PathsOf(ledger) ==
  UNION {{<<_prove(Leaves(ledger, r[1], r[2]), i), r[2] - r[1] + 1>> : i \in 1 .. r[2] - r[1] + 1} :
           r \in Ranges(ledger)}

RewrittenPaths == UNION {PathsOf(ledger) : ledger \in Rewritings}

\* verify_inclusion's "fully offline inclusion check": of every event in the range of the
\* newest checkpoint the path verifies, and no other event does, rewritten or out of range,
\* with a path of any tree.  (Looked at between two seals.)
InclusionIsExact ==
  chain # <<>> /\ (\A s \in Sealers : sealer[s] = Idle) =>
    LET e == Last(chain)
        inside == Leaves(log, e.start, e.end) IN
    /\ \A i \in DOMAIN inside : verify_inclusion(e, inside[i], _prove(inside, i), Len(inside))
    /\ \A ledger \in Rewritings \cup {log} : \A i \in DOMAIN ledger :
         Leaf(ledger, i) \notin Range(inside) =>
           \A p \in RewrittenPaths \cup PathsOf(log) : ~verify_inclusion(e, Leaf(ledger, i), p[1], p[2])

=============================================================================
