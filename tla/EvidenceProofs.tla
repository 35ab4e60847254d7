---------------------------- MODULE EvidenceProofs ----------------------------
(* Proofs about Evidence, for any signers, any ledger and any number of       *)
(* sealers, rotations and stolen keys, and about Transparency, for any logs,   *)
(* any statements and any number of threads.  The two share how a claim is     *)
(* carried up a Merkle tree (InductionOnHeight) and what a level of one is.    *)
EXTENDS Evidence, Transparency, SequenceTheorems, FiniteSetTheorems, WellFoundedInduction, TLAPS

-----------------------------------------------------------------------------
(* Types *)

Sealing == [pc: {"anchoring", "admitting", "appending", "rotating"}, envelope: Envelope]

\* What TypeOK leaves to the reader: chain is a sequence, every sealer has a
\* state, and only a checkpoint that declares a signer is rotated to.
Shape ==
  /\ TypeOK
  /\ chain \in Seq(Envelope)
  /\ sealer \in [Sealers -> {Idle} \cup Sealing]
  /\ \A s \in Sealers : sealer[s].pc = "rotating" => sealer[s].envelope.next # None

\* A tree over a range of the ledger has one of Roots.
LEMMA LedgerRoots ==
  ASSUME log \in Seq(Data), Len(log) <= MaxEvents,
         NEW start \in 0 .. MaxEvents - 1, NEW end \in 0 .. MaxEvents - 1, start <= end, end < Len(log)
  PROVE  build_merkle_root(Leaves(log, start, end)) \in Roots
  <1>1. Len(log) \in 1 .. MaxEvents /\ log \in [1 .. Len(log) -> Data]
    BY BoundAssumption
  <1>2. <<start, end>> \in Ranges(log)
    BY DEF Ranges
  <1>. DEFINE R(ledger) == {build_merkle_root(Leaves(ledger, r[1], r[2])) : r \in Ranges(ledger)}
  <1>3. build_merkle_root(Leaves(log, start, end)) \in R(log)
    BY <1>2
  <1>. HIDE DEF R
  <1>4. R(log) \in {R(ledger) : ledger \in Rewritings \cup UNION {[1 .. n -> Data] : n \in 1 .. MaxEvents}}
    BY <1>1
  <1>5. Roots = UNION {R(ledger) : ledger \in Rewritings \cup UNION {[1 .. n -> Data] : n \in 1 .. MaxEvents}}
    BY DEF Roots, R
  <1>. QED
    BY <1>3, <1>4, <1>5

\* So has what a thief rebuilds.
LEMMA RewrittenRoots ==
  ASSUME NEW ledger \in Rewritings, NEW range \in Ranges(ledger)
  PROVE  build_merkle_root(Leaves(ledger, range[1], range[2])) \in Roots
  <1>. DEFINE R(l) == {build_merkle_root(Leaves(l, r[1], r[2])) : r \in Ranges(l)}
  <1>1. build_merkle_root(Leaves(ledger, range[1], range[2])) \in R(ledger)
    OBVIOUS
  <1>. HIDE DEF R
  <1>2. Roots = UNION {R(l) : l \in Rewritings \cup UNION {[1 .. n -> Data] : n \in 1 .. MaxEvents}}
    BY DEF Roots, R
  <1>. QED
    BY <1>1, <1>2

\* The last checkpoint of a chain is one of its checkpoints.
LEMMA HeadOfChain ==
  ASSUME Shape, chain # <<>>
  PROVE  Len(chain) \in DOMAIN chain /\ Last(chain) = chain[Len(chain)] /\ Last(chain) \in Envelope
BY DEF Shape, Last

LEMMA TypeInit == Init => Shape
BY SignerAssumption, BoundAssumption DEF Init, Shape, TypeOK, Idle, Signer, Range

\* What is sealed is an envelope, of a range of the ledger.
LEMMA StartShape ==
  ASSUME Shape, NEW s \in Sealers, NEW start \in 0 .. MaxEvents - 1, NEW end \in 0 .. MaxEvents - 1,
         NEW next \in Declared, NEW timestamp \in 0 .. MaxTime, SealStarts(s, start, end, next, timestamp)
  PROVE  /\ sealer'[s].pc = "anchoring" /\ sealer'[s].envelope \in Envelope
         /\ sealer'[s].envelope.start <= sealer'[s].envelope.end
         /\ sealer' = [sealer EXCEPT ![s] = sealer'[s]] /\ sealer'[s] \in Sealing
  <1>. DEFINE previous == IF chain = <<>> THEN None ELSE Last(chain).root
              e == seal_checkpoint(log, start, end, [id |-> active, key |-> signers[active]], previous, timestamp, next)
  <1>1. previous \in Roots \cup {None}
    BY HeadOfChain DEF Envelope
  <1>2. [id |-> active, key |-> signers[active]] \in Signer
    BY DEF SealStarts, Shape, TypeOK, Signer
  <1>3. start <= end /\ build_merkle_root(Leaves(log, start, end)) \in Roots
    BY LedgerRoots DEF SealStarts, Shape, TypeOK
  <1>4. sealer' = [sealer EXCEPT ![s] = [pc |-> "anchoring", envelope |-> e]]
    BY DEF SealStarts
  <1>. HIDE DEF previous
  <1>5. e \in Envelope /\ e.start = start /\ e.end = end
    BY <1>1, <1>2, <1>3 DEF Envelope, seal_checkpoint
  <1>. HIDE DEF e
  <1>. QED
    BY <1>3, <1>4, <1>5 DEF Shape, Sealing

\* TypeOK, by who holds what.
SealerOK(s) ==
  IF sealer[s].pc = "idle" THEN sealer[s] = Idle
  ELSE /\ sealer[s].pc \in {"anchoring", "admitting", "appending", "rotating"}
       /\ sealer[s].envelope \in Envelope /\ sealer[s].envelope.start <= sealer[s].envelope.end
       /\ sealer[s].pc # "anchoring" => <<sealer[s].envelope.root, sealer[s].envelope.timestamp>> \in anchored
       /\ sealer[s].pc = "rotating" => sealer[s].envelope.next # None

EnvelopeOK(e) == e \in Envelope /\ e.start <= e.end /\ <<e.root, e.timestamp>> \in anchored

SealersOK == sealer \in [Sealers -> {Idle} \cup Sealing] /\ \A s \in Sealers : SealerOK(s)
LedgerOK == log \in Seq(Data) /\ Len(log) <= MaxEvents
KeysOK == signers \in [Ids -> Keys \cup {None}] /\ active \in Ids /\ stolen \subseteq Stealable
ChainOK == chain \in Seq(Envelope) /\ Range(chain) \subseteq known
KnownOK == anchored \subseteq Roots \X (0 .. MaxTime) /\ \A e \in known : EnvelopeOK(e)

LEMMA ShapeByParts == Shape <=> SealersOK /\ LedgerOK /\ KeysOK /\ ChainOK /\ KnownOK
BY DEF Shape, TypeOK, SealerOK, EnvelopeOK, SealersOK, LedgerOK, KeysOK, ChainOK, KnownOK, Idle

LEMMA ShapeByPartsNext == Shape' <=> SealersOK' /\ LedgerOK' /\ KeysOK' /\ ChainOK' /\ KnownOK'
BY DEF Shape, TypeOK, SealerOK, EnvelopeOK, SealersOK, LedgerOK, KeysOK, ChainOK, KnownOK, Idle

\* What a call of seal holds while it is in progress.
LEMMA SealingMoves ==
  ASSUME NEW x \in Sealing, NEW pc \in {"anchoring", "admitting", "appending", "rotating"}
  PROVE  [x EXCEPT !.pc = pc] = [pc |-> pc, envelope |-> x.envelope] /\ [x EXCEPT !.pc = pc] \in Sealing
BY DEF Sealing

\* A sealer that goes on from a state it may be in to another.
LEMMA SealerGoesOn ==
  ASSUME SealersOK, NEW s \in Sealers, NEW x \in {Idle} \cup Sealing, sealer' = [sealer EXCEPT ![s] = x],
         anchored \subseteq anchored', SealerOK(s)'
  PROVE  SealersOK'
  <1>1. sealer' \in [Sealers -> {Idle} \cup Sealing]
    BY DEF SealersOK
  <1>2. ASSUME NEW r \in Sealers, r # s PROVE SealerOK(r)'
    <2>1. sealer'[r] = sealer[r] /\ SealerOK(r)
      BY <1>2 DEF SealersOK
    <2>. QED
      BY <2>1 DEF SealerOK
  <1>. QED
    BY <1>1, <1>2 DEF SealersOK

\* The anchor's log grows.
LEMMA SealersWaiting ==
  ASSUME SealersOK, UNCHANGED sealer, anchored \subseteq anchored'
  PROVE  SealersOK'
BY DEF SealersOK, SealerOK

LEMMA KnownStays ==
  ASSUME KnownOK, UNCHANGED known, anchored \subseteq anchored', anchored' \subseteq Roots \X (0 .. MaxTime)
  PROVE  KnownOK'
BY DEF KnownOK, EnvelopeOK

\* Forge: the new envelope is well-formed and anchored.
LEMMA ForgeStep ==
  ASSUME Shape, NEW k \in Stealable, Forge(k)
  PROVE  \E e \in Envelope :
           /\ e.signer.key = k /\ e.start <= e.end
           /\ known' = known \cup {e} /\ anchored' = anchored \cup {<<e.root, e.timestamp>>}
  <1>1. PICK i \in Ids, ledger \in Rewritings, previous \in {None} \cup {e.root : e \in known},
             timestamp \in 0 .. MaxTime, next \in Declared :
          \E range \in Ranges(ledger) :
          LET e == seal_checkpoint(ledger, range[1], range[2], [id |-> i, key |-> k], previous, timestamp, next)
          IN known' = known \cup {e} /\ anchored' = anchored \cup {<<e.root, timestamp>>}
    BY DEF Forge
  <1>r. PICK range \in Ranges(ledger) :
          LET e == seal_checkpoint(ledger, range[1], range[2], [id |-> i, key |-> k], previous, timestamp, next)
          IN known' = known \cup {e} /\ anchored' = anchored \cup {<<e.root, timestamp>>}
    BY <1>1
  <1>. DEFINE root == build_merkle_root(Leaves(ledger, range[1], range[2]))
              e == seal_checkpoint(ledger, range[1], range[2], [id |-> i, key |-> k], previous, timestamp, next)
  <1>2. root \in Roots
    BY RewrittenRoots
  <1>3. previous \in Roots \cup {None}
    <2>1. \A x \in known : x \in Envelope
      BY DEF Shape, TypeOK
    <2>2. \A x \in Envelope : x.root \in Roots
      BY DEF Envelope
    <2>. QED
      BY <2>1, <2>2
  <1>4. [id |-> i, key |-> k] \in Signer
    BY SignerAssumption DEF Signer
  <1>5. range[1] \in 0 .. MaxEvents - 1 /\ range[2] \in 0 .. MaxEvents - 1 /\ range[1] <= range[2]
    BY DEF Ranges
  <1>6. e = [signer |-> [id |-> i, key |-> k], start |-> range[1], end |-> range[2], root |-> root,
             previous |-> previous, timestamp |-> timestamp, next |-> next]
    BY DEF seal_checkpoint
  <1>. HIDE DEF root
  <1>7. e \in Envelope /\ e.signer.key = k /\ e.start <= e.end /\ e.timestamp = timestamp
    BY <1>2, <1>3, <1>4, <1>5, <1>6 DEF Envelope
  <1>8. known' = known \cup {e} /\ anchored' = anchored \cup {<<e.root, timestamp>>}
    BY <1>r
  <1>. HIDE DEF e
  <1>. QED
    BY <1>7, <1>8

LEMMA TypeStep ==
  ASSUME Shape, [Next]_vars
  PROVE  Shape'
  <1>0. SealersOK /\ LedgerOK /\ KeysOK /\ ChainOK /\ KnownOK
    BY ShapeByParts
  <1>a. \A s \in Sealers : SealerOK(s) /\ sealer[s] \in {Idle} \cup Sealing
    BY <1>0 DEF SealersOK
  <1>1. ASSUME NEW d \in Data, append(d) PROVE Shape'
    <2>1. LedgerOK'
      BY <1>0, <1>1, BoundAssumption DEF LedgerOK, append
    <2>2. SealersOK' /\ KnownOK'
      BY <1>0, <1>1, SealersWaiting, KnownStays DEF append, KnownOK
    <2>3. KeysOK' /\ ChainOK'
      BY <1>0, <1>1 DEF append, KeysOK, ChainOK, Range
    <2>. QED
      BY <2>1, <2>2, <2>3, ShapeByPartsNext
  <1>2. ASSUME NEW x \in Registered, register_signer(x.id, x.key) PROVE Shape'
    <2>1. KeysOK'
      BY <1>0, <1>2, SignerAssumption DEF KeysOK, register_signer, Signer
    <2>2. SealersOK' /\ KnownOK'
      BY <1>0, <1>2, SealersWaiting, KnownStays DEF register_signer, KnownOK
    <2>3. LedgerOK' /\ ChainOK'
      BY <1>0, <1>2 DEF register_signer, LedgerOK, ChainOK, Range
    <2>. QED
      BY <2>1, <2>2, <2>3, ShapeByPartsNext
  <1>3. ASSUME NEW s \in Sealers, NEW start \in 0 .. MaxEvents - 1, NEW end \in 0 .. MaxEvents - 1,
               NEW next \in Declared, NEW timestamp \in 0 .. MaxTime,
               SealStarts(s, start, end, next, timestamp)
        PROVE Shape'
    <2>1. SealerOK(s)' /\ sealer' = [sealer EXCEPT ![s] = sealer'[s]] /\ sealer'[s] \in Sealing
      BY <1>3, StartShape DEF SealerOK
    <2>2. anchored' = anchored
      BY <1>3 DEF SealStarts
    <2>3. SealersOK'
      BY <1>0, <2>1, <2>2, SealerGoesOn
    <2>4. KnownOK'
      BY <1>0, <1>3, KnownStays DEF SealStarts, KnownOK
    <2>5. LedgerOK' /\ KeysOK' /\ ChainOK'
      BY <1>0, <1>3 DEF SealStarts, LedgerOK, KeysOK, ChainOK, Range
    <2>. QED
      BY <2>3, <2>4, <2>5, ShapeByPartsNext
  <1>4. ASSUME NEW s \in Sealers, Anchored(s) PROVE Shape'
    <2>. DEFINE e == sealer[s].envelope
    <2>1. sealer[s] \in Sealing /\ SealerOK(s) /\ e \in Envelope
      BY <1>4, <1>a DEF Anchored, Idle, Sealing
    <2>2. sealer' = [sealer EXCEPT ![s] = [sealer[s] EXCEPT !.pc = "admitting"]]
      BY <1>4 DEF Anchored
    <2>3. [sealer[s] EXCEPT !.pc = "admitting"] = [pc |-> "admitting", envelope |-> e]
          /\ [sealer[s] EXCEPT !.pc = "admitting"] \in Sealing
      BY <2>1, SealingMoves
    <2>4. anchored' = anchored \cup {<<e.root, e.timestamp>>} /\ known' = known
      BY <1>4 DEF Anchored
    <2>5. <<e.root, e.timestamp>> \in Roots \X (0 .. MaxTime)
      BY <2>1 DEF Envelope
    <2>6. SealerOK(s)'
      <3>1. sealer'[s] = [pc |-> "admitting", envelope |-> e]
        BY <1>0, <2>2, <2>3 DEF SealersOK
      <3>2. e.start <= e.end
        BY <1>4, <2>1 DEF SealerOK, Anchored
      <3>. QED
        BY <2>1, <2>4, <3>1, <3>2 DEF SealerOK
    <2>7. SealersOK'
      BY <1>0, <2>2, <2>3, <2>4, <2>6, SealerGoesOn
    <2>8. KnownOK'
      BY <1>0, <2>4, <2>5, KnownStays DEF KnownOK
    <2>9. LedgerOK' /\ KeysOK' /\ ChainOK'
      BY <1>0, <1>4 DEF Anchored, LedgerOK, KeysOK, ChainOK, Range
    <2>. QED
      BY <2>7, <2>8, <2>9, ShapeByPartsNext
  <1>5. ASSUME NEW s \in Sealers, NEW x \in {Idle} \cup Sealing,
               sealer' = [sealer EXCEPT ![s] = x], SealerOK(s)', UNCHANGED <<log, anchored, signers, chain, stolen, known>>,
               active' \in Ids
        PROVE Shape'
    <2>1. SealersOK'
      BY <1>0, <1>5, SealerGoesOn
    <2>2. KnownOK'
      BY <1>0, <1>5, KnownStays DEF KnownOK
    <2>3. LedgerOK' /\ KeysOK' /\ ChainOK'
      BY <1>0, <1>5 DEF LedgerOK, KeysOK, ChainOK, Range
    <2>. QED
      BY <2>1, <2>2, <2>3, ShapeByPartsNext
  <1>i. ASSUME NEW s \in Sealers, sealer' = [sealer EXCEPT ![s] = Idle] PROVE SealerOK(s)'
    BY <1>0, <1>i DEF SealersOK, SealerOK, Idle
  <1>6. ASSUME NEW s \in Sealers, AnchorFails(s) PROVE Shape'
    BY <1>0, <1>5, <1>6, <1>i DEF AnchorFails, KeysOK
  <1>7. ASSUME NEW s \in Sealers, SealAdmits(s) PROVE Shape'
    <2>1. CASE Admits(sealer[s].envelope)
      <3>. DEFINE x == [pc |-> "appending", envelope |-> sealer[s].envelope]
      <3>1. sealer[s] \in Sealing /\ SealerOK(s)
        BY <1>7, <1>a DEF SealAdmits, Idle
      <3>2. sealer' = [sealer EXCEPT ![s] = x] /\ x \in Sealing
        BY <1>7, <2>1, <3>1 DEF SealAdmits, Sealing
      <3>3. sealer'[s] = x
        BY <1>0, <3>2 DEF SealersOK
      <3>4. SealerOK(s)'
        BY <1>7, <3>1, <3>3 DEF SealerOK, SealAdmits
      <3>. QED
        BY <1>0, <1>5, <1>7, <3>2, <3>4 DEF SealAdmits, KeysOK
    <2>2. CASE ~Admits(sealer[s].envelope)
      BY <1>0, <1>5, <1>7, <1>i, <2>2 DEF SealAdmits, KeysOK
    <2>. QED
      BY <2>1, <2>2
  <1>8. ASSUME NEW s \in Sealers, SealAppends(s) PROVE Shape'
    <2>. DEFINE e == sealer[s].envelope
    <2>1. sealer[s] \in Sealing /\ SealerOK(s) /\ EnvelopeOK(e)
      BY <1>8, <1>a DEF SealAppends, Idle, SealerOK, EnvelopeOK
    <2>2. chain' = Append(chain, e) /\ known' = known \cup {e} /\ UNCHANGED <<log, anchored, signers, active, stolen>>
      BY <1>8 DEF SealAppends
    <2>3. ChainOK'
      <3>1. chain \in Seq(Envelope) /\ e \in Envelope
        BY <1>0, <2>1 DEF ChainOK, EnvelopeOK
      <3>. HIDE DEF e
      <3>2. chain' \in Seq(Envelope) /\ Range(chain') = Range(chain) \cup {e}
        BY <2>2, <3>1 DEF Range
      <3>. QED
        BY <1>0, <2>2, <3>2 DEF ChainOK
    <2>4. KnownOK'
      BY <1>0, <2>1, <2>2 DEF KnownOK, EnvelopeOK
    <2>5. SealersOK'
      <3>1. CASE e.next = None
        BY <1>0, <1>8, <1>i, <2>2, <3>1, SealerGoesOn DEF SealAppends
      <3>2. CASE e.next # None
        <4>. DEFINE x == [pc |-> "rotating", envelope |-> e]
        <4>1. sealer' = [sealer EXCEPT ![s] = x] /\ x \in Sealing
          <5>1. sealer' = [sealer EXCEPT ![s] = [sealer[s] EXCEPT !.pc = "rotating"]]
            BY <1>8, <3>2 DEF SealAppends
          <5>. QED
            BY <2>1, <5>1, SealingMoves
        <4>2. sealer'[s] = x
          BY <1>0, <4>1 DEF SealersOK
        <4>3. SealerOK(s)'
          BY <2>1, <2>2, <3>2, <4>2 DEF SealerOK, EnvelopeOK
        <4>. QED
          BY <1>0, <2>2, <4>1, <4>3, SealerGoesOn
      <3>. QED
        BY <3>1, <3>2
    <2>6. LedgerOK' /\ KeysOK'
      BY <1>0, <2>2 DEF LedgerOK, KeysOK
    <2>. QED
      BY <2>3, <2>4, <2>5, <2>6, ShapeByPartsNext
  <1>9. ASSUME NEW s \in Sealers, SealRotates(s) PROVE Shape'
    <2>1. sealer[s] \in Sealing /\ SealerOK(s) /\ sealer[s].envelope.next # None
      BY <1>9, <1>a DEF SealRotates, Idle, SealerOK
    <2>2. sealer[s].envelope.next \in Declared
      BY <2>1 DEF Sealing, Envelope
    <2>3. active' \in Ids
      BY <1>9, <2>1, <2>2, SignerAssumption DEF SealRotates, Signer
    <2>. QED
      BY <1>5, <1>9, <1>i, <2>3 DEF SealRotates
  <1>10. ASSUME NEW k \in Stealable, StealKey(k) PROVE Shape'
    <2>1. KeysOK'
      BY <1>0, <1>10 DEF KeysOK, StealKey
    <2>2. SealersOK' /\ KnownOK'
      BY <1>0, <1>10, SealersWaiting, KnownStays DEF StealKey, KnownOK
    <2>3. LedgerOK' /\ ChainOK'
      BY <1>0, <1>10 DEF StealKey, LedgerOK, ChainOK, Range
    <2>. QED
      BY <2>1, <2>2, <2>3, ShapeByPartsNext
  <1>11. ASSUME NEW k \in Stealable, Forge(k) PROVE Shape'
    <2>1. PICK e \in Envelope : /\ e.start <= e.end /\ known' = known \cup {e}
                                /\ anchored' = anchored \cup {<<e.root, e.timestamp>>}
      BY <1>11, ForgeStep
    <2>2. UNCHANGED <<log, signers, active, chain, sealer, stolen>>
      BY <1>11 DEF Forge
    <2>3. <<e.root, e.timestamp>> \in Roots \X (0 .. MaxTime)
      BY DEF Envelope
    <2>4. KnownOK'
      BY <1>0, <2>1, <2>3 DEF KnownOK, EnvelopeOK
    <2>5. SealersOK'
      BY <1>0, <2>1, <2>2, SealersWaiting
    <2>6. LedgerOK' /\ KeysOK' /\ ChainOK'
      BY <1>0, <2>1, <2>2 DEF LedgerOK, KeysOK, ChainOK, Range
    <2>. QED
      BY <2>4, <2>5, <2>6, ShapeByPartsNext
  <1>12. CASE UNCHANGED vars
    <2>1. SealersOK' /\ KnownOK'
      BY <1>0, <1>12, SealersWaiting, KnownStays DEF vars, KnownOK
    <2>2. LedgerOK' /\ KeysOK' /\ ChainOK'
      BY <1>0, <1>12 DEF vars, LedgerOK, KeysOK, ChainOK, Range
    <2>. QED
      BY <2>1, <2>2, ShapeByPartsNext
  <1>. QED
    BY <1>1, <1>2, <1>3, <1>4, <1>6, <1>7, <1>8, <1>9, <1>10, <1>11, <1>12 DEF Next

LEMMA ShapeHolds == Spec => []Shape
BY TypeInit, TypeStep, PTL DEF Spec

\* Whatever is sealed, registered, rotated to, stolen and forged, every variable stays in
\* its range and what anyone has seen is in the anchor's log.
THEOREM TypesHold == Spec => []TypeOK
  <1>1. Shape => TypeOK
    BY DEF Shape
  <1>. QED
    BY <1>1, ShapeHolds, PTL

-----------------------------------------------------------------------------
(* The kept chain *)

\* verify_checkpoint_chain against the entries a of an anchor's log.
Verified(c, a) ==
  /\ c # <<>>
  /\ \A n \in DOMAIN c : SignedByActive(c, n) /\ Follows(c, n) /\ <<c[n].root, c[n].timestamp>> \in a

\* The first event of an n-th checkpoint that tiles onto c.
StartAt(c, n) == IF n = 1 THEN 0 ELSE c[n - 1].end + 1

\* A checkpoint of the operator's: rebuilt from the ledger, and from its first event if it is
\* onto no head.
Tiles(e) == Rebuilds(e) /\ (e.previous = None => e.start = 0)

\* What has been admitted still extends the chain, or starts where a kept one does.
Admitted(e) == Verified(Append(chain, e), anchored) \/ \E n \in DOMAIN chain : e.start = StartAt(chain, n)

KeptTiles == \A n \in DOMAIN chain : Tiles(chain[n])
SealedTiles == \A s \in Sealers : sealer[s].pc # "idle" => Tiles(sealer[s].envelope)
AdmittedExtends == \A s \in Sealers : sealer[s].pc = "appending" => Admitted(sealer[s].envelope)
ChainVerifies == NotRaced /\ chain # <<>> => Verified(chain, anchored)
ChainAscends == NotRaced => \A i, j \in DOMAIN chain : i <= j => chain[i].start <= chain[j].end
ForgedByThieves == \A e \in known : e \in Range(chain) \/ e.signer.key \in stolen

IInv ==
  /\ Shape
  /\ KeptTiles /\ SealedTiles
  /\ AdmittedExtends /\ ChainVerifies /\ ChainAscends
  /\ ForgedByThieves

LEMMA EnvelopeNumbers == \A e \in Envelope : e.start \in Nat /\ e.end \in Nat
BY BoundAssumption DEF Envelope

LEMMA VerifiedIs == \A c : verify_checkpoint_chain(c) <=> Verified(c, anchored)
BY DEF verify_checkpoint_chain, Verified

\* The ledger below an event stays what it is.
LEMMA LeavesStay ==
  ASSUME NEW l \in Seq(Data), NEW d \in Data, NEW start \in Nat, NEW end \in Nat, start <= end, end < Len(l)
  PROVE  Leaves(Append(l, d), start, end) = Leaves(l, start, end)
  <1>1. ASSUME NEW i \in 1 .. end - start + 1
        PROVE SubSeq(Append(l, d), 1, start + i) = SubSeq(l, 1, start + i)
    <2>1. start + i \in 1 .. Len(l)
      OBVIOUS
    <2>. QED
      BY <2>1
  <1>. QED
    BY <1>1 DEF Leaves, Leaf

LEMMA TilesStill ==
  ASSUME Shape, [Next]_vars, NEW e \in Envelope, e.start <= e.end, Tiles(e)
  PROVE  Tiles(e)'
  <1>1. e.start \in Nat /\ e.end \in Nat
    BY BoundAssumption DEF Envelope
  <1>2. CASE log' = log
    BY <1>2 DEF Tiles, Rebuilds
  <1>3. ASSUME NEW d \in Data, append(d) PROVE Tiles(e)'
    <2>1. log \in Seq(Data) /\ log' = Append(log, d) /\ e.end < Len(log)
      BY <1>3 DEF append, Tiles, Rebuilds, Shape, TypeOK
    <2>2. Leaves(log', e.start, e.end) = Leaves(log, e.start, e.end) /\ e.end < Len(log')
      BY <1>1, <2>1, LeavesStay
    <2>. QED
      BY <2>2 DEF Tiles, Rebuilds
  <1>. QED
    BY <1>2, <1>3 DEF Next, vars, register_signer, SealStarts, Anchored, AnchorFails, SealAdmits, SealAppends,
       SealRotates, StealKey, Forge

\* Which step does what: the chain grows by an admitted checkpoint, the rest leaves it alone,
\* and nothing is taken back from the anchor's log, from the ledger or from the thieves.
LEMMA ChainGrows ==
  ASSUME [Next]_vars
  PROVE  /\ (\E s \in Sealers : SealAppends(s)) \/ chain' = chain
         /\ anchored \subseteq anchored' /\ stolen \subseteq stolen'
  <1>1. (\E s \in Sealers : SealAppends(s)) \/ chain' = chain
    BY DEF Next, vars, append, register_signer, SealStarts, Anchored, AnchorFails, SealAdmits, SealRotates,
       StealKey, Forge
  <1>2. \A k \in Stealable : Forge(k) => anchored \subseteq anchored' /\ UNCHANGED stolen
    <2>. SUFFICES ASSUME NEW k \in Stealable, Forge(k) PROVE anchored \subseteq anchored' /\ UNCHANGED stolen
      OBVIOUS
    <2>1. \E x : anchored' = anchored \cup {x}
      BY DEF Forge
    <2>. QED
      BY <2>1 DEF Forge
  <1>3. anchored \subseteq anchored' /\ stolen \subseteq stolen'
    BY <1>2 DEF Next, vars, append, register_signer, SealStarts, Anchored, AnchorFails, SealAdmits, SealAppends,
       SealRotates, StealKey
  <1>. QED
    BY <1>1, <1>3

LEMMA SealedStep ==
  ASSUME IInv, [Next]_vars
  PROVE  SealedTiles'
  <1>1. SUFFICES ASSUME NEW s \in Sealers, sealer'[s].pc # "idle", NEW e, e = sealer'[s].envelope PROVE Tiles(e)'
    BY DEF SealedTiles
  <1>2. CASE sealer[s].pc # "idle" /\ sealer'[s].envelope = sealer[s].envelope
    <2>1. sealer[s].envelope \in Envelope /\ sealer[s].envelope.start <= sealer[s].envelope.end
      BY <1>2 DEF IInv, Shape, TypeOK
    <2>. QED
      BY <1>1, <1>2, <2>1, TilesStill DEF IInv, SealedTiles
  <1>3. ASSUME NEW start \in 0 .. MaxEvents - 1, NEW end \in 0 .. MaxEvents - 1,
               NEW next \in Declared, NEW timestamp \in 0 .. MaxTime,
               SealStarts(s, start, end, next, timestamp)
        PROVE Tiles(e)'
    <2>. DEFINE previous == IF chain = <<>> THEN None ELSE Last(chain).root
    <2>1. /\ e = seal_checkpoint(log, start, end, [id |-> active, key |-> signers[active]], previous, timestamp, next)
          /\ log' = log /\ end < Len(log)
      BY <1>1, <1>3 DEF SealStarts, IInv, Shape
    <2>2. e.start = start /\ e.end = end /\ e.root = build_merkle_root(Leaves(log, start, end)) /\ e.previous = previous
      BY <2>1 DEF seal_checkpoint
    <2>3. previous = None => start = 0
      <3>1. chain # <<>> => Last(chain).root \in Roots
        BY HeadOfChain DEF IInv, Envelope
      <3>. QED
        BY <1>3, <3>1, RootAssumption DEF SealStarts
    <2>. QED
      BY <2>1, <2>2, <2>3 DEF Tiles, Rebuilds
  <1>. QED
    <2>1. sealer \in [Sealers -> {Idle} \cup Sealing]
      BY DEF IInv, Shape
    <2>. QED
      BY <1>1, <1>2, <1>3, <2>1 DEF Next, vars, append, register_signer, SealStarts, Anchored, AnchorFails, SealAdmits,
         SealAppends, SealRotates, StealKey, Forge, Idle, Sealing

LEMMA KeptStep ==
  ASSUME IInv, [Next]_vars
  PROVE  KeptTiles'
  <1>1. ASSUME NEW e \in Envelope, e \in Range(chain) PROVE Tiles(e)'
    <2>1. e.start <= e.end
      BY <1>1 DEF IInv, Shape, TypeOK
    <2>2. Tiles(e)
      BY <1>1 DEF IInv, KeptTiles, Range
    <2>. QED
      BY <2>1, <2>2, TilesStill DEF IInv
  <1>2. chain \in Seq(Envelope)
    BY DEF IInv, Shape
  <1>3. CASE chain' = chain
    BY <1>1, <1>2, <1>3 DEF KeptTiles, Range
  <1>4. ASSUME NEW s \in Sealers, SealAppends(s) PROVE KeptTiles'
    <2>1. sealer[s].pc # "idle" /\ sealer[s].envelope \in Envelope /\ sealer[s].envelope.start <= sealer[s].envelope.end
      BY <1>4 DEF SealAppends, IInv, Shape, TypeOK
    <2>2. PICK e \in Envelope : e = sealer[s].envelope
      BY <2>1
    <2>3. Tiles(e)'
      BY <2>1, <2>2, TilesStill DEF IInv, SealedTiles
    <2>4. chain' = Append(chain, e)
      BY <1>4, <2>2 DEF SealAppends
    <2>5. \A n \in DOMAIN chain' : chain'[n] = e \/ (chain'[n] \in Range(chain) /\ chain'[n] \in Envelope)
      BY <1>2, <2>4 DEF Range
    <2>. QED
      BY <1>1, <2>3, <2>5 DEF KeptTiles
  <1>. QED
    BY <1>3, <1>4, ChainGrows

LEMMA ForgedStep ==
  ASSUME IInv, [Next]_vars
  PROVE  ForgedByThieves'
  <1>1. chain \in Seq(Envelope)
    BY DEF IInv, Shape
  <1>2. Range(chain) \subseteq Range(chain')
    <2>1. ASSUME NEW s \in Sealers, SealAppends(s) PROVE Range(chain) \subseteq Range(chain')
      BY <1>1, <2>1 DEF SealAppends, Range
    <2>. QED
      BY <2>1, ChainGrows
  <1>3. ASSUME NEW e \in known' PROVE e \in known \/ e \in Range(chain') \/ e.signer.key \in stolen'
    <2>1. ASSUME NEW s \in Sealers, SealAppends(s) PROVE sealer[s].envelope \in Range(chain')
      BY <1>1, <2>1 DEF SealAppends, Range
    <2>2. ASSUME NEW k \in Stealable, Forge(k) PROVE e \in known \/ e.signer.key \in stolen'
      <3>1. k \in stolen'
        BY <2>2 DEF Forge
      <3>2. PICK f \in Envelope : f.signer.key = k /\ known' = known \cup {f}
        BY <2>2, ForgeStep DEF IInv
      <3>. QED
        BY <3>1, <3>2
    <2>. QED
      BY <1>3, <2>1, <2>2 DEF Next, vars, append, register_signer, SealStarts, Anchored, AnchorFails, SealAdmits,
         SealAppends, SealRotates, StealKey
  <1>. QED
    BY <1>2, <1>3, ChainGrows DEF IInv, ForgedByThieves, Range

\* A checkpoint that a chain verifies with at its end starts where the end is.
LEMMA LastStartsAtEnd ==
  ASSUME NEW c \in Seq(Envelope), NEW e \in Envelope, NEW a, Verified(Append(c, e), a),
         e.previous = None => e.start = 0
  PROVE  e.start = StartAt(c, Len(c) + 1)
  <1>. DEFINE d == Append(c, e)
  <1>1. /\ Len(c) \in Nat /\ Len(c) + 1 \in DOMAIN d /\ d[Len(c) + 1] = e
        /\ Len(c) # 0 => d[Len(c)] = c[Len(c)]
    OBVIOUS
  <1>2. Follows(d, Len(c) + 1)
    BY <1>1 DEF Verified
  <1>. HIDE DEF d
  <1>3. CASE Len(c) = 0
    BY <1>1, <1>2, <1>3 DEF Follows, StartAt
  <1>4. CASE Len(c) # 0
    BY <1>1, <1>2, <1>4 DEF Follows, StartAt
  <1>. QED
    BY <1>3, <1>4

\* While no two calls raced, each checkpoint starts where the one before it ends.
LEMMA KeptStarts ==
  ASSUME IInv, NotRaced, NEW n \in DOMAIN chain
  PROVE  chain[n].start = StartAt(chain, n)
  <1>1. Follows(chain, n) /\ n \in Nat
    <2>1. chain \in Seq(Envelope) /\ chain # <<>> /\ n \in Nat
      BY DEF IInv, Shape
    <2>. QED
      BY <2>1 DEF IInv, ChainVerifies, Verified
  <1>2. chain[n].previous = None => chain[n].start = 0
    BY DEF IInv, KeptTiles, Tiles
  <1>. QED
    BY <1>1, <1>2 DEF Follows, StartAt

\* No later start is the end of an earlier checkpoint.
LEMMA HeadIsNew ==
  ASSUME IInv, NotRaced, NEW n \in DOMAIN chain
  PROVE  chain[n].start # StartAt(chain, Len(chain) + 1)
  <1>1. chain \in Seq(Envelope) /\ Len(chain) \in DOMAIN chain /\ n <= Len(chain) /\ Len(chain) # 0
    BY DEF IInv, Shape
  <1>2. chain[n].start <= chain[Len(chain)].end
    BY <1>1 DEF IInv, ChainAscends
  <1>3. chain[n].start \in Nat /\ chain[Len(chain)].end \in Nat
    <2>1. chain[n] \in Envelope /\ chain[Len(chain)] \in Envelope
      BY <1>1
    <2>. QED
      BY <2>1, EnvelopeNumbers
  <1>. QED
    BY <1>1, <1>2, <1>3 DEF StartAt

\* When the chain grows without a race, it grows by a checkpoint that extends all of it.
LEMMA GrowsWithoutRace ==
  ASSUME IInv, NEW s \in Sealers, SealAppends(s), NotRaced'
  PROVE  NotRaced /\ Verified(Append(chain, sealer[s].envelope), anchored)
  <1>1. chain \in Seq(Envelope) /\ sealer[s].envelope \in Envelope /\ sealer[s].pc = "appending"
    BY DEF IInv, Shape, TypeOK, SealAppends
  <1>2. PICK e \in Envelope : e = sealer[s].envelope
    BY <1>1
  <1>3. chain' = Append(chain, e)
    BY <1>2 DEF SealAppends
  <1>4. /\ \A n \in DOMAIN chain : n \in DOMAIN chain' /\ chain'[n] = chain[n] /\ n # Len(chain) + 1
        /\ Len(chain) + 1 \in DOMAIN chain' /\ chain'[Len(chain) + 1] = e
    BY <1>1, <1>3
  <1>5. NotRaced /\ \A n \in DOMAIN chain : chain[n].start # e.start
    BY <1>4 DEF NotRaced
  <1>6. \A n \in DOMAIN chain : StartAt(chain, n) # e.start
    BY <1>5, KeptStarts
  <1>7. Admitted(e)
    BY <1>1, <1>2 DEF IInv, AdmittedExtends
  <1>. QED
    BY <1>2, <1>5, <1>6, <1>7 DEF Admitted

\* Verification is of the entries of a log that is never shortened.
LEMMA VerifiedStays ==
  ASSUME NEW c, NEW a, NEW b, a \subseteq b, Verified(c, a)
  PROVE  Verified(c, b)
BY DEF Verified

LEMMA VerifiesStep ==
  ASSUME IInv, [Next]_vars
  PROVE  ChainVerifies'
  <1>1. CASE chain' = chain
    BY <1>1, ChainGrows, VerifiedStays DEF IInv, ChainVerifies, NotRaced
  <1>2. ASSUME NEW s \in Sealers, SealAppends(s), NotRaced' PROVE Verified(chain', anchored')
    <2>1. chain' = Append(chain, sealer[s].envelope) /\ anchored' = anchored
      BY <1>2 DEF SealAppends
    <2>. QED
      BY <1>2, <2>1, GrowsWithoutRace
  <1>. QED
    BY <1>1, <1>2, ChainGrows DEF ChainVerifies

LEMMA AscendsStep ==
  ASSUME IInv, [Next]_vars
  PROVE  ChainAscends'
  <1>1. CASE chain' = chain
    BY <1>1 DEF IInv, ChainAscends, NotRaced
  <1>2. ASSUME NEW s \in Sealers, SealAppends(s), NotRaced',
               NEW i \in DOMAIN chain', NEW j \in DOMAIN chain', i <= j
        PROVE  chain'[i].start <= chain'[j].end
    <2>1. /\ chain \in Seq(Envelope) /\ sealer[s].envelope \in Envelope
          /\ sealer[s].envelope.start <= sealer[s].envelope.end /\ Tiles(sealer[s].envelope)
      BY <1>2 DEF IInv, Shape, TypeOK, SealAppends, SealedTiles
    <2>2. PICK e \in Envelope : e = sealer[s].envelope
      BY <2>1
    <2>3. chain' = Append(chain, e) /\ e.start <= e.end /\ Len(chain) \in Nat
      BY <1>2, <2>1, <2>2 DEF SealAppends
    <2>4. NotRaced /\ e.start = StartAt(chain, Len(chain) + 1)
      BY <1>2, <2>1, <2>2, GrowsWithoutRace, LastStartsAtEnd DEF Tiles
    <2>5. /\ i \in DOMAIN chain \/ i = Len(chain) + 1
          /\ j \in DOMAIN chain \/ j = Len(chain) + 1
          /\ chain'[Len(chain) + 1] = e /\ \A n \in DOMAIN chain : chain'[n] = chain[n] /\ n <= Len(chain) /\ n \in Nat
      BY <2>1, <2>3
    <2>6. \A n \in DOMAIN chain : chain[n].start \in Nat /\ chain[n].end \in Nat
      <3>1. \A n \in DOMAIN chain : chain[n] \in Envelope
        BY <2>1
      <3>. QED
        BY <3>1, EnvelopeNumbers
    <2>7. e.start \in Nat /\ e.end \in Nat
      BY EnvelopeNumbers
    <2>8. CASE j \in DOMAIN chain
      BY <1>2, <2>4, <2>5, <2>8 DEF IInv, ChainAscends
    <2>9. CASE i = Len(chain) + 1 /\ j = Len(chain) + 1
      BY <2>3, <2>5, <2>9
    <2>10. CASE i \in DOMAIN chain /\ j = Len(chain) + 1
      <3>1. Len(chain) \in DOMAIN chain /\ Len(chain) # 0
        BY <2>1, <2>10
      <3>2. chain[i].start <= chain[Len(chain)].end
        BY <2>4, <2>5, <2>10, <3>1 DEF IInv, ChainAscends
      <3>3. e.start = chain[Len(chain)].end + 1
        BY <2>3, <2>4, <3>1 DEF StartAt
      <3>. QED
        BY <2>3, <2>5, <2>6, <2>7, <2>10, <3>1, <3>2, <3>3
    <2>. QED
      BY <2>5, <2>8, <2>9, <2>10
  <1>. QED
    BY <1>1, <1>2, ChainGrows DEF ChainAscends

LEMMA AdmittedStep ==
  ASSUME IInv, [Next]_vars
  PROVE  AdmittedExtends'
  <1>0. sealer \in [Sealers -> {Idle} \cup Sealing] /\ chain \in Seq(Envelope)
    BY DEF IInv, Shape
  <1>1. SUFFICES ASSUME NEW s \in Sealers, sealer'[s].pc = "appending", NEW e, e = sealer'[s].envelope
                 PROVE  Admitted(e)'
    BY DEF AdmittedExtends
  <1>2. CASE SealAdmits(s)
    <2>1. Admits(sealer[s].envelope) /\ e = sealer[s].envelope /\ chain' = chain /\ anchored' = anchored
      BY <1>0, <1>1, <1>2 DEF SealAdmits, Idle, Sealing
    <2>. QED
      BY <2>1, VerifiedIs DEF Admits, Admitted
  <1>3. CASE sealer[s].pc = "appending" /\ e = sealer[s].envelope
    <2>1. Admitted(e)
      BY <1>3 DEF IInv, AdmittedExtends
    <2>2. CASE chain' = chain
      BY <2>1, <2>2, ChainGrows, VerifiedStays DEF Admitted
    <2>3. ASSUME NEW r \in Sealers, SealAppends(r) PROVE Admitted(e)'
      <3>1. PICK f \in Envelope : chain' = Append(chain, f)
        BY <2>3 DEF SealAppends, IInv, Shape, TypeOK
      <3>2. /\ \A n \in DOMAIN chain : n \in DOMAIN chain' /\ StartAt(chain', n) = StartAt(chain, n)
            /\ Len(chain) + 1 \in DOMAIN chain' /\ StartAt(chain', Len(chain) + 1) = StartAt(chain, Len(chain) + 1)
        <4>1. /\ \A n \in DOMAIN chain : n \in Nat \ {0} /\ n \in DOMAIN chain' /\ chain'[n] = chain[n]
              /\ \A n \in DOMAIN chain : n # 1 => n - 1 \in DOMAIN chain
              /\ Len(chain) + 1 \in DOMAIN chain' /\ Len(chain) \in Nat
              /\ Len(chain) + 1 # 1 => Len(chain) \in DOMAIN chain
          BY <1>0, <3>1
        <4>. QED
          BY <4>1 DEF StartAt
      <3>3. CASE Verified(Append(chain, e), anchored)
        <4>1. e \in Envelope /\ Tiles(e)
          BY <1>3 DEF IInv, SealedTiles, Shape, TypeOK
        <4>2. e.start = StartAt(chain, Len(chain) + 1)
          BY <1>0, <3>3, <4>1, LastStartsAtEnd DEF Tiles
        <4>. QED
          BY <3>2, <4>2 DEF Admitted
      <3>4. CASE \E n \in DOMAIN chain : e.start = StartAt(chain, n)
        BY <3>2, <3>4 DEF Admitted
      <3>. QED
        BY <2>1, <3>3, <3>4 DEF Admitted
    <2>. QED
      BY <2>2, <2>3, ChainGrows
  <1>. QED
    BY <1>0, <1>1, <1>2, <1>3 DEF Next, vars, append, register_signer, SealStarts, Anchored, AnchorFails, SealAdmits,
       SealAppends, SealRotates, StealKey, Forge, Idle, Sealing

-----------------------------------------------------------------------------
(* The theorems *)

\* The inductive invariant of sealing.
LEMMA SealingInvariant == Spec => []IInv
  <1>1. Init => IInv
    <2>1. Init => KeptTiles /\ SealedTiles /\ AdmittedExtends
      BY DEF Init, KeptTiles, SealedTiles, AdmittedExtends, Idle
    <2>2. Init => ChainVerifies /\ ChainAscends /\ ForgedByThieves
      BY DEF Init, ChainVerifies, ChainAscends, ForgedByThieves
    <2>. QED
      BY <2>1, <2>2, TypeInit DEF IInv
  <1>2. IInv /\ [Next]_vars => IInv'
    BY TypeStep, KeptStep, SealedStep, AdmittedStep, VerifiesStep, AscendsStep, ForgedStep DEF IInv
  <1>. QED
    BY <1>1, <1>2, PTL DEF Spec

\* The chain that seal keeps verifies against the anchor's log and is rebuilt from the ledger,
\* whatever keys are registered or lost and wherever other calls of seal are, unless two
\* checkpoints were kept onto one head.
THEOREM KeptChain == Spec => []KeptChainVerifies
  <1>1. IInv => KeptChainVerifies
    BY VerifiedIs DEF IInv, ChainVerifies, KeptTiles, Tiles, KeptChainVerifies
  <1>. QED
    BY <1>1, SealingInvariant, PTL

\* One position of a chain that verifies: it is signed by a stolen key that is active there,
\* or it is what the operator keeps at this position.
LEMMA ForkAt ==
  ASSUME IInv, NotRaced, NEW N \in Nat, NEW c \in [1 .. N -> known], verify_checkpoint_chain(c),
         NEW n \in 1 .. N, \A i \in 1 .. n - 1 : i <= Len(chain) /\ c[i] = chain[i]
  PROVE  (n <= Len(chain) /\ c[n] = chain[n]) \/ ActiveAt(c, n).key \in stolen
  <1>1. c[n] \in known /\ SignedByActive(c, n) /\ Follows(c, n)
    BY DEF verify_checkpoint_chain
  <1>2. CASE c[n].signer.key \in stolen
    BY <1>1, <1>2 DEF SignedByActive
  <1>3. CASE c[n] \in Range(chain)
    <2>1. chain \in Seq(Envelope)
      BY DEF IInv, Shape
    <2>2. PICK j \in DOMAIN chain : c[n] = chain[j]
      BY <1>3 DEF Range
    <2>3. c[n].start = StartAt(chain, n)
      <3>1. CASE n = 1
        <4>1. c[n].previous = None => c[n].start = 0
          BY <2>2 DEF IInv, KeptTiles, Tiles
        <4>. QED
          BY <1>1, <3>1, <4>1 DEF Follows, StartAt
      <3>2. CASE n # 1
        <4>1. c[n - 1] = chain[n - 1]
          BY <3>2
        <4>. QED
          BY <1>1, <3>2, <4>1 DEF Follows, StartAt
      <3>. QED
        BY <3>1, <3>2
    <2>4. n <= Len(chain) + 1
      BY <2>1
    <2>5. CASE n \in DOMAIN chain
      <3>1. chain[n].start = chain[j].start
        BY <2>2, <2>3, <2>5, KeptStarts
      <3>. QED
        BY <2>1, <2>2, <2>5, <3>1 DEF NotRaced
    <2>6. CASE n = Len(chain) + 1
      BY <2>2, <2>3, <2>6, HeadIsNew
    <2>. QED
      BY <2>1, <2>4, <2>5, <2>6
  <1>. QED
    BY <1>1, <1>2, <1>3 DEF IInv, ForgedByThieves

\* Of any chain that verifies, of checkpoints anyone has seen, what first departs from the
\* operator's is signed by a stolen key that the chain itself makes active there: keys that
\* are retired, or not yet active, rewrite nothing, however many are stolen.
THEOREM ForksAreSigned == Spec => []ForksNeedTheActiveKey
  <1>1. IInv => ForksNeedTheActiveKey
    <2>. SUFFICES ASSUME IInv, NotRaced, NEW N \in 1 .. MaxPresented, NEW c \in [1 .. N -> known],
                         verify_checkpoint_chain(c), NEW n \in DOMAIN c,
                         \A i \in 1 .. n - 1 : i <= Len(chain) /\ c[i] = chain[i]
                  PROVE  (n <= Len(chain) /\ c[n] = chain[n]) \/ ActiveAt(c, n).key \in stolen
      BY DEF ForksNeedTheActiveKey
    <2>. QED
      BY ForkAt
  <1>. QED
    BY <1>1, SealingInvariant, PTL

-----------------------------------------------------------------------------
(* Merkle trees *)

\* Induction over the height, for the set of the heights at which a claim holds.
LEMMA InductionOnHeight ==
  ASSUME NEW T, 0 \in T, \A m \in Nat : m \in T => m + 1 \in T, NEW h \in Nat
  PROVE  h \in T
  <1>. DEFINE Less == OpToRel(<, Nat)
              Fails == Nat \ T
  <1>. SUFFICES ASSUME h \notin T PROVE FALSE
    OBVIOUS
  <1>1. IsWellFoundedOn(Less, Nat)
    BY NatLessThanWellFounded
  <1>2. \A x, y \in Nat : <<y, x>> \in Less <=> y < x
    BY DEF OpToRel
  <1>. HIDE DEF Less
  <1>3. PICK x \in Fails : \A y \in Fails : ~(<<y, x>> \in Less)
    <2>1. Fails \subseteq Nat /\ Fails # {}
      OBVIOUS
    <2>. HIDE DEF Fails
    <2>. QED
      BY <1>1, <2>1, WFMin
  <1>4. x \in Nat /\ x # 0 /\ x \notin T
    OBVIOUS
  <1>5. x - 1 \in Nat /\ x - 1 < x
    BY <1>4
  <1>6. x - 1 \in T
    BY <1>2, <1>3, <1>4, <1>5
  <1>7. (x - 1) + 1 \in T
    BY <1>5, <1>6
  <1>. QED
    BY <1>4, <1>7

IsLevels(f, leaves, h) == f = [k \in 0 .. h |-> IF k = 0 THEN leaves ELSE Above(f[k - 1])]
IsPlaces(f, i, h) == f = [k \in 0 .. h |-> IF k = 0 THEN i ELSE (f[k - 1] + 1) \div 2]
IsClimb(f, leaf, path, h) == f = [k \in 0 .. h |-> IF k = 0 THEN leaf ELSE Climb(f[k - 1], path[k])]

LEMMA LevelsExist ==
  ASSUME NEW leaves, NEW h \in Nat
  PROVE  \E f : IsLevels(f, leaves, h)
  <1>. DEFINE T == {m \in Nat : \E f : IsLevels(f, leaves, m)}
  <1>1. 0 \in T
    <2>1. IsLevels([k \in 0 .. 0 |-> leaves], leaves, 0)
      BY DEF IsLevels
    <2>. QED
      BY <2>1
  <1>2. ASSUME NEW m \in Nat, m \in T PROVE m + 1 \in T
    <2>1. PICK f : IsLevels(f, leaves, m)
      BY <1>2
    <2>. DEFINE g == [k \in 0 .. m + 1 |-> IF k <= m THEN f[k] ELSE Above(f[m])]
    <2>2. \A k \in 0 .. m : f[k] = IF k = 0 THEN leaves ELSE Above(f[k - 1])
      BY <2>1 DEF IsLevels
    <2>3. \A k \in 0 .. m + 1 : g[k] = IF k = 0 THEN leaves ELSE Above(g[k - 1])
      BY <2>2
    <2>4. g = [k \in 0 .. m + 1 |-> g[k]]
      OBVIOUS
    <2>. HIDE DEF g
    <2>5. IsLevels(g, leaves, m + 1)
      BY <2>3, <2>4 DEF IsLevels
    <2>. QED
      BY <2>5
  <1>. HIDE DEF T
  <1>3. h \in T
    BY <1>1, <1>2, InductionOnHeight
  <1>. QED
    BY <1>3 DEF T

LEMMA LevelsAgree ==
  ASSUME NEW leaves, NEW h \in Nat, NEW j \in Nat, h <= j, NEW f, NEW g,
         IsLevels(f, leaves, h), IsLevels(g, leaves, j), NEW k \in 0 .. h
  PROVE  f[k] = g[k]
  <1>. DEFINE T == {m \in Nat : m <= h => f[m] = g[m]}
  <1>1. \A m \in 0 .. h : /\ f[m] = IF m = 0 THEN leaves ELSE Above(f[m - 1])
                          /\ g[m] = IF m = 0 THEN leaves ELSE Above(g[m - 1])
    BY DEF IsLevels
  <1>2. 0 \in T
    BY <1>1
  <1>3. ASSUME NEW m \in Nat, m \in T PROVE m + 1 \in T
    <2>. SUFFICES ASSUME m + 1 <= h PROVE f[m + 1] = g[m + 1]
      OBVIOUS
    <2>1. f[m] = g[m] /\ m + 1 \in 0 .. h /\ m + 1 # 0 /\ (m + 1) - 1 = m
      BY <1>3
    <2>. QED
      BY <1>1, <2>1
  <1>. HIDE DEF T
  <1>4. k \in T
    BY <1>2, <1>3, InductionOnHeight
  <1>. QED
    BY <1>4 DEF T

\* The equation that defines the levels.
LEMMA LevelAtDef ==
  ASSUME NEW leaves
  PROVE  /\ LevelAt(leaves, 0) = leaves
         /\ \A h \in Nat : LevelAt(leaves, h + 1) = Above(LevelAt(leaves, h))
  <1>. DEFINE F(n) == CHOOSE f : IsLevels(f, leaves, n)
  <1>1. \A n \in Nat : IsLevels(F(n), leaves, n)
    BY LevelsExist
  <1>2. \A n \in Nat : LevelAt(leaves, n) = F(n)[n]
    BY Zenon DEF LevelAt, IsLevels
  <1>. HIDE DEF F
  <1>3. F(0)[0] = leaves
    BY <1>1 DEF IsLevels
  <1>4. ASSUME NEW h \in Nat PROVE F(h + 1)[h + 1] = Above(F(h)[h])
    <2>1. F(h + 1)[h + 1] = Above(F(h + 1)[h])
      BY <1>1 DEF IsLevels
    <2>2. F(h)[h] = F(h + 1)[h]
      BY <1>1, LevelsAgree
    <2>. QED
      BY <2>1, <2>2
  <1>. QED
    BY <1>2, <1>3, <1>4

LEMMA PlacesExist ==
  ASSUME NEW i, NEW h \in Nat
  PROVE  \E f : IsPlaces(f, i, h)
  <1>. DEFINE T == {m \in Nat : \E f : IsPlaces(f, i, m)}
  <1>1. 0 \in T
    <2>1. IsPlaces([k \in 0 .. 0 |-> i], i, 0)
      BY DEF IsPlaces
    <2>. QED
      BY <2>1
  <1>2. ASSUME NEW m \in Nat, m \in T PROVE m + 1 \in T
    <2>1. PICK f : IsPlaces(f, i, m)
      BY <1>2
    <2>. DEFINE g == [k \in 0 .. m + 1 |-> IF k <= m THEN f[k] ELSE (f[m] + 1) \div 2]
    <2>2. \A k \in 0 .. m : f[k] = IF k = 0 THEN i ELSE (f[k - 1] + 1) \div 2
      BY <2>1 DEF IsPlaces
    <2>3. \A k \in 0 .. m + 1 : g[k] = IF k = 0 THEN i ELSE (g[k - 1] + 1) \div 2
      BY <2>2
    <2>4. g = [k \in 0 .. m + 1 |-> g[k]]
      OBVIOUS
    <2>. HIDE DEF g
    <2>5. IsPlaces(g, i, m + 1)
      BY <2>3, <2>4 DEF IsPlaces
    <2>. QED
      BY <2>5
  <1>. HIDE DEF T
  <1>3. h \in T
    BY <1>1, <1>2, InductionOnHeight
  <1>. QED
    BY <1>3 DEF T

LEMMA PlacesAgree ==
  ASSUME NEW i, NEW h \in Nat, NEW j \in Nat, h <= j, NEW f, NEW g,
         IsPlaces(f, i, h), IsPlaces(g, i, j), NEW k \in 0 .. h
  PROVE  f[k] = g[k]
  <1>. DEFINE T == {m \in Nat : m <= h => f[m] = g[m]}
  <1>1. \A m \in 0 .. h : /\ f[m] = IF m = 0 THEN i ELSE (f[m - 1] + 1) \div 2
                          /\ g[m] = IF m = 0 THEN i ELSE (g[m - 1] + 1) \div 2
    BY DEF IsPlaces
  <1>2. 0 \in T
    BY <1>1
  <1>3. ASSUME NEW m \in Nat, m \in T PROVE m + 1 \in T
    <2>. SUFFICES ASSUME m + 1 <= h PROVE f[m + 1] = g[m + 1]
      OBVIOUS
    <2>1. f[m] = g[m] /\ m + 1 \in 0 .. h /\ m + 1 # 0 /\ (m + 1) - 1 = m
      BY <1>3
    <2>. QED
      BY <1>1, <2>1
  <1>. HIDE DEF T
  <1>4. k \in T
    BY <1>2, <1>3, InductionOnHeight
  <1>. QED
    BY <1>4 DEF T

\* The equation that defines the places.
LEMMA PlaceAtDef ==
  ASSUME NEW i
  PROVE  /\ PlaceAt(i, 0) = i
         /\ \A h \in Nat : PlaceAt(i, h + 1) = (PlaceAt(i, h) + 1) \div 2
  <1>. DEFINE F(n) == CHOOSE f : IsPlaces(f, i, n)
  <1>1. \A n \in Nat : IsPlaces(F(n), i, n)
    BY PlacesExist
  <1>2. \A n \in Nat : PlaceAt(i, n) = F(n)[n]
    BY Zenon DEF PlaceAt, IsPlaces
  <1>. HIDE DEF F
  <1>3. F(0)[0] = i
    BY <1>1 DEF IsPlaces
  <1>4. ASSUME NEW h \in Nat PROVE F(h + 1)[h + 1] = (F(h)[h] + 1) \div 2
    <2>1. F(h + 1)[h + 1] = (F(h + 1)[h] + 1) \div 2
      BY <1>1 DEF IsPlaces
    <2>2. F(h)[h] = F(h + 1)[h]
      BY <1>1, PlacesAgree
    <2>. QED
      BY <2>1, <2>2
  <1>. QED
    BY <1>2, <1>3, <1>4

LEMMA ClimbExists ==
  ASSUME NEW leaf, NEW path, NEW h \in Nat
  PROVE  \E f : IsClimb(f, leaf, path, h)
  <1>. DEFINE T == {m \in Nat : \E f : IsClimb(f, leaf, path, m)}
  <1>1. 0 \in T
    <2>1. IsClimb([k \in 0 .. 0 |-> leaf], leaf, path, 0)
      BY DEF IsClimb
    <2>. QED
      BY <2>1
  <1>2. ASSUME NEW m \in Nat, m \in T PROVE m + 1 \in T
    <2>1. PICK f : IsClimb(f, leaf, path, m)
      BY <1>2
    <2>. DEFINE g == [k \in 0 .. m + 1 |-> IF k <= m THEN f[k] ELSE Climb(f[m], path[m + 1])]
    <2>2. \A k \in 0 .. m : f[k] = IF k = 0 THEN leaf ELSE Climb(f[k - 1], path[k])
      BY <2>1 DEF IsClimb
    <2>3. \A k \in 0 .. m + 1 : g[k] = IF k = 0 THEN leaf ELSE Climb(g[k - 1], path[k])
      BY <2>2
    <2>4. g = [k \in 0 .. m + 1 |-> g[k]]
      OBVIOUS
    <2>. HIDE DEF g
    <2>5. IsClimb(g, leaf, path, m + 1)
      BY <2>3, <2>4 DEF IsClimb
    <2>. QED
      BY <2>5
  <1>. HIDE DEF T
  <1>3. h \in T
    BY <1>1, <1>2, InductionOnHeight
  <1>. QED
    BY <1>3 DEF T

\* verify_inclusion's loop passes through one node per height.
LEMMA ClimbedDef ==
  ASSUME NEW leaf, NEW path, Len(path) \in Nat
  PROVE  \E f : /\ f[0] = leaf /\ f[Len(path)] = Climbed(leaf, path)
               /\ \A k \in 0 .. Len(path) - 1 : f[k + 1] = Climb(f[k], path[k + 1])
  <1>. DEFINE f == CHOOSE g : IsClimb(g, leaf, path, Len(path))
  <1>1. IsClimb(f, leaf, path, Len(path))
    BY ClimbExists
  <1>2. Climbed(leaf, path) = f[Len(path)]
    BY Zenon DEF Climbed, IsClimb
  <1>. HIDE DEF f
  <1>3. f[0] = leaf /\ \A k \in 0 .. Len(path) - 1 : f[k + 1] = Climb(f[k], path[k + 1])
    <2>1. \A k \in 0 .. Len(path) : f[k] = IF k = 0 THEN leaf ELSE Climb(f[k - 1], path[k])
      BY <1>1 DEF IsClimb
    <2>2. \A k \in 0 .. Len(path) - 1 : k + 1 \in 0 .. Len(path) /\ k + 1 # 0 /\ (k + 1) - 1 = k
      OBVIOUS
    <2>. QED
      BY <2>1, <2>2
  <1>. QED
    BY <1>2, <1>3

\* A level: a nonempty sequence of nodes.
Level(s) == s # <<>> /\ s \in Seq(Range(s))

LEMMA LevelOf ==
  ASSUME NEW n \in Nat \ {0}, NEW S, NEW s \in [1 .. n -> S]
  PROVE  Level(s) /\ Len(s) = n
  <1>1. s \in [1 .. n -> Range(s)] /\ Len(s) = n
    BY DEF Range
  <1>. QED
    BY <1>1 DEF Level

\* Duplicating the last node makes a level even and adds no node.
LEMMA EvenLevel ==
  ASSUME NEW s, Level(s)
  PROVE  /\ Len(s) \in Nat \ {0} /\ Len(Even(s)) = 2 * ((Len(s) + 1) \div 2)
         /\ \A i \in 1 .. Len(Even(s)) : Even(s)[i] \in Range(s)
         /\ \A i \in 1 .. Len(s) : i <= Len(Even(s)) /\ Even(s)[i] = s[i]
  <1>1. s \in Seq(Range(s)) /\ Len(s) \in Nat \ {0} /\ \A i \in 1 .. Len(s) : s[i] \in Range(s)
    BY DEF Level, Range
  <1>2. CASE Len(s) % 2 = 1
    <2>1. Last(s) = s[Len(s)] /\ Even(s) = Append(s, Last(s))
      BY <1>2 DEF Last, Even
    <2>2. /\ Len(Append(s, s[Len(s)])) = Len(s) + 1
          /\ \A i \in 1 .. Len(s) : Append(s, s[Len(s)])[i] = s[i]
          /\ Append(s, s[Len(s)])[Len(s) + 1] = s[Len(s)]
      BY <1>1
    <2>3. Len(s) + 1 = 2 * ((Len(s) + 1) \div 2)
      BY <1>1, <1>2
    <2>4. \A i \in 1 .. Len(s) + 1 : i \in 1 .. Len(s) \/ i = Len(s) + 1
      BY <1>1
    <2>. QED
      BY <1>1, <2>1, <2>2, <2>3, <2>4
  <1>3. CASE Len(s) % 2 # 1
    <2>1. Len(s) = 2 * ((Len(s) + 1) \div 2)
      BY <1>1, <1>3
    <2>2. Even(s) = s
      BY <1>3 DEF Even
    <2>. QED
      BY <1>1, <2>1, <2>2
  <1>. QED
    BY <1>2, <1>3

\* The level above has half the nodes, each over two of the level.
LEMMA LevelAbove ==
  ASSUME NEW s, Level(s)
  PROVE  /\ Level(Above(s)) /\ Len(Above(s)) = (Len(s) + 1) \div 2
         /\ \A j \in 1 .. (Len(s) + 1) \div 2 : Above(s)[j] = _parent_hash(Even(s)[2 * j - 1], Even(s)[2 * j])
  <1>1. Len(s) \in Nat \ {0} /\ Len(Even(s)) = 2 * ((Len(s) + 1) \div 2)
    BY EvenLevel
  <1>2. PICK n \in Nat \ {0} : n = (Len(s) + 1) \div 2 /\ Len(Even(s)) \div 2 = n
    BY <1>1
  <1>3. Above(s) = [j \in 1 .. n |-> _parent_hash(Even(s)[2 * j - 1], Even(s)[2 * j])]
    BY <1>2 DEF Above
  <1>4. Above(s) \in [1 .. n -> Range(Above(s))]
    BY <1>3 DEF Range
  <1>. QED
    BY <1>2, <1>3, <1>4, LevelOf

LEMMA EveryLevel ==
  ASSUME NEW leaves, Level(leaves), NEW h \in Nat
  PROVE  Level(LevelAt(leaves, h))
  <1>. DEFINE T == {m \in Nat : Level(LevelAt(leaves, m))}
  <1>1. 0 \in T
    BY LevelAtDef
  <1>2. ASSUME NEW m \in Nat, m \in T PROVE m + 1 \in T
    <2>1. LevelAt(leaves, m + 1) = Above(LevelAt(leaves, m)) /\ Level(LevelAt(leaves, m))
      BY <1>2, LevelAtDef
    <2>. QED
      BY <2>1, LevelAbove
  <1>. HIDE DEF T
  <1>3. h \in T
    BY <1>1, <1>2, InductionOnHeight
  <1>. QED
    BY <1>3 DEF T

LEMMA NextLevel ==
  ASSUME NEW leaves, Level(leaves), NEW h \in Nat
  PROVE  /\ Len(LevelAt(leaves, h)) \in Nat \ {0}
         /\ LevelAt(leaves, h + 1) = Above(LevelAt(leaves, h))
         /\ Len(LevelAt(leaves, h + 1)) = (Len(LevelAt(leaves, h)) + 1) \div 2
  <1>1. Level(LevelAt(leaves, h)) /\ LevelAt(leaves, h + 1) = Above(LevelAt(leaves, h))
    BY EveryLevel, LevelAtDef
  <1>. QED
    BY <1>1, EvenLevel, LevelAbove

\* How many nodes a level has depends only on the number of leaves ...
LEMMA SameSizes ==
  ASSUME NEW a, NEW b, Level(a), Level(b), Len(a) = Len(b), NEW h \in Nat
  PROVE  Len(LevelAt(a, h)) = Len(LevelAt(b, h))
  <1>. DEFINE T == {m \in Nat : Len(LevelAt(a, m)) = Len(LevelAt(b, m))}
  <1>1. 0 \in T
    BY LevelAtDef
  <1>2. ASSUME NEW m \in Nat, m \in T PROVE m + 1 \in T
    BY <1>2, NextLevel
  <1>. HIDE DEF T
  <1>3. h \in T
    BY <1>1, <1>2, InductionOnHeight
  <1>. QED
    BY <1>3 DEF T

\* ... and so does the height, at which one node is left.
LEMMA Halves == \A x \in Nat \ {0} : (x + 1) \div 2 \in Nat \ {0} /\ (x # 1 => (x + 1) \div 2 < x)
OBVIOUS

LEMMA HeightExists ==
  ASSUME NEW leaves, Level(leaves)
  PROVE  Height(leaves) \in Nat /\ Len(LevelAt(leaves, Height(leaves))) = 1
  <1>. DEFINE Size(h) == Len(LevelAt(leaves, h))
              n == Len(leaves)
              T == {m \in Nat : (\A k \in 0 .. m : Size(k) # 1) => Size(m) + m <= n}
  <1>0. n \in Nat \ {0}
    BY EvenLevel
  <1>1. Size(0) = n /\ \A h \in Nat : Size(h) \in Nat \ {0} /\ Size(h + 1) = (Size(h) + 1) \div 2
    BY LevelAtDef, NextLevel
  <1>2. Height(leaves) = CHOOSE h \in 0 .. n : Size(h) = 1 /\ (h > 0 => Size(h - 1) > 1)
    BY DEF Height
  <1>. HIDE DEF Size, n
  <1>3. \A m \in Nat : m \in T
    <2>1. 0 \in T
      BY <1>0, <1>1
    <2>2. ASSUME NEW m \in Nat, m \in T PROVE m + 1 \in T
      <3>. SUFFICES ASSUME \A k \in 0 .. m + 1 : Size(k) # 1 PROVE Size(m + 1) + (m + 1) <= n
        OBVIOUS
      <3>1. Size(m) + m <= n /\ Size(m) # 1
        BY <2>2
      <3>2. Size(m + 1) \in Nat /\ Size(m) \in Nat /\ Size(m + 1) < Size(m)
        BY <1>1, <3>1, Halves
      <3>. QED
        BY <1>0, <3>1, <3>2
    <2>. HIDE DEF T
    <2>. QED
      BY <2>1, <2>2, InductionOnHeight
  <1>4. \E k \in 0 .. n : Size(k) = 1
    <2>1. n \in Nat /\ n \in T /\ Size(n) \in Nat \ {0}
      BY <1>0, <1>1, <1>3
    <2>. QED
      BY <2>1
  <1>5. \E k \in 0 .. n : Size(k) = 1 /\ \A j \in 0 .. k - 1 : Size(j) # 1
    <2>. DEFINE U == {m \in Nat : (\E k \in 0 .. m : Size(k) = 1) =>
                                     \E k \in 0 .. m : Size(k) = 1 /\ \A j \in 0 .. k - 1 : Size(j) # 1}
    <2>1. 0 \in U
      OBVIOUS
    <2>2. ASSUME NEW m \in Nat, m \in U PROVE m + 1 \in U
      <3>1. CASE \E k \in 0 .. m : Size(k) = 1
        BY <2>2, <3>1
      <3>2. CASE \A k \in 0 .. m : Size(k) # 1
        BY <3>2
      <3>. QED
        BY <3>1, <3>2
    <2>. HIDE DEF U
    <2>3. n \in U
      BY <1>0, <2>1, <2>2, InductionOnHeight
    <2>. QED
      BY <1>4, <2>3 DEF U
  <1>6. \E h \in 0 .. n : Size(h) = 1 /\ (h > 0 => Size(h - 1) > 1)
    <2>1. PICK k \in 0 .. n : Size(k) = 1 /\ \A j \in 0 .. k - 1 : Size(j) # 1
      BY <1>5
    <2>2. k > 0 => k - 1 \in Nat /\ k - 1 \in 0 .. k - 1
      BY <1>0
    <2>3. k > 0 => Size(k - 1) \in Nat \ {0} /\ Size(k - 1) # 1
      BY <1>1, <2>1, <2>2
    <2>4. k > 0 => Size(k - 1) > 1
      BY <2>3
    <2>. QED
      BY <2>1, <2>4
  <1>7. Height(leaves) \in 0 .. n /\ Size(Height(leaves)) = 1
    BY <1>2, <1>6
  <1>. QED
    BY <1>0, <1>7 DEF Size

LEMMA SameHeight ==
  ASSUME NEW a, NEW b, Level(a), Level(b), Len(a) = Len(b)
  PROVE  Height(a) = Height(b)
  <1>. DEFINE P(s, h) == Len(LevelAt(s, h)) = 1 /\ (h > 0 => Len(LevelAt(s, h - 1)) > 1)
  <1>1. Len(a) \in Nat
    BY EvenLevel
  <1>2. \A h \in 0 .. Len(a) : P(a, h) <=> P(b, h)
    <2>1. \A h \in 0 .. Len(a) : h \in Nat /\ (h > 0 => h - 1 \in Nat)
      BY <1>1
    <2>. QED
      BY <2>1, SameSizes
  <1>3. Height(a) = (CHOOSE h \in 0 .. Len(a) : P(a, h)) /\ Height(b) = (CHOOSE h \in 0 .. Len(a) : P(b, h))
    BY DEF Height
  <1>. HIDE DEF P
  <1>. QED
    BY <1>2, <1>3

\* What climbs to a node of a tree, at that node's height, started from one of its leaves.
LEMMA ClimbsFromALeaf ==
  ASSUME NEW leaves, Level(leaves), NEW N \in Nat, NEW path, NEW f,
         \A k \in 0 .. N - 1 : f[k + 1] = Climb(f[k], path[k + 1]),
         f[N] \in Range(LevelAt(leaves, N))
  PROVE  f[0] \in Range(leaves)
  <1>. DEFINE T == {m \in Nat : m <= N /\ f[m] \in Range(LevelAt(leaves, m)) => f[0] \in Range(leaves)}
  <1>1. 0 \in T
    BY LevelAtDef
  <1>2. ASSUME NEW m \in Nat, m \in T PROVE m + 1 \in T
    <2>. SUFFICES ASSUME m + 1 <= N, f[m + 1] \in Range(LevelAt(leaves, m + 1)) PROVE f[0] \in Range(leaves)
      OBVIOUS
    <2>. DEFINE s == LevelAt(leaves, m)
    <2>1. Level(s) /\ LevelAt(leaves, m + 1) = Above(s)
      BY EveryLevel, NextLevel
    <2>2. f[m + 1] = Climb(f[m], path[m + 1])
      BY <1>2
    <2>. HIDE DEF s
    <2>3. /\ Len(s) \in Nat \ {0} /\ Len(Even(s)) = 2 * ((Len(s) + 1) \div 2)
          /\ \A i \in 1 .. Len(Even(s)) : Even(s)[i] \in Range(s)
      BY <2>1, EvenLevel
    <2>4. PICK j \in 1 .. (Len(s) + 1) \div 2 : f[m + 1] = _parent_hash(Even(s)[2 * j - 1], Even(s)[2 * j])
      <3>1. /\ Above(s) # <<>> /\ Above(s) \in Seq(Range(Above(s))) /\ Len(Above(s)) = (Len(s) + 1) \div 2
            /\ \A j \in 1 .. (Len(s) + 1) \div 2 : Above(s)[j] = _parent_hash(Even(s)[2 * j - 1], Even(s)[2 * j])
        BY <2>1, LevelAbove DEF Level
      <3>2. PICK j \in DOMAIN Above(s) : f[m + 1] = Above(s)[j]
        BY <2>1 DEF Range
      <3>3. j \in 1 .. (Len(s) + 1) \div 2
        BY <3>1
      <3>. QED
        BY <3>1, <3>2, <3>3
    <2>5. 2 * j - 1 \in 1 .. Len(Even(s)) /\ 2 * j \in 1 .. Len(Even(s))
      BY <2>3
    <2>6. f[m] = Even(s)[2 * j - 1] \/ f[m] = Even(s)[2 * j]
      BY <2>2, <2>4 DEF Climb, _parent_hash
    <2>7. f[m] \in Range(s)
      BY <2>3, <2>5, <2>6
    <2>. QED
      BY <1>2, <2>7 DEF s
  <1>. HIDE DEF T
  <1>3. N \in T
    BY <1>1, <1>2, InductionOnHeight
  <1>. QED
    BY <1>3 DEF T

LEMMA HalfPlaces ==
  ASSUME NEW n \in Nat \ {0}, NEW i \in 1 .. n
  PROVE  /\ i \in Nat \ {0} /\ (i + 1) \div 2 \in 1 .. (n + 1) \div 2
         /\ IF i % 2 = 1 THEN 2 * ((i + 1) \div 2) = i + 1 ELSE 2 * ((i + 1) \div 2) = i
  <1>1. i \in Nat \ {0} /\ i <= n
    OBVIOUS
  <1>2. IF i % 2 = 1 THEN 2 * ((i + 1) \div 2) = i + 1 ELSE 2 * ((i + 1) \div 2) = i
    BY <1>1
  <1>3. (i + 1) \div 2 \in Nat /\ (i + 1) \div 2 >= 1 /\ (i + 1) \div 2 <= (n + 1) \div 2 /\ (n + 1) \div 2 \in Nat
    BY <1>1
  <1>. QED
    BY <1>1, <1>2, <1>3

\* One step of a path: the node beside its sibling is under the node at half the place.
LEMMA SiblingsMeet ==
  ASSUME NEW s, Level(s), NEW i \in 1 .. Len(s)
  PROVE  /\ (i + 1) \div 2 \in 1 .. Len(Above(s))
         /\ Climb(s[i], Sibling(s, i)) = Above(s)[(i + 1) \div 2]
  <1>1. /\ Len(s) \in Nat \ {0} /\ Even(s)[i] = s[i] /\ Len(Above(s)) = (Len(s) + 1) \div 2
        /\ \A j \in 1 .. (Len(s) + 1) \div 2 : Above(s)[j] = _parent_hash(Even(s)[2 * j - 1], Even(s)[2 * j])
    BY EvenLevel, LevelAbove
  <1>2. /\ i \in Nat \ {0} /\ (i + 1) \div 2 \in 1 .. (Len(s) + 1) \div 2
        /\ IF i % 2 = 1 THEN 2 * ((i + 1) \div 2) = i + 1 ELSE 2 * ((i + 1) \div 2) = i
    BY <1>1, HalfPlaces
  <1>3. Above(s)[(i + 1) \div 2] = _parent_hash(Even(s)[2 * ((i + 1) \div 2) - 1], Even(s)[2 * ((i + 1) \div 2)])
    BY <1>1, <1>2
  <1>4. CASE i % 2 = 1
    <2>1. 2 * ((i + 1) \div 2) = i + 1 /\ 2 * ((i + 1) \div 2) - 1 = i
      BY <1>2, <1>4
    <2>2. Sibling(s, i) = [sibling |-> Even(s)[i + 1], left |-> FALSE]
      BY <1>4 DEF Sibling
    <2>3. Climb(s[i], Sibling(s, i)) = _parent_hash(s[i], Even(s)[i + 1])
      BY <2>2 DEF Climb
    <2>. QED
      BY <1>1, <1>2, <1>3, <2>1, <2>3
  <1>5. CASE i % 2 # 1
    <2>1. 2 * ((i + 1) \div 2) = i /\ 2 * ((i + 1) \div 2) - 1 = i - 1
      BY <1>2, <1>5
    <2>2. Sibling(s, i) = [sibling |-> Even(s)[i - 1], left |-> TRUE]
      BY <1>5 DEF Sibling
    <2>3. Climb(s[i], Sibling(s, i)) = _parent_hash(Even(s)[i - 1], s[i])
      BY <2>2 DEF Climb
    <2>. QED
      BY <1>1, <1>2, <1>3, <2>1, <2>3
  <1>. QED
    BY <1>4, <1>5

\* The path _prove gives for a leaf climbs from it to the root build_merkle_root computes,
\* for trees of every size, with any number of odd levels.
THEOREM PathsReachTheRoot ==
  ASSUME NEW leaves, Level(leaves), NEW i \in 1 .. Len(leaves)
  PROVE  Climbed(leaves[i], _prove(leaves, i)) = build_merkle_root(leaves)
  <1>. DEFINE path == _prove(leaves, i)
              H == Height(leaves)
  <1>1. H \in Nat /\ Len(LevelAt(leaves, H)) = 1
    BY HeightExists
  <1>2. Len(path) = H /\ \A h \in 0 .. H - 1 : path[h + 1] = Sibling(LevelAt(leaves, h), PlaceAt(i, h))
    <2>. HIDE DEF H
    <2>1. path = [h \in 1 .. H |-> Sibling(LevelAt(leaves, h - 1), PlaceAt(i, h - 1))]
      BY DEF _prove, H
    <2>. HIDE DEF path
    <2>2. \A h \in 0 .. H - 1 : h + 1 \in 1 .. H /\ (h + 1) - 1 = h
      BY <1>1
    <2>. QED
      BY <1>1, <2>1, <2>2
  <1>. HIDE DEF H, path
  <1>3. PICK f : /\ f[0] = leaves[i] /\ f[H] = Climbed(leaves[i], path)
                 /\ \A k \in 0 .. H - 1 : f[k + 1] = Climb(f[k], path[k + 1])
    <2>1. Len(path) = H /\ Len(path) \in Nat
      BY <1>1, <1>2
    <2>2. PICK leaf, steps : leaf = leaves[i] /\ steps = path
      OBVIOUS
    <2>3. \E f : /\ f[0] = leaf /\ f[Len(steps)] = Climbed(leaf, steps)
                 /\ \A k \in 0 .. Len(steps) - 1 : f[k + 1] = Climb(f[k], steps[k + 1])
      BY <2>1, <2>2, ClimbedDef
    <2>. QED
      BY <2>1, <2>2, <2>3
  <1>. DEFINE T == {m \in Nat : m <= H => PlaceAt(i, m) \in 1 .. Len(LevelAt(leaves, m))
                                         /\ f[m] = LevelAt(leaves, m)[PlaceAt(i, m)]}
  <1>4. 0 \in T
    <2>1. PlaceAt(i, 0) = i /\ LevelAt(leaves, 0) = leaves
      BY LevelAtDef, PlaceAtDef
    <2>. QED
      BY <1>3, <2>1
  <1>5. ASSUME NEW m \in Nat, m \in T PROVE m + 1 \in T
    <2>. SUFFICES ASSUME m + 1 <= H
                  PROVE  /\ PlaceAt(i, m + 1) \in 1 .. Len(LevelAt(leaves, m + 1))
                         /\ f[m + 1] = LevelAt(leaves, m + 1)[PlaceAt(i, m + 1)]
      OBVIOUS
    <2>1. m <= H /\ m \in 0 .. H - 1
      BY <1>1
    <2>2. PlaceAt(i, m) \in 1 .. Len(LevelAt(leaves, m)) /\ f[m] = LevelAt(leaves, m)[PlaceAt(i, m)]
      BY <1>5, <2>1
    <2>3. f[m + 1] = Climb(f[m], Sibling(LevelAt(leaves, m), PlaceAt(i, m)))
      BY <1>2, <1>3, <2>1
    <2>4. Level(LevelAt(leaves, m)) /\ LevelAt(leaves, m + 1) = Above(LevelAt(leaves, m))
      BY EveryLevel, NextLevel
    <2>5. PlaceAt(i, m + 1) = (PlaceAt(i, m) + 1) \div 2
      BY PlaceAtDef
    <2>. QED
      BY <2>2, <2>3, <2>4, <2>5, SiblingsMeet
  <1>. HIDE DEF T
  <1>6. H \in T
    BY <1>1, <1>4, <1>5, InductionOnHeight
  <1>7. PlaceAt(i, H) \in 1 .. 1 /\ f[H] = LevelAt(leaves, H)[PlaceAt(i, H)]
    <2>1. H <= H
      BY <1>1
    <2>2. PlaceAt(i, H) \in 1 .. Len(LevelAt(leaves, H)) /\ f[H] = LevelAt(leaves, H)[PlaceAt(i, H)]
      BY <1>6, <2>1, Zenon DEF T
    <2>. QED
      BY <1>1, <2>2
  <1>8. PlaceAt(i, H) = 1
    BY <1>7
  <1>. QED
    BY <1>3, <1>7, <1>8 DEF build_merkle_root, H, path

\* verify_inclusion's loop, along any path at all that is as long as the tree is high,
\* climbs to the root from one of its leaves only.
THEOREM RootsAreExact ==
  ASSUME NEW leaves, Level(leaves), NEW leaf, NEW path, Len(path) = Height(leaves),
         Climbed(leaf, path) = build_merkle_root(leaves)
  PROVE  leaf \in Range(leaves)
  <1>. DEFINE H == Height(leaves)
  <1>1. H \in Nat /\ Level(LevelAt(leaves, H)) /\ Len(LevelAt(leaves, H)) = 1
    BY HeightExists, EveryLevel
  <1>2. PICK f : /\ f[0] = leaf /\ f[H] = Climbed(leaf, path)
                 /\ \A k \in 0 .. H - 1 : f[k + 1] = Climb(f[k], path[k + 1])
    <2>1. Len(path) = H /\ Len(path) \in Nat
      BY <1>1
    <2>. HIDE DEF H
    <2>. QED
      BY <2>1, ClimbedDef
  <1>3. f[H] \in Range(LevelAt(leaves, H))
    <2>1. f[H] = LevelAt(leaves, H)[1]
      BY <1>2 DEF build_merkle_root
    <2>2. 1 \in DOMAIN LevelAt(leaves, H)
      BY <1>1 DEF Level
    <2>. QED
      BY <2>1, <2>2 DEF Range
  <1>. HIDE DEF H
  <1>. QED
    BY <1>1, <1>2, <1>3, ClimbsFromALeaf

\* The leaves of a range are a level.
LEMMA RangeOfLeaves ==
  ASSUME NEW ledger, NEW start \in Nat, NEW end \in Nat, start <= end
  PROVE  Level(Leaves(ledger, start, end)) /\ Len(Leaves(ledger, start, end)) = end - start + 1
  <1>. DEFINE n == end - start + 1
              s == Leaves(ledger, start, end)
  <1>1. n \in Nat \ {0} /\ s = [i \in 1 .. n |-> Leaf(ledger, start + i)]
    BY DEF Leaves
  <1>. HIDE DEF n, s
  <1>2. s \in [1 .. n -> {Leaf(ledger, start + i) : i \in 1 .. n}]
    BY <1>1
  <1>3. Level(s) /\ Len(s) = n
    BY <1>1, <1>2, LevelOf
  <1>. QED
    BY <1>3 DEF n, s

\* Between two calls of seal, every event of the newest checkpoint's range has a path that
\* verifies, and no other event has one, with a path of any tree over any ledger: for trees
\* of any size, odd levels with their duplicated nodes included.
THEOREM InclusionHolds == Spec => []InclusionIsExact
  <1>1. IInv => InclusionIsExact
    <2>. SUFFICES ASSUME IInv, chain # <<>> PROVE InclusionIsExact
      BY DEF InclusionIsExact
    <2>. DEFINE e == Last(chain)
                inside == Leaves(log, e.start, e.end)
    <2>1. /\ e \in Envelope /\ e.start \in Nat /\ e.end \in Nat /\ e.start <= e.end
          /\ e.root = build_merkle_root(inside)
      <3>1. Len(chain) \in DOMAIN chain /\ e = chain[Len(chain)] /\ e \in Envelope
        BY HeadOfChain DEF IInv
      <3>2. Rebuilds(e)
        BY <3>1 DEF IInv, KeptTiles, Tiles
      <3>3. e.start <= e.end
        BY <3>1 DEF IInv, Shape, TypeOK, Range
      <3>. QED
        BY <3>1, <3>2, <3>3, EnvelopeNumbers DEF Rebuilds
    <2>2. Level(inside) /\ Len(inside) = e.end - e.start + 1
      BY <2>1, RangeOfLeaves
    <2>. HIDE DEF inside, e
    <2>3. ASSUME NEW i \in DOMAIN inside PROVE verify_inclusion(e, inside[i], _prove(inside, i), Len(inside))
      <3>1. i \in 1 .. Len(inside)
        BY <2>2 DEF Level
      <3>. QED
        BY <2>1, <2>2, <3>1, PathsReachTheRoot DEF verify_inclusion
    <2>4. ASSUME NEW leaf, leaf \notin Range(inside), NEW ledger, NEW p \in PathsOf(ledger)
          PROVE  ~verify_inclusion(e, leaf, p[1], p[2])
      <3>. SUFFICES ASSUME verify_inclusion(e, leaf, p[1], p[2]) PROVE FALSE
        OBVIOUS
      <3>1. PICK r \in Ranges(ledger) : \E i \in 1 .. r[2] - r[1] + 1 :
                 p = <<_prove(Leaves(ledger, r[1], r[2]), i), r[2] - r[1] + 1>>
        BY DEF PathsOf
      <3>2. r[1] \in Nat /\ r[2] \in Nat /\ r[1] <= r[2]
        BY BoundAssumption DEF Ranges
      <3>. DEFINE other == Leaves(ledger, r[1], r[2])
      <3>3. Level(other) /\ Len(other) = r[2] - r[1] + 1
        BY <3>2, RangeOfLeaves
      <3>. HIDE DEF other
      <3>4. PICK i \in 1 .. r[2] - r[1] + 1 : p[1] = _prove(other, i) /\ p[2] = r[2] - r[1] + 1
        BY <3>1 DEF other
      <3>5. Len(other) = Len(inside)
        BY <2>2, <3>3, <3>4 DEF verify_inclusion
      <3>6. Height(other) = Height(inside) /\ Height(other) \in Nat
        BY <2>2, <3>3, <3>5, SameHeight, HeightExists
      <3>7. Len(p[1]) = Height(inside)
        BY <3>4, <3>6 DEF _prove
      <3>8. Climbed(leaf, p[1]) = build_merkle_root(inside)
        BY <2>1 DEF verify_inclusion
      <3>. QED
        BY <2>2, <2>4, <3>7, <3>8, RootsAreExact
    <2>5. \A p \in RewrittenPaths : \E ledger \in Rewritings : p \in PathsOf(ledger)
      BY DEF RewrittenPaths
    <2>. QED
      BY <2>3, <2>4, <2>5 DEF InclusionIsExact, inside, e
  <1>. QED
    BY <1>1, SealingInvariant, PTL

-----------------------------------------------------------------------------
(* Transparency: the recursions of the tree *)

IsDoubling(f, n, h) ==
  f = [m \in 0 .. h |-> IF m = 0 THEN 1 ELSE IF 2 * f[m - 1] < n THEN 2 * f[m - 1] ELSE f[m - 1]]

LEMMA DoublingExists ==
  ASSUME NEW n \in Nat, NEW h \in Nat
  PROVE  \E f : IsDoubling(f, n, h)
  <1>. DEFINE T == {m \in Nat : \E f : IsDoubling(f, n, m)}
              B(x) == IF 2 * x < n THEN 2 * x ELSE x
  <1>1. 0 \in T
    <2>1. IsDoubling([k \in 0 .. 0 |-> 1], n, 0)
      BY DEF IsDoubling
    <2>. QED
      BY <2>1
  <1>2. ASSUME NEW m \in Nat, m \in T PROVE m + 1 \in T
    <2>1. PICK f : IsDoubling(f, n, m)
      BY <1>2
    <2>. DEFINE g == [k \in 0 .. m + 1 |-> IF k <= m THEN f[k] ELSE B(f[m])]
    <2>2. \A k \in 0 .. m : f[k] = IF k = 0 THEN 1 ELSE B(f[k - 1])
      BY <2>1 DEF IsDoubling
    <2>. HIDE DEF B
    <2>3. \A k \in 0 .. m + 1 : g[k] = IF k = 0 THEN 1 ELSE B(g[k - 1])
      BY <2>2
    <2>4. g = [k \in 0 .. m + 1 |-> g[k]]
      OBVIOUS
    <2>. HIDE DEF g
    <2>. USE DEF B
    <2>5. IsDoubling(g, n, m + 1)
      BY <2>3, <2>4 DEF IsDoubling
    <2>. QED
      BY <2>5
  <1>. HIDE DEF T
  <1>3. h \in T
    BY <1>1, <1>2, InductionOnHeight
  <1>. QED
    BY <1>3 DEF T

\* The split of a list leaves no half of it empty.
LEMMA SplitInside ==
  ASSUME NEW n \in Nat, n > 1
  PROVE  _split(n) \in 1 .. n - 1
  <1>. DEFINE f == CHOOSE g : IsDoubling(g, n, n)
              T == {m \in Nat : m <= n => f[m] \in 1 .. n - 1}
  <1>1. IsDoubling(f, n, n)
    BY DoublingExists
  <1>2. _split(n) = f[n]
    BY Zenon DEF _split, IsDoubling
  <1>. HIDE DEF f
  <1>3. \A m \in 0 .. n : f[m] = IF m = 0 THEN 1 ELSE IF 2 * f[m - 1] < n THEN 2 * f[m - 1] ELSE f[m - 1]
    BY <1>1 DEF IsDoubling
  <1>4. 0 \in T
    BY <1>3
  <1>5. ASSUME NEW m \in Nat, m \in T PROVE m + 1 \in T
    <2>. SUFFICES ASSUME m + 1 <= n PROVE f[m + 1] \in 1 .. n - 1
      OBVIOUS
    <2>1. f[m] \in 1 .. n - 1 /\ m + 1 \in 0 .. n /\ m + 1 # 0 /\ (m + 1) - 1 = m
      BY <1>5
    <2>2. f[m + 1] = IF 2 * f[m] < n THEN 2 * f[m] ELSE f[m]
      BY <1>3, <2>1
    <2>. QED
      BY <2>1, <2>2
  <1>. HIDE DEF T
  <1>6. n \in T
    BY <1>4, <1>5, InductionOnHeight
  <1>. QED
    BY <1>2, <1>6 DEF T

LEMMA InBoundedSeq ==
  ASSUME NEW S, NEW n \in Nat, NEW s
  PROVE  s \in BoundedSeq(S, n) <=> s \in Seq(S) /\ Len(s) <= n
BY DEF BoundedSeq, SeqOf

LEMMA SlicesOf ==
  ASSUME NEW s, s \in Seq(Range(s))
  PROVE  s \in Slices(s) /\ Len(s) \in Nat
BY InBoundedSeq DEF Slices

\* The halves of a list.
LEMMA SliceSizes ==
  ASSUME NEW S, NEW s \in Seq(S), Len(s) > 1
  PROVE  /\ Left(s) \in Seq(S) /\ Len(Left(s)) = _split(Len(s)) /\ Len(Left(s)) \in 1 .. Len(s) - 1
         /\ Right(s) \in Seq(S) /\ Len(Right(s)) = Len(s) - _split(Len(s)) /\ Len(Right(s)) \in 1 .. Len(s) - 1
         /\ \A i \in 1 .. Len(Left(s)) : Left(s)[i] = s[i]
         /\ \A i \in 1 .. Len(Right(s)) : Right(s)[i] = s[_split(Len(s)) + i]
  <1>1. PICK k \in 1 .. Len(s) - 1 : k = _split(Len(s))
    BY SplitInside
  <1>2. /\ SubSeq(s, 1, k) \in Seq(S) /\ Len(SubSeq(s, 1, k)) = k
        /\ \A i \in 1 .. k : SubSeq(s, 1, k)[i] = s[i]
    OBVIOUS
  <1>3. /\ SubSeq(s, k + 1, Len(s)) \in Seq(S) /\ Len(SubSeq(s, k + 1, Len(s))) = Len(s) - k
        /\ \A i \in 1 .. Len(s) - k : SubSeq(s, k + 1, Len(s))[i] = s[k + i]
    OBVIOUS
  <1>. QED
    BY <1>1, <1>2, <1>3 DEF Left, Right

IsTree(f, S, n) == f = [s \in BoundedSeq(S, n) |-> IF Len(s) <= 1 THEN s[1] ELSE _node(f[Left(s)], f[Right(s)])]

LEMMA TreesExist ==
  ASSUME NEW S, NEW n \in Nat
  PROVE  \E f : IsTree(f, S, n)
  <1>. DEFINE T == {m \in Nat : \E f : IsTree(f, S, m)}
              D(m) == BoundedSeq(S, m)
  <1>d. \A m \in Nat : \A s : s \in D(m) <=> s \in Seq(S) /\ Len(s) <= m
    BY InBoundedSeq
  <1>. HIDE DEF D
  <1>l. \A s \in Seq(S) : Len(s) \in Nat
    OBVIOUS
  <1>h. ASSUME NEW m \in Nat, NEW s \in D(m + 1), Len(s) > 1 PROVE Left(s) \in D(m) /\ Right(s) \in D(m)
    <2>1. s \in Seq(S) /\ Len(s) <= m + 1
      BY <1>d
    <2>. QED
      BY <1>d, <1>h, <1>l, <2>1, SliceSizes
  <1>1. 0 \in T
    <2>. DEFINE f == [s \in D(0) |-> s[1]]
    <2>1. \A s \in D(0) : Len(s) <= 1
      BY <1>d, <1>l
    <2>2. f = [s \in D(0) |-> IF Len(s) <= 1 THEN s[1] ELSE _node(f[Left(s)], f[Right(s)])]
      BY <2>1
    <2>3. IsTree(f, S, 0)
      BY <2>2, Zenon DEF IsTree, D
    <2>. QED
      BY <2>3
  <1>2. ASSUME NEW m \in Nat, m \in T PROVE m + 1 \in T
    <2>1. PICK f : IsTree(f, S, m)
      BY <1>2
    <2>. DEFINE g == [s \in D(m + 1) |->
                       IF s \in D(m) THEN f[s] ELSE IF Len(s) <= 1 THEN s[1] ELSE _node(f[Left(s)], f[Right(s)])]
    <2>2. \A s \in D(m) : f[s] = IF Len(s) <= 1 THEN s[1] ELSE _node(f[Left(s)], f[Right(s)])
      BY <2>1 DEF IsTree, D
    <2>3. \A s \in D(m) : s \in D(m + 1)
      BY <1>d, <1>l
    <2>4. \A s \in D(m) : g[s] = f[s]
      BY <2>3
    <2>5. \A s \in D(m + 1) : g[s] = IF Len(s) <= 1 THEN s[1] ELSE _node(f[Left(s)], f[Right(s)])
      BY <2>2, <2>3
    <2>6. \A s \in D(m + 1) : g[s] = IF Len(s) <= 1 THEN s[1] ELSE _node(g[Left(s)], g[Right(s)])
      <3>. SUFFICES ASSUME NEW s \in D(m + 1)
                    PROVE  g[s] = IF Len(s) <= 1 THEN s[1] ELSE _node(g[Left(s)], g[Right(s)])
        OBVIOUS
      <3>1. CASE Len(s) <= 1
        BY <2>5, <3>1
      <3>2. CASE ~(Len(s) <= 1)
        <4>1. s \in Seq(S)
          BY <1>d
        <4>2. Len(s) > 1
          BY <1>l, <3>2, <4>1
        <4>3. g[Left(s)] = f[Left(s)] /\ g[Right(s)] = f[Right(s)]
          BY <1>h, <2>4, <4>2
        <4>. HIDE DEF g
        <4>. QED
          BY <2>5, <3>2, <4>3
      <3>. QED
        BY <3>1, <3>2
    <2>7. g = [s \in D(m + 1) |-> g[s]]
      OBVIOUS
    <2>. HIDE DEF g
    <2>8. g = [s \in D(m + 1) |-> IF Len(s) <= 1 THEN s[1] ELSE _node(g[Left(s)], g[Right(s)])]
      BY <2>6, <2>7
    <2>9. IsTree(g, S, m + 1)
      BY <2>8, Zenon DEF IsTree, D
    <2>. QED
      BY <2>9
  <1>. HIDE DEF T
  <1>3. n \in T
    BY <1>1, <1>2, InductionOnHeight
  <1>. QED
    BY <1>3 DEF T

LEMMA TreesAgree ==
  ASSUME NEW S, NEW n \in Nat, NEW U, NEW j \in Nat, NEW f, NEW g, IsTree(f, S, n), IsTree(g, U, j),
         NEW s, s \in BoundedSeq(S, n), s \in BoundedSeq(U, j)
  PROVE  f[s] = g[s]
  <1>. DEFINE Both == {r \in BoundedSeq(S, n) : r \in BoundedSeq(U, j)}
              T == {m \in Nat : \A r \in Both : Len(r) <= m => f[r] = g[r]}
  <1>1. \A r \in Both : /\ f[r] = IF Len(r) <= 1 THEN r[1] ELSE _node(f[Left(r)], f[Right(r)])
                        /\ g[r] = IF Len(r) <= 1 THEN r[1] ELSE _node(g[Left(r)], g[Right(r)])
    BY DEF IsTree
  <1>2. \A r : r \in Both <=> r \in Seq(S) /\ r \in Seq(U) /\ Len(r) <= n /\ Len(r) <= j
    BY InBoundedSeq
  <1>l. \A r \in Both : Len(r) \in Nat
    BY <1>2
  <1>. HIDE DEF Both
  <1>3. 0 \in T
    BY <1>1, <1>l
  <1>4. ASSUME NEW m \in Nat, m \in T PROVE m + 1 \in T
    <2>. SUFFICES ASSUME NEW r \in Both, Len(r) <= m + 1 PROVE f[r] = g[r]
      OBVIOUS
    <2>1. CASE Len(r) <= 1
      BY <1>1, <2>1
    <2>2. CASE Len(r) > 1
      <3>0. r \in Seq(S) /\ r \in Seq(U) /\ Len(r) <= n /\ Len(r) <= j /\ Len(r) \in Nat
        BY <1>2, <1>l
      <3>1. Left(r) \in Seq(S) /\ Right(r) \in Seq(S) /\ Len(Left(r)) \in 1 .. Len(r) - 1 /\ Len(Right(r)) \in 1 .. Len(r) - 1
        BY <2>2, <3>0, SliceSizes
      <3>2. Left(r) \in Seq(U) /\ Right(r) \in Seq(U)
        BY <2>2, <3>0, SliceSizes
      <3>3. Left(r) \in Both /\ Right(r) \in Both /\ Len(Left(r)) <= m /\ Len(Right(r)) <= m
        BY <1>2, <3>0, <3>1, <3>2
      <3>4. f[Left(r)] = g[Left(r)] /\ f[Right(r)] = g[Right(r)]
        BY <1>4, <3>3
      <3>. QED
        BY <1>1, <2>2, <3>0, <3>4
    <2>. QED
      BY <1>l, <2>1, <2>2
  <1>5. s \in Both
    BY DEF Both
  <1>. HIDE DEF T
  <1>6. Len(s) \in T
    BY <1>3, <1>4, <1>l, <1>5, InductionOnHeight
  <1>. QED
    BY <1>5, <1>6, <1>l DEF T

\* The equation that defines the root of a tree.
LEMMA MthDef ==
  ASSUME NEW level, Level(level)
  PROVE  /\ Len(level) = 1 => _mth(level) = level[1]
         /\ Len(level) > 1 => _mth(level) = _node(_mth(Left(level)), _mth(Right(level)))
  <1>. DEFINE F(r) == CHOOSE f : IsTree(f, Range(r), Len(r))
  <1>1. \A r : Len(r) \in Nat => IsTree(F(r), Range(r), Len(r))
    BY TreesExist
  <1>2. \A r : _mth(r) = F(r)[r]
    BY Zenon DEF _mth, IsTree, Slices
  <1>. HIDE DEF F
  <1>3. level \in Seq(Range(level)) /\ Len(level) \in Nat \ {0} /\ level \in BoundedSeq(Range(level), Len(level))
    BY InBoundedSeq DEF Level
  <1>4. F(level)[level] = IF Len(level) <= 1 THEN level[1] ELSE _node(F(level)[Left(level)], F(level)[Right(level)])
    BY <1>1, <1>3 DEF IsTree
  <1>5. ASSUME Len(level) > 1, NEW half \in {Left(level), Right(level)} PROVE F(level)[half] = F(half)[half]
    <2>1. half \in Seq(Range(level)) /\ Len(half) \in 1 .. Len(level) - 1
      BY <1>3, <1>5, SliceSizes
    <2>2. half \in Seq(Range(half))
      BY <2>1 DEF Range
    <2>3. half \in BoundedSeq(Range(level), Len(level)) /\ half \in BoundedSeq(Range(half), Len(half))
      BY <1>3, <2>1, <2>2, InBoundedSeq
    <2>4. IsTree(F(level), Range(level), Len(level)) /\ IsTree(F(half), Range(half), Len(half))
      BY <1>1, <1>3, <2>1
    <2>. QED
      BY <1>3, <2>1, <2>3, <2>4, TreesAgree
  <1>6. Len(level) > 1 => /\ F(level)[Left(level)] = F(Left(level))[Left(level)]
                          /\ F(level)[Right(level)] = F(Right(level))[Right(level)]
    BY <1>5
  <1>7. Len(level) > 1 => F(level)[level] = _node(F(Left(level))[Left(level)], F(Right(level))[Right(level)])
    BY <1>3, <1>4, <1>6
  <1>8. Len(level) = 1 => F(level)[level] = level[1]
    BY <1>4
  <1>9. /\ _mth(level) = F(level)[level] /\ _mth(Left(level)) = F(Left(level))[Left(level)]
        /\ _mth(Right(level)) = F(Right(level))[Right(level)]
    BY <1>2
  <1>. QED
    BY <1>7, <1>8, <1>9

AuditStep(f, s, i) ==
  LET k == _split(Len(s)) IN
  IF Len(s) <= 1 THEN <<>>
  ELSE IF i < k THEN Append(f[Left(s)][i], _mth(Right(s)))
  ELSE FromTheLeft(_mth(Left(s)), f[Right(s)][i - k])

ArePaths(f, S, n, index) == f = [s \in BoundedSeq(S, n) |-> [i \in 0 .. index |-> AuditStep(f, s, i)]]

LEMMA PathsExist ==
  ASSUME NEW S, NEW n \in Nat, NEW index
  PROVE  \E f : ArePaths(f, S, n, index)
  <1>. DEFINE T == {m \in Nat : \E f : ArePaths(f, S, m, index)}
              D(m) == BoundedSeq(S, m)
  <1>d. \A m \in Nat : \A s : s \in D(m) <=> s \in Seq(S) /\ Len(s) <= m
    BY InBoundedSeq
  <1>. HIDE DEF D
  <1>l. \A s \in Seq(S) : Len(s) \in Nat
    OBVIOUS
  <1>h. ASSUME NEW m \in Nat, NEW s \in D(m + 1), Len(s) > 1 PROVE Left(s) \in D(m) /\ Right(s) \in D(m)
    <2>1. s \in Seq(S) /\ Len(s) <= m + 1
      BY <1>d
    <2>. QED
      BY <1>d, <1>h, <1>l, <2>1, SliceSizes
  <1>1. 0 \in T
    <2>. DEFINE f == [s \in D(0) |-> [i \in 0 .. index |-> <<>>]]
    <2>1. \A s \in D(0) : Len(s) <= 1
      BY <1>d, <1>l
    <2>2. \A s \in D(0) : \A i : AuditStep(f, s, i) = <<>>
      BY <2>1 DEF AuditStep
    <2>3. f = [s \in D(0) |-> [i \in 0 .. index |-> AuditStep(f, s, i)]]
      BY <2>2
    <2>4. ArePaths(f, S, 0, index)
      BY <2>3, Zenon DEF ArePaths, D
    <2>. QED
      BY <2>4
  <1>2. ASSUME NEW m \in Nat, m \in T PROVE m + 1 \in T
    <2>1. PICK f : ArePaths(f, S, m, index)
      BY <1>2
    <2>. DEFINE g == [s \in D(m + 1) |-> IF s \in D(m) THEN f[s] ELSE [i \in 0 .. index |-> AuditStep(f, s, i)]]
    <2>2. \A s \in D(m) : f[s] = [i \in 0 .. index |-> AuditStep(f, s, i)]
      BY <2>1 DEF ArePaths, D
    <2>3. \A s \in D(m) : s \in D(m + 1)
      BY <1>d, <1>l
    <2>4. \A s \in D(m) : g[s] = f[s]
      BY <2>3
    <2>5. \A s \in D(m + 1) : g[s] = [i \in 0 .. index |-> AuditStep(f, s, i)]
      BY <2>2, <2>3
    <2>6. g = [s \in D(m + 1) |-> g[s]]
      OBVIOUS
    <2>. HIDE DEF g
    <2>7. ASSUME NEW s \in D(m + 1), NEW i PROVE AuditStep(g, s, i) = AuditStep(f, s, i)
      <3>1. CASE Len(s) <= 1
        BY <3>1 DEF AuditStep
      <3>2. CASE ~(Len(s) <= 1)
        <4>1. Len(s) > 1
          BY <1>d, <1>l, <3>2
        <4>2. g[Left(s)] = f[Left(s)] /\ g[Right(s)] = f[Right(s)]
          BY <1>h, <2>4, <4>1
        <4>. QED
          BY <4>2, Zenon DEF AuditStep
      <3>. QED
        BY <3>1, <3>2
    <2>8. \A s \in D(m + 1) : g[s] = [i \in 0 .. index |-> AuditStep(g, s, i)]
      <3>. TAKE s \in D(m + 1)
      <3>1. \A i : AuditStep(g, s, i) = AuditStep(f, s, i)
        BY <2>7
      <3>. QED
        BY <2>5, <3>1
    <2>9. g = [s \in D(m + 1) |-> [i \in 0 .. index |-> AuditStep(g, s, i)]]
      BY <2>6, <2>8
    <2>10. ArePaths(g, S, m + 1, index)
      BY <2>9, Zenon DEF ArePaths, D
    <2>. QED
      BY <2>10
  <1>. HIDE DEF T
  <1>3. n \in T
    BY <1>1, <1>2, InductionOnHeight
  <1>. QED
    BY <1>3 DEF T

LEMMA PathsAgree ==
  ASSUME NEW S, NEW n \in Nat, NEW U, NEW j \in Nat, NEW a \in Nat, NEW b \in Nat,
         NEW f, NEW g, ArePaths(f, S, n, a), ArePaths(g, U, j, b),
         NEW s, s \in BoundedSeq(S, n), s \in BoundedSeq(U, j), NEW x \in Nat, x <= a, x <= b
  PROVE  f[s][x] = g[s][x]
  <1>. DEFINE Both == {r \in BoundedSeq(S, n) : r \in BoundedSeq(U, j)}
              Common == {i \in Nat : i <= a /\ i <= b}
              T == {m \in Nat : \A r \in Both : Len(r) <= m => \A i \in Common : f[r][i] = g[r][i]}
  <1>0. \A i \in Common : i \in 0 .. a /\ i \in 0 .. b /\ i \in Nat
    OBVIOUS
  <1>f. \A r \in BoundedSeq(S, n) : f[r] = [i \in 0 .. a |-> AuditStep(f, r, i)]
    BY DEF ArePaths
  <1>g. \A r \in BoundedSeq(U, j) : g[r] = [i \in 0 .. b |-> AuditStep(g, r, i)]
    BY DEF ArePaths
  <1>1. \A r \in Both, i \in Common : f[r][i] = AuditStep(f, r, i) /\ g[r][i] = AuditStep(g, r, i)
    <2>. TAKE r \in Both, i \in Common
    <2>1. r \in BoundedSeq(S, n) /\ r \in BoundedSeq(U, j)
      OBVIOUS
    <2>2. i \in 0 .. a /\ i \in 0 .. b
      BY <1>0
    <2>3. f[r] = [y \in 0 .. a |-> AuditStep(f, r, y)]
      BY <1>f, <2>1
    <2>4. g[r] = [y \in 0 .. b |-> AuditStep(g, r, y)]
      BY <1>g, <2>1
    <2>. QED
      BY <2>2, <2>3, <2>4
  <1>2. \A r : r \in Both <=> r \in Seq(S) /\ r \in Seq(U) /\ Len(r) <= n /\ Len(r) <= j
    BY InBoundedSeq
  <1>l. \A r \in Both : Len(r) \in Nat
    BY <1>2
  <1>. HIDE DEF Both
  <1>b. \A r \in Both, i \in Common : Len(r) <= 1 => f[r][i] = g[r][i]
    BY <1>1 DEF AuditStep
  <1>3. 0 \in T
    BY <1>b, <1>l
  <1>4. ASSUME NEW m \in Nat, m \in T PROVE m + 1 \in T
    <2>. SUFFICES ASSUME NEW r \in Both, Len(r) <= m + 1, NEW i \in Common PROVE f[r][i] = g[r][i]
      OBVIOUS
    <2>1. CASE Len(r) <= 1
      BY <1>b, <2>1
    <2>2. CASE Len(r) > 1
      <3>0. r \in Seq(S) /\ r \in Seq(U) /\ Len(r) <= n /\ Len(r) <= j /\ Len(r) \in Nat
        BY <1>2, <1>l
      <3>1. /\ Left(r) \in Seq(S) /\ Right(r) \in Seq(S)
            /\ Len(Left(r)) \in 1 .. Len(r) - 1 /\ Len(Right(r)) \in 1 .. Len(r) - 1
            /\ Len(Left(r)) = _split(Len(r))
        BY <2>2, <3>0, SliceSizes
      <3>2. Left(r) \in Seq(U) /\ Right(r) \in Seq(U)
        BY <2>2, <3>0, SliceSizes
      <3>3. Left(r) \in Both /\ Right(r) \in Both /\ Len(Left(r)) <= m /\ Len(Right(r)) <= m
        BY <1>2, <3>0, <3>1, <3>2
      <3>4. \A y \in Common : f[Left(r)][y] = g[Left(r)][y] /\ f[Right(r)][y] = g[Right(r)][y]
        BY <1>4, <3>3
      <3>5. PICK k \in Nat \ {0} : k = _split(Len(r))
        BY <3>1
      <3>6. f[Left(r)][i] = g[Left(r)][i] /\ (~(i < k) => f[Right(r)][i - k] = g[Right(r)][i - k])
        <4>1. ~(i < k) => i - k \in Common
          OBVIOUS
        <4>. HIDE DEF Common
        <4>. QED
          BY <3>4, <4>1
      <3>7. AuditStep(f, r, i) = AuditStep(g, r, i)
        BY <3>5, <3>6, Zenon DEF AuditStep
      <3>. QED
        BY <1>1, <3>7
    <2>. QED
      BY <1>l, <2>1, <2>2
  <1>5. s \in Both /\ x \in Common
    BY DEF Both
  <1>. HIDE DEF T, Common
  <1>6. Len(s) \in T
    BY <1>3, <1>4, <1>l, <1>5, InductionOnHeight
  <1>. QED
    BY <1>5, <1>6, <1>l DEF T

\* The equation that defines an audit path.
LEMMA AuditDef ==
  ASSUME NEW level, Level(level), NEW i \in Nat, i < Len(level)
  PROVE  /\ Len(level) = 1 => _audit_path(level, i) = <<>>
         /\ Len(level) > 1 /\ i < _split(Len(level)) =>
              _audit_path(level, i) = Append(_audit_path(Left(level), i), _mth(Right(level)))
         /\ Len(level) > 1 /\ ~(i < _split(Len(level))) =>
              _audit_path(level, i) =
                FromTheLeft(_mth(Left(level)), _audit_path(Right(level), i - _split(Len(level))))
  <1>. DEFINE F(r, x) == CHOOSE f : ArePaths(f, Range(r), Len(r), x)
  <1>1. \A r, x : Len(r) \in Nat => ArePaths(F(r, x), Range(r), Len(r), x)
    BY PathsExist
  <1>2. \A r, x : _audit_path(r, x) = F(r, x)[r][x]
    BY Zenon DEF _audit_path, ArePaths, AuditStep, Slices
  <1>. HIDE DEF F
  <1>3. level \in Seq(Range(level)) /\ Len(level) \in Nat \ {0} /\ level \in BoundedSeq(Range(level), Len(level))
    BY InBoundedSeq DEF Level
  <1>4. F(level, i)[level][i] = AuditStep(F(level, i), level, i)
    BY <1>1, <1>3 DEF ArePaths
  <1>5. ASSUME Len(level) > 1, NEW half \in {Left(level), Right(level)}, NEW x \in Nat, x <= i
        PROVE  F(level, i)[half][x] = F(half, x)[half][x]
    <2>1. half \in Seq(Range(level)) /\ Len(half) \in 1 .. Len(level) - 1
      BY <1>3, <1>5, SliceSizes
    <2>2. half \in Seq(Range(half))
      BY <2>1 DEF Range
    <2>3. half \in BoundedSeq(Range(level), Len(level)) /\ half \in BoundedSeq(Range(half), Len(half))
      BY <1>3, <2>1, <2>2, InBoundedSeq
    <2>4. ArePaths(F(level, i), Range(level), Len(level), i) /\ ArePaths(F(half, x), Range(half), Len(half), x)
      BY <1>1, <1>3, <2>1
    <2>5. x <= x
      OBVIOUS
    <2>. QED
      BY <1>3, <1>5, <2>1, <2>3, <2>4, <2>5, PathsAgree
  <1>6. CASE Len(level) = 1
    BY <1>2, <1>4, <1>6 DEF AuditStep
  <1>7. CASE Len(level) > 1
    <2>1. PICK k \in 1 .. Len(level) - 1 : k = _split(Len(level))
      BY <1>3, <1>7, SplitInside
    <2>2. F(level, i)[Left(level)][i] = _audit_path(Left(level), i)
      BY <1>2, <1>5, <1>7
    <2>3. ~(i < k) => F(level, i)[Right(level)][i - k] = _audit_path(Right(level), i - k)
      <3>1. ~(i < k) => i - k \in Nat /\ i - k <= i
        OBVIOUS
      <3>. QED
        BY <1>2, <1>5, <1>7, <3>1
    <2>4. ~(Len(level) <= 1) /\ Len(level) # 1
      <3>1. PICK c \in Nat : c = Len(level)
        BY <1>3
      <3>. QED
        BY <1>7, <3>1
    <2>. QED
      BY <1>2, <1>4, <2>1, <2>2, <2>3, <2>4 DEF AuditStep
  <1>. QED
    BY <1>3, <1>6, <1>7

RootStep(f, leaf, p, i, n) ==
  LET k == _split(n) IN
  IF i >= n THEN Raises
  ELSE IF n = 1 THEN IF p = <<>> THEN leaf ELSE Raises
  ELSE IF p = <<>> THEN Raises
  ELSE IF i < k THEN _node(f[Front(p)][i][k], Last(p))
  ELSE _node(Head(p), f[Tail(p)][i - k][n - k])

AreRoots(f, leaf, S, m, index, size) ==
  f = [p \in BoundedSeq(S, m) |-> [i \in 0 .. index |-> [n \in 0 .. size |-> RootStep(f, leaf, p, i, n)]]]

\* A proof without its last or its first node.
LEMMA ShorterProof ==
  ASSUME NEW S, NEW p \in Seq(S), p # <<>>
  PROVE  /\ Len(p) \in Nat \ {0} /\ Front(p) \in Seq(S) /\ Tail(p) \in Seq(S)
         /\ Len(Front(p)) = Len(p) - 1 /\ Len(Tail(p)) = Len(p) - 1
  <1>1. Len(p) \in Nat \ {0}
    OBVIOUS
  <1>2. SubSeq(p, 1, Len(p) - 1) \in Seq(S) /\ Len(SubSeq(p, 1, Len(p) - 1)) = Len(p) - 1
    BY <1>1
  <1>3. Tail(p) \in Seq(S) /\ Len(Tail(p)) = Len(p) - 1
    BY HeadTailProperties
  <1>. QED
    BY <1>1, <1>2, <1>3 DEF Front

LEMMA RootsExist ==
  ASSUME NEW leaf, NEW S, NEW n \in Nat, NEW index, NEW size
  PROVE  \E f : AreRoots(f, leaf, S, n, index, size)
  <1>. DEFINE T == {m \in Nat : \E f : AreRoots(f, leaf, S, m, index, size)}
              D(m) == BoundedSeq(S, m)
  <1>d. \A m \in Nat : \A p : p \in D(m) <=> p \in Seq(S) /\ Len(p) <= m
    BY InBoundedSeq
  <1>. HIDE DEF D
  <1>l. \A p \in Seq(S) : Len(p) \in Nat /\ (Len(p) = 0 <=> p = <<>>)
    OBVIOUS
  <1>h. ASSUME NEW m \in Nat, NEW p \in D(m + 1), p # <<>> PROVE Front(p) \in D(m) /\ Tail(p) \in D(m)
    <2>1. p \in Seq(S) /\ Len(p) <= m + 1
      BY <1>d
    <2>2. /\ Len(p) \in Nat \ {0} /\ Front(p) \in Seq(S) /\ Tail(p) \in Seq(S)
          /\ Len(Front(p)) = Len(p) - 1 /\ Len(Tail(p)) = Len(p) - 1
      BY <1>h, <2>1, ShorterProof
    <2>3. Len(Front(p)) <= m /\ Len(Tail(p)) <= m
      BY <2>1, <2>2
    <2>. QED
      BY <1>d, <2>2, <2>3
  <1>1. 0 \in T
    <2>. DEFINE R(i, n_) == IF i >= n_ THEN Raises ELSE IF n_ = 1 THEN leaf ELSE Raises
                f == [p \in D(0) |-> [i \in 0 .. index |-> [x \in 0 .. size |-> R(i, x)]]]
    <2>1. \A p \in D(0) : p = <<>>
      BY <1>d, <1>l
    <2>2. \A p \in D(0) : \A i, x : RootStep(f, leaf, p, i, x) = R(i, x)
      BY <2>1 DEF RootStep
    <2>. HIDE DEF R
    <2>3. f = [p \in D(0) |-> [i \in 0 .. index |-> [x \in 0 .. size |-> RootStep(f, leaf, p, i, x)]]]
      BY <2>2
    <2>4. AreRoots(f, leaf, S, 0, index, size)
      BY <2>3, Zenon DEF AreRoots, D
    <2>. QED
      BY <2>4
  <1>2. ASSUME NEW m \in Nat, m \in T PROVE m + 1 \in T
    <2>1. PICK f : AreRoots(f, leaf, S, m, index, size)
      BY <1>2
    <2>. DEFINE Rows(h, p) == [i \in 0 .. index |-> [x \in 0 .. size |-> RootStep(h, leaf, p, i, x)]]
                g == [p \in D(m + 1) |-> IF p \in D(m) THEN f[p] ELSE Rows(f, p)]
    <2>2. \A p \in D(m) : f[p] = Rows(f, p)
      BY <2>1 DEF AreRoots, D
    <2>3. \A p \in D(m) : p \in D(m + 1)
      BY <1>d, <1>l
    <2>. HIDE DEF Rows
    <2>4. \A p \in D(m) : g[p] = f[p]
      BY <2>3
    <2>5. \A p \in D(m + 1) : g[p] = Rows(f, p)
      BY <2>2, <2>3
    <2>6. g = [p \in D(m + 1) |-> g[p]]
      OBVIOUS
    <2>. HIDE DEF g
    <2>7. ASSUME NEW p \in D(m + 1), NEW i, NEW x PROVE RootStep(g, leaf, p, i, x) = RootStep(f, leaf, p, i, x)
      <3>1. CASE p = <<>>
        BY <3>1, Zenon DEF RootStep
      <3>2. CASE p # <<>>
        <4>1. g[Front(p)] = f[Front(p)] /\ g[Tail(p)] = f[Tail(p)]
          BY <1>h, <2>4, <3>2
        <4>. QED
          BY <4>1, Zenon DEF RootStep
      <3>. QED
        BY <3>1, <3>2
    <2>8. \A p \in D(m + 1) : g[p] = Rows(g, p)
      <3>. TAKE p \in D(m + 1)
      <3>1. \A i, x : RootStep(g, leaf, p, i, x) = RootStep(f, leaf, p, i, x)
        BY <2>7
      <3>2. Rows(g, p) = Rows(f, p)
        BY <3>1 DEF Rows
      <3>. QED
        BY <2>5, <3>2
    <2>9. g = [p \in D(m + 1) |-> Rows(g, p)]
      BY <2>6, <2>8
    <2>10. AreRoots(g, leaf, S, m + 1, index, size)
      BY <2>9, Zenon DEF AreRoots, D, Rows
    <2>. QED
      BY <2>10
  <1>. HIDE DEF T
  <1>3. n \in T
    BY <1>1, <1>2, InductionOnHeight
  <1>. QED
    BY <1>3 DEF T

LEMMA RootsAgree ==
  ASSUME NEW leaf, NEW S, NEW n \in Nat, NEW U, NEW j \in Nat,
         NEW a \in Nat, NEW b \in Nat, NEW c \in Nat, NEW d \in Nat, a <= b, c <= d,
         NEW f, NEW g, AreRoots(f, leaf, S, n, a, c), AreRoots(g, leaf, U, j, b, d),
         NEW p, p \in BoundedSeq(S, n), p \in BoundedSeq(U, j), NEW x \in 0 .. a, NEW y \in 0 .. c
  PROVE  f[p][x][y] = g[p][x][y]
  <1>. DEFINE Both == {r \in BoundedSeq(S, n) : r \in BoundedSeq(U, j)}
              T == {m \in Nat : \A r \in Both : Len(r) <= m =>
                      \A i \in 0 .. a, z \in 0 .. c : f[r][i][z] = g[r][i][z]}
  <1>0. (\A i \in 0 .. a : i \in 0 .. b) /\ (\A z \in 0 .. c : z \in 0 .. d)
    OBVIOUS
  <1>f. \A r \in BoundedSeq(S, n) : f[r] = [i \in 0 .. a |-> [z \in 0 .. c |-> RootStep(f, leaf, r, i, z)]]
    BY DEF AreRoots
  <1>g. \A r \in BoundedSeq(U, j) : g[r] = [i \in 0 .. b |-> [z \in 0 .. d |-> RootStep(g, leaf, r, i, z)]]
    BY DEF AreRoots
  <1>1. ASSUME NEW r \in Both, NEW i \in 0 .. a, NEW z \in 0 .. c
        PROVE  f[r][i][z] = RootStep(f, leaf, r, i, z) /\ g[r][i][z] = RootStep(g, leaf, r, i, z)
    <2>1. r \in BoundedSeq(S, n) /\ r \in BoundedSeq(U, j)
      OBVIOUS
    <2>2. f[r][i] = [w \in 0 .. c |-> RootStep(f, leaf, r, i, w)]
      BY <1>f, <2>1
    <2>3. g[r][i] = [w \in 0 .. d |-> RootStep(g, leaf, r, i, w)]
      BY <1>0, <1>g, <2>1
    <2>. QED
      BY <1>0, <2>2, <2>3
  <1>2. \A r : r \in Both <=> r \in Seq(S) /\ r \in Seq(U) /\ Len(r) <= n /\ Len(r) <= j
    BY InBoundedSeq
  <1>l. \A r \in Both : Len(r) \in Nat /\ (Len(r) = 0 <=> r = <<>>)
    BY <1>2
  <1>. HIDE DEF Both
  <1>b. ASSUME NEW r \in Both, r = <<>>, NEW i \in 0 .. a, NEW z \in 0 .. c PROVE f[r][i][z] = g[r][i][z]
    <2>1. RootStep(f, leaf, r, i, z) = RootStep(g, leaf, r, i, z)
      BY <1>b, Zenon DEF RootStep
    <2>. QED
      BY <1>1, <2>1
  <1>c. \A r \in Both : r = <<>> => \A i \in 0 .. a, z \in 0 .. c : f[r][i][z] = g[r][i][z]
    BY <1>b
  <1>3. 0 \in T
    BY <1>c, <1>l
  <1>4. ASSUME NEW m \in Nat, m \in T PROVE m + 1 \in T
    <2>. SUFFICES ASSUME NEW r \in Both, Len(r) <= m + 1
                  PROVE  \A i \in 0 .. a, z \in 0 .. c : f[r][i][z] = g[r][i][z]
      OBVIOUS
    <2>. SUFFICES ASSUME r # <<>>, NEW i \in 0 .. a, NEW z \in 0 .. c
                  PROVE  f[r][i][z] = g[r][i][z]
      BY <1>c
    <2>1. r \in Seq(S) /\ r \in Seq(U) /\ Len(r) <= n /\ Len(r) <= j
      BY <1>2
    <2>2. /\ Len(r) \in Nat \ {0} /\ Front(r) \in Seq(S) /\ Tail(r) \in Seq(S)
          /\ Len(Front(r)) = Len(r) - 1 /\ Len(Tail(r)) = Len(r) - 1
      BY <2>1, ShorterProof
    <2>3. Front(r) \in Seq(U) /\ Tail(r) \in Seq(U)
      BY <2>1, ShorterProof
    <2>4. Front(r) \in Both /\ Tail(r) \in Both /\ Len(Front(r)) <= m /\ Len(Tail(r)) <= m
      <3>1. /\ Len(Front(r)) <= m /\ Len(Front(r)) <= n /\ Len(Front(r)) <= j
            /\ Len(Tail(r)) <= m /\ Len(Tail(r)) <= n /\ Len(Tail(r)) <= j
        BY <2>1, <2>2
      <3>. QED
        BY <1>2, <2>2, <2>3, <3>1
    <2>5. \A v \in 0 .. a, w \in 0 .. c : /\ f[Front(r)][v][w] = g[Front(r)][v][w]
                                          /\ f[Tail(r)][v][w] = g[Tail(r)][v][w]
      BY <1>4, <2>4
    <2>6. CASE i >= z \/ z = 1
      <3>1. RootStep(f, leaf, r, i, z) = RootStep(g, leaf, r, i, z)
        BY <2>6, Zenon DEF RootStep
      <3>. QED
        BY <1>1, <3>1
    <2>7. CASE ~(i >= z) /\ z # 1
      <3>1. z \in Nat /\ z > 1 /\ i \in Nat
        BY <2>7
      <3>2. PICK k \in 1 .. z - 1 : k = _split(z)
        BY <3>1, SplitInside
      <3>3. i \in 0 .. a /\ k \in 0 .. c /\ z - k \in 0 .. c /\ (~(i < k) => i - k \in 0 .. a)
        BY <3>1
      <3>4. f[Front(r)][i][k] = g[Front(r)][i][k] /\ (~(i < k) => f[Tail(r)][i - k][z - k] = g[Tail(r)][i - k][z - k])
        BY <2>5, <3>3
      <3>5. RootStep(f, leaf, r, i, z) = RootStep(g, leaf, r, i, z)
        BY <3>2, <3>4, Zenon DEF RootStep
      <3>. QED
        BY <1>1, <3>5
    <2>. QED
      BY <2>6, <2>7
  <1>5. p \in Both
    BY DEF Both
  <1>. HIDE DEF T
  <1>6. Len(p) \in T
    BY <1>3, <1>4, <1>l, <1>5, InductionOnHeight
  <1>. QED
    BY <1>5, <1>6, <1>l DEF T

\* The equation that defines the root a proof leads to.
LEMMA RootDef ==
  ASSUME NEW leaf, NEW i \in Nat, NEW p, p \in Seq(Range(p)), NEW n \in Nat
  PROVE  _root_from_proof(leaf, i, p, n) =
           IF i >= n THEN Raises
           ELSE IF n = 1 THEN IF p = <<>> THEN leaf ELSE Raises
           ELSE IF p = <<>> THEN Raises
           ELSE IF i < _split(n) THEN _node(_root_from_proof(leaf, i, Front(p), _split(n)), Last(p))
           ELSE _node(Head(p), _root_from_proof(leaf, i - _split(n), Tail(p), n - _split(n)))
  <1>. DEFINE F(r, x, y) == CHOOSE f : AreRoots(f, leaf, Range(r), Len(r), x, y)
  <1>1. \A r, x, y : Len(r) \in Nat => AreRoots(F(r, x, y), leaf, Range(r), Len(r), x, y)
    BY RootsExist
  <1>2. \A r, x, y : _root_from_proof(leaf, x, r, y) = F(r, x, y)[r][x][y]
    BY Zenon DEF _root_from_proof, AreRoots, RootStep, Slices
  <1>. HIDE DEF F
  <1>3. Len(p) \in Nat /\ p \in BoundedSeq(Range(p), Len(p))
    BY InBoundedSeq
  <1>4. F(p, i, n)[p][i][n] = RootStep(F(p, i, n), leaf, p, i, n)
    <2>1. AreRoots(F(p, i, n), leaf, Range(p), Len(p), i, n)
      BY <1>1, <1>3
    <2>2. F(p, i, n)[p] = [x \in 0 .. i |-> [y \in 0 .. n |-> RootStep(F(p, i, n), leaf, p, x, y)]]
      BY <1>3, <2>1 DEF AreRoots
    <2>. QED
      BY <2>2
  <1>5. ASSUME p # <<>>, NEW q \in {Front(p), Tail(p)}, NEW x \in 0 .. i, NEW y \in 0 .. n
        PROVE  F(p, i, n)[q][x][y] = F(q, x, y)[q][x][y]
    <2>1. q \in Seq(Range(p)) /\ Len(q) = Len(p) - 1 /\ Len(p) # 0
      BY <1>5, ShorterProof
    <2>2. q \in Seq(Range(q)) /\ Len(q) \in Nat /\ Len(q) <= Len(p)
      BY <1>3, <2>1 DEF Range
    <2>3. q \in BoundedSeq(Range(p), Len(p)) /\ q \in BoundedSeq(Range(q), Len(q))
      BY <1>3, <2>1, <2>2, InBoundedSeq
    <2>4. AreRoots(F(p, i, n), leaf, Range(p), Len(p), i, n) /\ AreRoots(F(q, x, y), leaf, Range(q), Len(q), x, y)
      BY <1>1, <1>3, <2>2
    <2>5. x \in Nat /\ y \in Nat /\ x <= i /\ y <= n /\ x \in 0 .. x /\ y \in 0 .. y
      OBVIOUS
    <2>6. F(q, x, y)[q][x][y] = F(p, i, n)[q][x][y]
      BY <1>3, <2>2, <2>3, <2>4, <2>5, RootsAgree
    <2>. QED
      BY <2>6
  <1>6. CASE i >= n \/ n = 1 \/ p = <<>>
    BY <1>2, <1>4, <1>6 DEF RootStep
  <1>7. CASE ~(i >= n) /\ n # 1 /\ p # <<>>
    <2>1. n > 1
      BY <1>7
    <2>2. PICK k \in 1 .. n - 1 : k = _split(n)
      BY <2>1, SplitInside
    <2>3. k \in 0 .. n /\ n - k \in 0 .. n /\ i \in 0 .. i /\ (~(i < k) => i - k \in 0 .. i)
      OBVIOUS
    <2>4. F(p, i, n)[Front(p)][i][k] = _root_from_proof(leaf, i, Front(p), k)
      BY <1>2, <1>5, <1>7, <2>3
    <2>5. ~(i < k) => F(p, i, n)[Tail(p)][i - k][n - k] = _root_from_proof(leaf, i - k, Tail(p), n - k)
      BY <1>2, <1>5, <1>7, <2>3
    <2>6. RootStep(F(p, i, n), leaf, p, i, n) =
            IF i < k THEN _node(_root_from_proof(leaf, i, Front(p), k), Last(p))
            ELSE _node(Head(p), _root_from_proof(leaf, i - k, Tail(p), n - k))
      BY <1>7, <2>2, <2>4, <2>5 DEF RootStep
    <2>. QED
      BY <1>2, <1>4, <1>7, <2>2, <2>6
  <1>. QED
    BY <1>6, <1>7

-----------------------------------------------------------------------------
(* Transparency: proofs and trees *)

LeafLevel(s) == Level(s) /\ \A k \in DOMAIN s : \E d : s[k] = _leaf(d)

\* Domain separation: no leaf is a node, and a node determines its children.
LEMMA Separated ==
  /\ \A l, r, d : _node(l, r) # _leaf(d)
  /\ \A d : Raises # _leaf(d)
  /\ \A l, r : Raises # _node(l, r)
  /\ \A l, r, x, y : _node(l, r) = _node(x, y) => l = x /\ r = y
  <1>. DEFINE N(l, r) == [left |-> l, right |-> r]
              L(d) == [data |-> d]
              X == [raises |-> TRUE]
  <1>1. \A l, r : DOMAIN N(l, r) = {"left", "right"} /\ N(l, r).left = l /\ N(l, r).right = r
    OBVIOUS
  <1>2. \A d : DOMAIN L(d) = {"data"}
    OBVIOUS
  <1>3. DOMAIN X = {"raises"}
    OBVIOUS
  <1>4. {"left", "right"} # {"data"} /\ {"raises"} # {"data"} /\ {"raises"} # {"left", "right"}
    <2>1. "left" # "data" /\ "raises" # "data" /\ "left" # "raises"
      OBVIOUS
    <2>. QED
      BY <2>1
  <1>5. \A l, r : _node(l, r) = N(l, r)
    BY DEF _node
  <1>6. \A d : _leaf(d) = L(d)
    BY DEF _leaf
  <1>7. Raises = X
    BY DEF Raises
  <1>. HIDE DEF N, L, X
  <1>8. ASSUME NEW l, NEW r, NEW d PROVE _node(l, r) # _leaf(d)
    BY <1>1, <1>2, <1>4, <1>5, <1>6
  <1>9. ASSUME NEW d PROVE Raises # _leaf(d)
    BY <1>2, <1>3, <1>4, <1>6, <1>7
  <1>10. ASSUME NEW l, NEW r PROVE Raises # _node(l, r)
    BY <1>1, <1>3, <1>4, <1>5, <1>7
  <1>11. ASSUME NEW l, NEW r, NEW x, NEW y, _node(l, r) = _node(x, y) PROVE l = x /\ r = y
    <2>1. N(l, r) = N(x, y)
      BY <1>5, <1>11
    <2>. QED
      BY <1>1, <2>1
  <1>. QED
    BY <1>8, <1>9, <1>10, <1>11

LEMMA LeafHalves ==
  ASSUME NEW s, LeafLevel(s), Len(s) > 1, NEW k, k = _split(Len(s))
  PROVE  /\ Len(s) \in Nat \ {0} /\ k \in 1 .. Len(s) - 1
         /\ LeafLevel(Left(s)) /\ Len(Left(s)) = k
         /\ LeafLevel(Right(s)) /\ Len(Right(s)) = Len(s) - k
         /\ \A i \in 1 .. k : Left(s)[i] = s[i]
         /\ \A i \in 1 .. Len(s) - k : Right(s)[i] = s[k + i]
  <1>1. s \in Seq(Range(s)) /\ \A i \in 1 .. Len(s) : \E d : s[i] = _leaf(d)
    BY DEF LeafLevel, Level
  <1>2. PICK n \in Nat \ {0} : n = Len(s)
    BY <1>1 DEF LeafLevel, Level
  <1>3. /\ Left(s) \in Seq(Range(s)) /\ Len(Left(s)) = k /\ k \in 1 .. n - 1
        /\ Right(s) \in Seq(Range(s)) /\ Len(Right(s)) = n - k
        /\ \A i \in 1 .. k : Left(s)[i] = s[i]
        /\ \A i \in 1 .. n - k : Right(s)[i] = s[k + i]
    BY <1>1, <1>2, SliceSizes
  <1>4. ASSUME NEW h, h \in Seq(Range(s)), Len(h) \in Nat \ {0}, \A i \in 1 .. Len(h) : \E d : h[i] = _leaf(d)
        PROVE  LeafLevel(h)
    <2>1. h \in Seq(Range(h)) /\ h # <<>> /\ DOMAIN h = 1 .. Len(h)
      BY <1>4 DEF Range
    <2>. QED
      BY <1>4, <2>1 DEF LeafLevel, Level
  <1>5. \A i \in 1 .. k : i \in 1 .. n
    BY <1>2, <1>3
  <1>6. \A i \in 1 .. n - k : k + i \in 1 .. n
    BY <1>2, <1>3
  <1>7. k \in Nat \ {0} /\ n - k \in Nat \ {0}
    BY <1>2, <1>3
  <1>8. LeafLevel(Left(s))
    BY <1>1, <1>2, <1>3, <1>4, <1>5, <1>7
  <1>9. LeafLevel(Right(s))
    BY <1>1, <1>2, <1>3, <1>4, <1>6, <1>7
  <1>. QED
    BY <1>2, <1>3, <1>8, <1>9

\* A root is a leaf or a node, of the roots of the halves.
LEMMA LeafRoots ==
  ASSUME NEW s, LeafLevel(s)
  PROVE  /\ Len(s) \in Nat \ {0}
         /\ Len(s) = 1 => _mth(s) = s[1] /\ \E d : _mth(s) = _leaf(d)
         /\ Len(s) > 1 => _mth(s) = _node(_mth(Left(s)), _mth(Right(s)))
         /\ _mth(s) # Raises
  <1>1. Level(s) /\ Len(s) \in Nat \ {0} /\ \A i \in 1 .. Len(s) : \E d : s[i] = _leaf(d)
    BY DEF LeafLevel, Level
  <1>2. Len(s) = 1 => _mth(s) = s[1] /\ \E d : _mth(s) = _leaf(d)
    BY <1>1, MthDef
  <1>3. Len(s) > 1 => _mth(s) = _node(_mth(Left(s)), _mth(Right(s)))
    BY <1>1, MthDef
  <1>4. Len(s) = 1 \/ Len(s) > 1
    <2>1. PICK n \in Nat \ {0} : n = Len(s)
      BY <1>1
    <2>. QED
      BY <2>1
  <1>5. _mth(s) # Raises
    BY <1>2, <1>3, <1>4, Separated
  <1>. QED
    BY <1>1, <1>2, <1>3, <1>5

\* A root tells the number of its leaves.
LEMMA RootsTellTheSize ==
  ASSUME NEW a, NEW b, LeafLevel(a), LeafLevel(b), _mth(a) = _mth(b)
  PROVE  Len(a) = Len(b)
  <1>. DEFINE T == {m \in Nat : \A x, y : LeafLevel(x) /\ LeafLevel(y) /\ Len(x) <= m /\ _mth(x) = _mth(y)
                                            => Len(x) = Len(y)}
  <1>1. 0 \in T
    BY LeafRoots
  <1>2. ASSUME NEW m \in Nat, m \in T PROVE m + 1 \in T
    <2>. SUFFICES ASSUME NEW x, NEW y, LeafLevel(x), LeafLevel(y), Len(x) <= m + 1, _mth(x) = _mth(y)
                  PROVE  Len(x) = Len(y)
      OBVIOUS
    <2>1. PICK n \in Nat \ {0}, o \in Nat \ {0} : n = Len(x) /\ o = Len(y)
      BY LeafRoots
    <2>2. n = 1 => (\E d : _mth(x) = _leaf(d))
      BY <2>1, LeafRoots
    <2>3. o = 1 => (\E d : _mth(y) = _leaf(d))
      BY <2>1, LeafRoots
    <2>4. n > 1 => _mth(x) = _node(_mth(Left(x)), _mth(Right(x)))
      BY <2>1, LeafRoots
    <2>5. o > 1 => _mth(y) = _node(_mth(Left(y)), _mth(Right(y)))
      BY <2>1, LeafRoots
    <2>6. (n > 1 <=> o > 1) /\ (n = 1 <=> o = 1)
      <3>1. (n = 1 <=> ~(n > 1)) /\ (o = 1 <=> ~(o > 1))
        OBVIOUS
      <3>. QED
        BY <2>2, <2>3, <2>4, <2>5, <3>1, Separated
    <2>7. CASE n > 1
      <3>1. _mth(Left(x)) = _mth(Left(y)) /\ _mth(Right(x)) = _mth(Right(y))
        BY <2>4, <2>5, <2>6, <2>7, Separated
      <3>2. PICK k \in 1 .. n - 1 : /\ LeafLevel(Left(x)) /\ Len(Left(x)) = k
                                    /\ LeafLevel(Right(x)) /\ Len(Right(x)) = n - k
        BY <2>1, <2>7, LeafHalves
      <3>3. PICK j \in 1 .. o - 1 : /\ LeafLevel(Left(y)) /\ Len(Left(y)) = j
                                    /\ LeafLevel(Right(y)) /\ Len(Right(y)) = o - j
        BY <2>1, <2>6, <2>7, LeafHalves
      <3>4. k <= m /\ n - k <= m
        BY <2>1
      <3>5. k = j /\ n - k = o - j
        BY <1>2, <3>1, <3>2, <3>3, <3>4
      <3>. QED
        BY <2>1, <3>5
    <2>. QED
      BY <2>1, <2>6, <2>7
  <1>. HIDE DEF T
  <1>3. Len(a) \in T
    BY <1>1, <1>2, LeafRoots, InductionOnHeight
  <1>4. Len(a) <= Len(a)
    BY LeafRoots
  <1>. QED
    BY <1>3, <1>4 DEF T

\* What is put at an end of a proof is found there, and the proof remains.
LEMMA EndsOfAProof ==
  ASSUME NEW p, p \in Seq(Range(p)), NEW e
  PROVE  /\ Len(p) \in Nat
         /\ Append(p, e) \in Seq(Range(Append(p, e))) /\ Append(p, e) # <<>> /\ Len(Append(p, e)) = Len(p) + 1
         /\ Front(Append(p, e)) = p /\ Last(Append(p, e)) = e
         /\ \A k \in 1 .. Len(p) : Append(p, e)[k] = p[k]
         /\ FromTheLeft(e, p) \in Seq(Range(FromTheLeft(e, p))) /\ FromTheLeft(e, p) # <<>>
         /\ Len(FromTheLeft(e, p)) = Len(p) + 1
         /\ Head(FromTheLeft(e, p)) = e /\ Tail(FromTheLeft(e, p)) = p
         /\ FromTheLeft(e, p)[1] = e /\ \A k \in 1 .. Len(p) : FromTheLeft(e, p)[k + 1] = p[k]
  <1>. DEFINE S == Range(p) \cup {e}
  <1>0. p \in Seq(S) /\ e \in S /\ Len(p) \in Nat
    OBVIOUS
  <1>. HIDE DEF S
  <1>1. ASSUME NEW q \in Seq(S) PROVE q \in Seq(Range(q))
    BY DEF Range
  <1>2. /\ Append(p, e) \in Seq(S) /\ Len(Append(p, e)) = Len(p) + 1 /\ Append(p, e) # <<>>
        /\ Append(p, e)[Len(p) + 1] = e /\ \A k \in 1 .. Len(p) : Append(p, e)[k] = p[k]
    BY <1>0
  <1>3. Front(Append(p, e)) = p
    <2>1. SubSeq(Append(p, e), 1, Len(p)) = p
      BY <1>0, <1>2
    <2>2. Len(Append(p, e)) - 1 = Len(p)
      BY <1>0, <1>2
    <2>. QED
      BY <2>1, <2>2 DEF Front
  <1>4. Last(Append(p, e)) = e
    BY <1>2 DEF Last
  <1>5. <<e>> \in Seq(S) /\ Len(<<e>>) = 1
    BY <1>0
  <1>6. /\ <<e>> \o p \in Seq(S) /\ Len(<<e>> \o p) = 1 + Len(p)
        /\ \A k \in 1 .. 1 + Len(p) : (<<e>> \o p)[k] = IF k <= 1 THEN <<e>>[k] ELSE p[k - 1]
    BY <1>0, <1>5, ConcatProperties
  <1>7. (<<e>> \o p)[1] = e /\ \A k \in 1 .. Len(p) : (<<e>> \o p)[k + 1] = p[k]
    <2>1. ASSUME NEW k \in 1 .. Len(p) PROVE (<<e>> \o p)[k + 1] = p[k]
      <3>1. k + 1 \in 1 .. 1 + Len(p) /\ ~(k + 1 <= 1) /\ (k + 1) - 1 = k
        BY <1>0
      <3>. QED
        BY <1>6, <3>1
    <2>2. 1 \in 1 .. 1 + Len(p) /\ 1 <= 1
      BY <1>0
    <2>3. (<<e>> \o p)[1] = <<e>>[1]
      BY <1>6, <2>2
    <2>. QED
      BY <2>1, <2>3
  <1>8. /\ <<e>> \o p # <<>> /\ Head(<<e>> \o p) = e /\ Tail(<<e>> \o p) = p
    <2>. DEFINE q == <<e>> \o p
    <2>0. q \in Seq(S) /\ Len(q) = 1 + Len(p) /\ q[1] = e /\ \A k \in 1 .. Len(p) : q[k + 1] = p[k]
      BY <1>6, <1>7
    <2>. HIDE DEF q
    <2>1. q # <<>> /\ Head(q) = e
      BY <1>0, <2>0
    <2>2. Tail(q) \in Seq(S) /\ Len(Tail(q)) = Len(q) - 1 /\ \A k \in 1 .. Len(Tail(q)) : Tail(q)[k] = q[k + 1]
      BY <2>0, <2>1, HeadTailProperties
    <2>3. Len(Tail(q)) = Len(p)
      BY <1>0, <2>0, <2>2
    <2>4. \A k \in 1 .. Len(p) : Tail(q)[k] = p[k]
      BY <2>0, <2>2, <2>3
    <2>5. Tail(q) = p
      BY <1>0, <2>2, <2>3, <2>4, SeqEqual
    <2>. QED
      BY <2>1, <2>5 DEF q
  <1>9. Append(p, e) \in Seq(Range(Append(p, e)))
    BY <1>1, <1>2
  <1>10. <<e>> \o p \in Seq(Range(<<e>> \o p)) /\ Len(<<e>> \o p) = Len(p) + 1
    <2>. DEFINE q == <<e>> \o p
    <2>1. q \in Seq(S) /\ Len(q) = 1 + Len(p)
      BY <1>6
    <2>. HIDE DEF q
    <2>2. q \in Seq(Range(q)) /\ Len(q) = Len(p) + 1
      BY <1>0, <1>1, <2>1
    <2>. QED
      BY <2>2 DEF q
  <1>11. FromTheLeft(e, p) = <<e>> \o p
    BY DEF FromTheLeft
  <1>. QED
    BY <1>0, <1>2, <1>3, <1>4, <1>7, <1>8, <1>9, <1>10, <1>11

\* p is a list of roots, and w counts the leaves under the first ones of them.
Weighs(p, w) ==
  /\ p \in Seq(Range(p)) /\ w \in [0 .. Len(p) -> Int] /\ w[0] = 0
  /\ \A k \in 1 .. Len(p) : \E s : LeafLevel(s) /\ p[k] = _mth(s) /\ w[k] = w[k - 1] + Len(s)

LEMMA WeighsLonger ==
  ASSUME NEW p, NEW w, Weighs(p, w), NEW s, LeafLevel(s)
  PROVE  /\ \E u : /\ Weighs(Append(p, _mth(s)), u) /\ u[Len(p) + 1] = w[Len(p)] + Len(s)
                   /\ \A k \in 1 .. Len(p) : u[k] = w[k] /\ u[k - 1] = w[k - 1]
                   /\ u[Len(p)] = w[Len(p)]
         /\ \E u : /\ Weighs(FromTheLeft(_mth(s), p), u) /\ u[Len(p) + 1] = w[Len(p)] + Len(s)
                   /\ \A k \in 1 .. Len(p) : u[k + 1] = w[k] + Len(s) /\ u[k] = w[k - 1] + Len(s)
                   /\ u[0] = 0 /\ u[1] = Len(s)
  <1>1. PICK n \in Nat, c \in Nat \ {0} : n = Len(p) /\ c = Len(s)
    BY LeafRoots DEF Weighs
  <1>2. /\ p \in Seq(Range(p)) /\ w \in [0 .. n -> Int] /\ w[0] = 0
        /\ \A k \in 1 .. n : \E r : LeafLevel(r) /\ p[k] = _mth(r) /\ w[k] = w[k - 1] + Len(r)
    BY <1>1 DEF Weighs
  <1>3. PICK e : e = _mth(s)
    OBVIOUS
  <1>4. /\ Append(p, e) \in Seq(Range(Append(p, e))) /\ Len(Append(p, e)) = n + 1 /\ Append(p, e)[n + 1] = e
        /\ \A k \in 1 .. n : Append(p, e)[k] = p[k]
    <2>1. Append(p, e)[n + 1] = e
      BY <1>1, <1>2
    <2>. QED
      BY <1>1, <1>2, <2>1, EndsOfAProof
  <1>5. /\ FromTheLeft(e, p) \in Seq(Range(FromTheLeft(e, p))) /\ Len(FromTheLeft(e, p)) = n + 1
        /\ FromTheLeft(e, p)[1] = e /\ \A k \in 1 .. n : FromTheLeft(e, p)[k + 1] = p[k]
    BY <1>1, <1>2, EndsOfAProof
  <1>6. \E u : /\ Weighs(Append(p, e), u) /\ u[n + 1] = w[n] + c
               /\ \A k \in 1 .. n : u[k] = w[k] /\ u[k - 1] = w[k - 1]
               /\ u[n] = w[n]
    <2>. DEFINE u == [k \in 0 .. n + 1 |-> IF k <= n THEN w[k] ELSE w[n] + c]
    <2>1. /\ u \in [0 .. n + 1 -> Int] /\ u[0] = 0 /\ u[n + 1] = w[n] + c /\ u[n] = w[n]
          /\ \A k \in 1 .. n : u[k] = w[k] /\ u[k - 1] = w[k - 1]
      BY <1>2
    <2>. HIDE DEF u
    <2>2. ASSUME NEW k \in 1 .. n + 1
          PROVE  \E r : LeafLevel(r) /\ Append(p, e)[k] = _mth(r) /\ u[k] = u[k - 1] + Len(r)
      <3>1. CASE k \in 1 .. n
        <4>1. PICK r : LeafLevel(r) /\ p[k] = _mth(r) /\ w[k] = w[k - 1] + Len(r)
          BY <1>2, <3>1
        <4>2. u[k] = w[k] /\ u[k - 1] = w[k - 1] /\ Append(p, e)[k] = p[k]
          BY <1>4, <2>1, <3>1
        <4>. QED
          BY <4>1, <4>2
      <3>2. CASE k = n + 1
        <4>1. k - 1 = n
          BY <3>2
        <4>2. u[k] = u[k - 1] + Len(s) /\ Append(p, e)[k] = _mth(s)
          BY <1>1, <1>3, <1>4, <2>1, <3>2, <4>1
        <4>. QED
          BY <4>2
      <3>3. k \in 1 .. n \/ k = n + 1
        OBVIOUS
      <3>. QED
        BY <3>1, <3>2, <3>3
    <2>3. Weighs(Append(p, e), u)
      BY <1>4, <2>1, <2>2 DEF Weighs
    <2>. QED
      BY <2>1, <2>3
  <1>7. \E u : /\ Weighs(FromTheLeft(e, p), u) /\ u[n + 1] = w[n] + c
               /\ \A k \in 1 .. n : u[k + 1] = w[k] + c /\ u[k] = w[k - 1] + c
               /\ u[0] = 0 /\ u[1] = c
    <2>. DEFINE u == [k \in 0 .. n + 1 |-> IF k = 0 THEN 0 ELSE w[k - 1] + c]
    <2>1. /\ u \in [0 .. n + 1 -> Int] /\ u[0] = 0 /\ u[1] = c /\ u[n + 1] = w[n] + c
          /\ \A k \in 1 .. n : u[k + 1] = w[k] + c /\ u[k] = w[k - 1] + c
      <3>1. \A k \in 0 .. n : w[k] \in Int
        BY <1>2
      <3>2. \A k \in 0 .. n + 1 : k # 0 => k - 1 \in 0 .. n
        OBVIOUS
      <3>3. \A k \in 0 .. n : k + 1 \in 0 .. n + 1 /\ k + 1 # 0 /\ (k + 1) - 1 = k
        OBVIOUS
      <3>4. u \in [0 .. n + 1 -> Int]
        BY <3>1, <3>2
      <3>5. \A k \in 0 .. n : u[k + 1] = w[k] + c
        BY <3>3
      <3>6. u[0] = 0 /\ \A k \in 1 .. n : u[k] = w[k - 1] + c
        OBVIOUS
      <3>7. u[0 + 1] = w[0] + c /\ u[n + 1] = w[n] + c
        BY <3>5
      <3>. HIDE DEF u
      <3>8. u[1] = c
        BY <1>2, <3>7
      <3>. QED
        BY <3>4, <3>5, <3>6, <3>7, <3>8
    <2>. HIDE DEF u
    <2>2. ASSUME NEW k \in 1 .. n + 1
          PROVE  \E r : LeafLevel(r) /\ FromTheLeft(e, p)[k] = _mth(r) /\ u[k] = u[k - 1] + Len(r)
      <3>1. CASE k = 1
        <4>1. k - 1 = 0 /\ u[k] = u[k - 1] + c
          BY <2>1, <3>1
        <4>. QED
          BY <1>1, <1>3, <1>5, <3>1, <4>1
      <3>2. CASE k # 1
        <4>1. PICK j \in 1 .. n : k = j + 1 /\ k - 1 = j
          BY <3>2
        <4>2. PICK r : LeafLevel(r) /\ p[j] = _mth(r) /\ w[j] = w[j - 1] + Len(r)
          BY <1>2
        <4>3. u[k] = w[j] + c /\ u[k - 1] = w[j - 1] + c
          BY <2>1, <4>1
        <4>4. w[j - 1] \in Int /\ w[j] \in Int /\ Len(r) \in Nat
          BY <1>2, <4>2, LeafRoots
        <4>5. u[k] = u[k - 1] + Len(r)
          BY <4>2, <4>3, <4>4
        <4>. QED
          BY <1>5, <4>1, <4>2, <4>5
      <3>. QED
        BY <3>1, <3>2
    <2>3. Weighs(FromTheLeft(e, p), u)
      BY <1>5, <2>1, <2>2 DEF Weighs
    <2>. QED
      BY <2>1, <2>3
  <1>. QED
    BY <1>1, <1>3, <1>6, <1>7

\* The trees beside a path hold all the leaves but one, and none of them holds all.
LEMMA AuditWeighs ==
  ASSUME NEW level, LeafLevel(level), NEW x \in Nat, x < Len(level)
  PROVE  \E w : /\ Weighs(_audit_path(level, x), w)
                /\ w[Len(_audit_path(level, x))] = Len(level) - 1
                /\ \A k \in 1 .. Len(_audit_path(level, x)) : w[k] < w[k - 1] + Len(level)
  <1>. DEFINE Weighed(s, p) == \E w : /\ Weighs(p, w) /\ w[Len(p)] = Len(s) - 1
                                      /\ \A k \in 1 .. Len(p) : w[k] < w[k - 1] + Len(s)
              T == {m \in Nat : \A s : LeafLevel(s) /\ Len(s) <= m =>
                                  \A i \in Nat : i < Len(s) => Weighed(s, _audit_path(s, i))}
  <1>0. \A s : LeafLevel(s) => Len(s) \in Nat \ {0}
    BY LeafRoots
  <1>1. 0 \in T
    BY <1>0
  <1>2. ASSUME NEW m \in Nat, m \in T PROVE m + 1 \in T
    <2>. SUFFICES ASSUME NEW s, LeafLevel(s), Len(s) <= m + 1, NEW i \in Nat, i < Len(s)
                  PROVE  Weighed(s, _audit_path(s, i))
      OBVIOUS
    <2>1. PICK n \in Nat \ {0} : n = Len(s)
      BY <1>0
    <2>a. Level(s)
      BY DEF LeafLevel
    <2>2. CASE n = 1
      <3>1. _audit_path(s, i) = <<>>
        BY <2>a, <2>1, <2>2, AuditDef
      <3>. DEFINE w == [k \in 0 .. 0 |-> 0]
      <3>2. Weighs(<<>>, w)
        BY DEF Weighs, Range
      <3>3. w[Len(<<>>)] = Len(s) - 1 /\ \A k \in 1 .. Len(<<>>) : w[k] < w[k - 1] + Len(s)
        BY <2>1, <2>2
      <3>4. Weighed(s, <<>>)
        BY <3>2, <3>3
      <3>. QED
        BY <3>1, <3>4
    <2>3. CASE n > 1
      <3>1. PICK k : k = _split(n)
        OBVIOUS
      <3>2. /\ k \in 1 .. n - 1
            /\ LeafLevel(Left(s)) /\ Len(Left(s)) = k
            /\ LeafLevel(Right(s)) /\ Len(Right(s)) = n - k
        BY <2>1, <2>3, <3>1, LeafHalves
      <3>3. k \in Nat /\ n - k \in Nat /\ k < n /\ n - k < n /\ k <= m /\ n - k <= m
        BY <2>1, <3>2
      <3>4. CASE i < k
        <4>1. _audit_path(s, i) = Append(_audit_path(Left(s), i), _mth(Right(s)))
          BY <2>a, <2>1, <2>3, <3>1, <3>4, AuditDef
        <4>2. PICK p : p = _audit_path(Left(s), i)
          OBVIOUS
        <4>3. Weighed(Left(s), p)
          BY <1>2, <3>2, <3>3, <3>4, <4>2
        <4>4. PICK w : Weighs(p, w) /\ w[Len(p)] = k - 1 /\ \A j \in 1 .. Len(p) : w[j] < w[j - 1] + k
          BY <3>2, <4>3
        <4>5. PICK u : /\ Weighs(Append(p, _mth(Right(s))), u) /\ u[Len(p) + 1] = w[Len(p)] + Len(Right(s))
                       /\ \A j \in 1 .. Len(p) : u[j] = w[j] /\ u[j - 1] = w[j - 1]
                       /\ u[Len(p)] = w[Len(p)]
          BY <3>2, <4>4, WeighsLonger
        <4>6. PICK c \in Nat : /\ c = Len(p) /\ Len(Append(p, _mth(Right(s)))) = c + 1
                               /\ w \in [0 .. c -> Int]
          BY <4>4, EndsOfAProof DEF Weighs
        <4>b. \A j \in 1 .. c : u[j] = w[j] /\ u[j - 1] = w[j - 1] /\ w[j] < w[j - 1] + k
          BY <4>4, <4>5, <4>6
        <4>7. u[c + 1] = n - 1 /\ u[c] = k - 1
          BY <3>2, <4>4, <4>5, <4>6
        <4>8. ASSUME NEW j \in 1 .. c + 1 PROVE u[j] < u[j - 1] + n
          <5>1. CASE j \in 1 .. c
            <6>0. w[j] \in Int /\ w[j - 1] \in Int
              BY <4>6, <5>1
            <6>1. u[j] = w[j] /\ u[j - 1] = w[j - 1] /\ w[j] < w[j - 1] + k /\ w[j] \in Int /\ w[j - 1] \in Int
              BY <4>b, <5>1, <6>0
            <6>. QED
              BY <3>3, <6>1
          <5>2. CASE j = c + 1
            <6>1. j - 1 = c
              BY <5>2
            <6>2. u[j] = n - 1 /\ u[j - 1] = k - 1
              BY <4>7, <5>2, <6>1
            <6>. QED
              BY <3>2, <6>2
          <5>3. j \in 1 .. c \/ j = c + 1
            OBVIOUS
          <5>. QED
            BY <5>1, <5>2, <5>3
        <4>9. Weighed(s, Append(p, _mth(Right(s))))
          BY <2>1, <4>5, <4>6, <4>7, <4>8
        <4>. QED
          BY <4>1, <4>2, <4>9
      <3>5. CASE ~(i < k)
        <4>1. _audit_path(s, i) = FromTheLeft(_mth(Left(s)), _audit_path(Right(s), i - k))
          BY <2>a, <2>1, <2>3, <3>1, <3>5, AuditDef
        <4>2. PICK p : p = _audit_path(Right(s), i - k)
          OBVIOUS
        <4>a. i - k \in Nat /\ i - k < n - k
          BY <2>1, <3>3, <3>5
        <4>3. Weighed(Right(s), p)
          BY <1>2, <3>2, <3>3, <4>2, <4>a
        <4>4. PICK w : /\ Weighs(p, w) /\ w[Len(p)] = (n - k) - 1
                       /\ \A j \in 1 .. Len(p) : w[j] < w[j - 1] + (n - k)
          BY <3>2, <4>3
        <4>5. PICK u : /\ Weighs(FromTheLeft(_mth(Left(s)), p), u) /\ u[Len(p) + 1] = w[Len(p)] + Len(Left(s))
                       /\ \A j \in 1 .. Len(p) : u[j + 1] = w[j] + Len(Left(s)) /\ u[j] = w[j - 1] + Len(Left(s))
                       /\ u[0] = 0 /\ u[1] = Len(Left(s))
          <5>1. LeafLevel(Left(s)) /\ Weighs(p, w)
            BY <3>2, <4>4
          <5>. QED
            BY <5>1, WeighsLonger
        <4>6. PICK c \in Nat : /\ c = Len(p) /\ Len(FromTheLeft(_mth(Left(s)), p)) = c + 1
                               /\ w \in [0 .. c -> Int]
          BY <4>4, EndsOfAProof DEF Weighs
        <4>b. \A j \in 1 .. c : u[j + 1] = w[j] + k /\ u[j] = w[j - 1] + k /\ w[j] < w[j - 1] + (n - k)
          BY <3>2, <4>4, <4>5, <4>6
        <4>7. u[c + 1] = n - 1
          BY <3>2, <4>4, <4>5, <4>6
        <4>8. ASSUME NEW j \in 1 .. c + 1 PROVE u[j] < u[j - 1] + n
          <5>1. CASE j # 1
            <6>1. PICK l \in 1 .. c : j = l + 1 /\ j - 1 = l
              BY <5>1
            <6>2. w[l] \in Int /\ w[l - 1] \in Int
              BY <4>6
            <6>3. u[j] = w[l] + k /\ u[j - 1] = w[l - 1] + k /\ w[l] < w[l - 1] + (n - k)
              BY <4>b, <6>1
            <6>4. PICK a \in Int, b \in Int : a = w[l] /\ b = w[l - 1]
              BY <6>2
            <6>5. u[j] = a + k /\ u[j - 1] = b + k /\ a < b + (n - k)
              BY <6>3, <6>4
            <6>. QED
              BY <3>3, <6>5
          <5>2. CASE j = 1
            BY <3>2, <3>3, <4>5, <5>2
          <5>. QED
            BY <5>1, <5>2
        <4>9. Weighed(s, FromTheLeft(_mth(Left(s)), p))
          BY <2>1, <4>5, <4>6, <4>7, <4>8
        <4>. QED
          BY <4>1, <4>2, <4>9
      <3>. QED
        BY <3>4, <3>5
    <2>. QED
      BY <2>1, <2>2, <2>3
  <1>. HIDE DEF T
  <1>3. Len(level) \in T
    BY <1>0, <1>1, <1>2, InductionOnHeight
  <1>4. Len(level) <= Len(level)
    BY <1>0
  <1>. QED
    BY <1>3, <1>4 DEF T

LEMMA WeighsShorter ==
  ASSUME NEW p, NEW w, Weighs(p, w), p # <<>>
  PROVE  /\ \E u : Weighs(Front(p), u) /\ u[Len(Front(p))] = w[Len(p) - 1]
         /\ \E u : Weighs(Tail(p), u) /\ u[Len(Tail(p))] = w[Len(p)] - w[1]
         /\ \E s : LeafLevel(s) /\ Head(p) = _mth(s) /\ w[1] = Len(s)
         /\ \E s : LeafLevel(s) /\ Last(p) = _mth(s) /\ w[Len(p)] = w[Len(p) - 1] + Len(s)
  <1>1. PICK c \in Nat \ {0} : c = Len(p)
    BY DEF Weighs
  <1>2. /\ p \in Seq(Range(p)) /\ w \in [0 .. c -> Int] /\ w[0] = 0
        /\ \A k \in 1 .. c : \E s : LeafLevel(s) /\ p[k] = _mth(s) /\ w[k] = w[k - 1] + Len(s)
    BY <1>1 DEF Weighs
  <1>r. ASSUME NEW q \in Seq(Range(p)) PROVE q \in Seq(Range(q))
    BY DEF Range
  <1>3. Front(p) \in Seq(Range(Front(p))) /\ Len(Front(p)) = c - 1 /\ \A k \in 1 .. c - 1 : Front(p)[k] = p[k]
    <2>1. Front(p) \in Seq(Range(p)) /\ Len(Front(p)) = c - 1
      BY <1>1, <1>2, ShorterProof
    <2>2. \A k \in 1 .. c - 1 : SubSeq(p, 1, c - 1)[k] = p[k]
      BY <1>1, <1>2
    <2>3. Front(p) = SubSeq(p, 1, c - 1)
      BY <1>1 DEF Front
    <2>. QED
      BY <1>r, <2>1, <2>2, <2>3
  <1>4. Tail(p) \in Seq(Range(Tail(p))) /\ Len(Tail(p)) = c - 1 /\ \A k \in 1 .. c - 1 : Tail(p)[k] = p[k + 1]
    <2>1. Tail(p) \in Seq(Range(p)) /\ Len(Tail(p)) = c - 1
      BY <1>1, <1>2, ShorterProof
    <2>2. \A k \in 1 .. Len(Tail(p)) : Tail(p)[k] = p[k + 1]
      BY <1>2, HeadTailProperties
    <2>. QED
      BY <1>r, <2>1, <2>2
  <1>5. \E u : Weighs(Front(p), u) /\ u[Len(Front(p))] = w[c - 1]
    <2>. DEFINE u == [k \in 0 .. c - 1 |-> w[k]]
    <2>1. u \in [0 .. c - 1 -> Int] /\ u[0] = 0 /\ u[c - 1] = w[c - 1]
      BY <1>2
    <2>2. \A k \in 1 .. c - 1 : u[k] = w[k] /\ u[k - 1] = w[k - 1] /\ k \in 1 .. c
      OBVIOUS
    <2>. HIDE DEF u
    <2>3. \A k \in 1 .. c - 1 : \E s : LeafLevel(s) /\ Front(p)[k] = _mth(s) /\ u[k] = u[k - 1] + Len(s)
      <3>. TAKE k \in 1 .. c - 1
      <3>1. u[k] = w[k] /\ u[k - 1] = w[k - 1] /\ k \in 1 .. c
        BY <2>2
      <3>2. PICK s : LeafLevel(s) /\ p[k] = _mth(s) /\ w[k] = w[k - 1] + Len(s)
        BY <1>2, <3>1
      <3>3. Front(p)[k] = p[k]
        BY <1>3
      <3>. QED
        BY <3>1, <3>2, <3>3
    <2>4. Weighs(Front(p), u)
      BY <1>3, <2>1, <2>3 DEF Weighs
    <2>. QED
      BY <1>3, <2>1, <2>4
  <1>6. \E u : Weighs(Tail(p), u) /\ u[Len(Tail(p))] = w[c] - w[1]
    <2>. DEFINE u == [k \in 0 .. c - 1 |-> w[k + 1] - w[1]]
    <2>0. \A k \in 0 .. c : w[k] \in Int
      BY <1>2
    <2>1. u \in [0 .. c - 1 -> Int] /\ u[0] = 0 /\ u[c - 1] = w[c] - w[1]
      <3>1. \A k \in 0 .. c - 1 : k + 1 \in 0 .. c
        OBVIOUS
      <3>2. 1 \in 0 .. c /\ (c - 1) + 1 = c /\ 0 + 1 = 1 /\ c - 1 \in 0 .. c - 1 /\ 0 \in 0 .. c - 1
        OBVIOUS
      <3>3. \A k \in 0 .. c - 1 : w[k + 1] - w[1] \in Int
        BY <2>0, <3>1, <3>2
      <3>4. w[1] - w[1] = 0
        BY <2>0, <3>2
      <3>5. u \in [0 .. c - 1 -> Int]
        BY <3>3
      <3>6. u[0] = w[0 + 1] - w[1] /\ u[c - 1] = w[(c - 1) + 1] - w[1]
        BY <3>2
      <3>. HIDE DEF u
      <3>. QED
        BY <3>2, <3>4, <3>5, <3>6
    <2>2. \A k \in 1 .. c - 1 : u[k] = w[k + 1] - w[1] /\ u[k - 1] = w[k] - w[1] /\ k + 1 \in 1 .. c
      OBVIOUS
    <2>. HIDE DEF u
    <2>3. ASSUME NEW k \in 1 .. c - 1
          PROVE  \E s : LeafLevel(s) /\ Tail(p)[k] = _mth(s) /\ u[k] = u[k - 1] + Len(s)
      <3>1. PICK s : LeafLevel(s) /\ p[k + 1] = _mth(s) /\ w[k + 1] = w[k] + Len(s)
        <4>1. k + 1 \in 1 .. c /\ (k + 1) - 1 = k
          OBVIOUS
        <4>. QED
          BY <1>2, <4>1
      <3>2. PICK x \in Int, y \in Int, z \in Nat : x = w[k] /\ y = w[1] /\ z = Len(s)
        BY <2>0, <3>1, LeafRoots
      <3>3. u[k] = (x + z) - y /\ u[k - 1] = x - y
        BY <2>2, <3>1, <3>2
      <3>4. u[k] = u[k - 1] + z
        BY <3>2, <3>3
      <3>. QED
        BY <1>4, <3>1, <3>2, <3>4
    <2>4. Weighs(Tail(p), u)
      BY <1>4, <2>1, <2>3 DEF Weighs
    <2>. QED
      BY <1>4, <2>1, <2>4
  <1>7. \E s : LeafLevel(s) /\ Head(p) = _mth(s) /\ w[1] = Len(s)
    <2>1. PICK s : LeafLevel(s) /\ p[1] = _mth(s) /\ w[1] = w[1 - 1] + Len(s)
      BY <1>2
    <2>2. w[1] = Len(s)
      BY <1>2, <2>1, LeafRoots
    <2>3. Head(p) = p[1]
      BY <1>2
    <2>. QED
      BY <2>1, <2>2, <2>3
  <1>8. \E s : LeafLevel(s) /\ Last(p) = _mth(s) /\ w[c] = w[c - 1] + Len(s)
    BY <1>1, <1>2 DEF Last
  <1>. QED
    BY <1>1, <1>5, <1>6, <1>7, <1>8

LEMMA SameChildren ==
  ASSUME NEW l, NEW r, NEW x, NEW y, _node(l, r) = _node(x, y)
  PROVE  l = x /\ r = y
BY Separated

LEMMA OneOrMore == \A n \in Nat \ {0} : (~(n > 1) => n = 1) /\ (n # 1 => n > 1)
  OBVIOUS

\* A proof that leads to the root of a tree weighs all its leaves but one.
LEMMA ProofSize ==
  ASSUME NEW d, NEW x \in Nat, NEW n \in Nat, NEW p, NEW w, Weighs(p, w), NEW level, LeafLevel(level),
         _root_from_proof(_leaf(d), x, p, n) = _mth(level)
  PROVE  Len(level) = w[Len(p)] + 1
  <1>. DEFINE T == {m \in Nat : \A q, u, s : \A i, o \in Nat :
                      Weighs(q, u) /\ Len(q) <= m /\ LeafLevel(s) /\ _root_from_proof(_leaf(d), i, q, o) = _mth(s)
                        => Len(s) = u[Len(q)] + 1}
  <1>l. \A q, u : Weighs(q, u) => q \in Seq(Range(q)) /\ Len(q) \in Nat /\ (Len(q) = 0 <=> q = <<>>) /\ u[0] = 0
    BY DEF Weighs
  <1>e. ASSUME NEW q, NEW u, NEW s, NEW i \in Nat, NEW o \in Nat, Weighs(q, u), LeafLevel(s), i >= o \/ o = 1 \/ q = <<>>,
               _root_from_proof(_leaf(d), i, q, o) = _mth(s)
        PROVE  Len(s) = u[Len(q)] + 1
    <2>1. _mth(s) # Raises /\ Len(s) \in Nat \ {0}
      BY <1>e, LeafRoots
    <2>2. _mth(s) = _leaf(d) /\ q = <<>>
      BY <1>e, <1>l, <2>1, RootDef
    <2>3. Len(s) = 1
      <3>1. Len(s) > 1 => _mth(s) = _node(_mth(Left(s)), _mth(Right(s)))
        BY <1>e, LeafRoots
      <3>2. ~(Len(s) > 1)
        BY <2>2, <3>1, Separated
      <3>. QED
        BY <2>1, <3>2, OneOrMore
    <2>4. Len(q) = 0 /\ u[0] = 0
      BY <1>e, <1>l, <2>2
    <2>. QED
      BY <2>3, <2>4
  <1>1. 0 \in T
    <2>. SUFFICES ASSUME NEW q, NEW u, NEW s, NEW i \in Nat, NEW o \in Nat, Weighs(q, u), Len(q) <= 0,
                         LeafLevel(s), _root_from_proof(_leaf(d), i, q, o) = _mth(s)
                  PROVE  Len(s) = u[Len(q)] + 1
      OBVIOUS
    <2>1. q = <<>>
      BY <1>l
    <2>. QED
      BY <1>e, <2>1
  <1>2. ASSUME NEW m \in Nat, m \in T PROVE m + 1 \in T
    <2>. SUFFICES ASSUME NEW q, NEW u, NEW s, NEW i \in Nat, NEW o \in Nat, Weighs(q, u), Len(q) <= m + 1,
                         LeafLevel(s), _root_from_proof(_leaf(d), i, q, o) = _mth(s),
                         ~(i >= o) /\ o # 1 /\ q # <<>>
                  PROVE  Len(s) = u[Len(q)] + 1
      <3>1. \A q, u, s : \A i, o \in Nat :
              Weighs(q, u) /\ LeafLevel(s) /\ (i >= o \/ o = 1 \/ q = <<>>)
                /\ _root_from_proof(_leaf(d), i, q, o) = _mth(s) => Len(s) = u[Len(q)] + 1
        BY <1>e
      <3>. QED
        BY <3>1
    <2>0. \A z, v, r : \A j, y \in Nat :
            Weighs(z, v) /\ Len(z) <= m /\ LeafLevel(r) /\ _root_from_proof(_leaf(d), j, z, y) = _mth(r)
              => Len(r) = v[Len(z)] + 1
      BY <1>2
    <2>1. PICK c \in Nat \ {0} : c = Len(q) /\ c <= m + 1
      BY <1>l
    <2>2. PICK k \in 1 .. o - 1 : k = _split(o)
      <3>1. o > 1
        OBVIOUS
      <3>. QED
        BY <3>1, SplitInside
    <2>3. q \in Seq(Range(q)) /\ Len(Front(q)) = c - 1 /\ Len(Tail(q)) = c - 1
      BY <1>l, <2>1, ShorterProof
    <2>4. _mth(s) = IF i < k THEN _node(_root_from_proof(_leaf(d), i, Front(q), k), Last(q))
                    ELSE _node(Head(q), _root_from_proof(_leaf(d), i - k, Tail(q), o - k))
      BY <2>2, <2>3, RootDef
    <2>5. PICK n_ \in Nat : n_ = Len(s) /\ n_ > 1
      <3>1. \A l, r : _mth(s) = _node(l, r) => Len(s) # 1
        BY LeafRoots, Separated
      <3>2. Len(s) \in Nat \ {0} /\ Len(s) # 1
        BY <2>4, <3>1, LeafRoots
      <3>. QED
        BY <3>2, OneOrMore
    <2>6. _mth(s) = _node(_mth(Left(s)), _mth(Right(s)))
      BY <2>5, LeafRoots
    <2>7. PICK h \in 1 .. n_ - 1 : /\ LeafLevel(Left(s)) /\ Len(Left(s)) = h
                                   /\ LeafLevel(Right(s)) /\ Len(Right(s)) = n_ - h
      BY <2>5, LeafHalves
    <2>8. CASE i < k
      <3>1. _root_from_proof(_leaf(d), i, Front(q), k) = _mth(Left(s)) /\ Last(q) = _mth(Right(s))
        <4>1. _node(_root_from_proof(_leaf(d), i, Front(q), k), Last(q)) = _node(_mth(Left(s)), _mth(Right(s)))
          BY <2>4, <2>6, <2>8
        <4>. QED
          BY <4>1, SameChildren
      <3>2. PICK v : Weighs(Front(q), v) /\ v[Len(Front(q))] = u[Len(q) - 1]
        BY WeighsShorter
      <3>3. PICK r : LeafLevel(r) /\ Last(q) = _mth(r) /\ u[Len(q)] = u[Len(q) - 1] + Len(r)
        BY WeighsShorter
      <3>4. Len(r) = n_ - h
        BY <2>7, <3>1, <3>3, RootsTellTheSize
      <3>5. Len(Front(q)) <= m /\ k \in Nat
        BY <2>1, <2>3
      <3>6. h = v[Len(Front(q))] + 1
        <4>1. LeafLevel(Left(s)) /\ Len(Left(s)) = h
          BY <2>7
        <4>2. Len(Left(s)) = v[Len(Front(q))] + 1
          BY <2>0, <3>1, <3>2, <3>5, <4>1
        <4>. QED
          BY <4>1, <4>2
      <3>7. u[c - 1] \in Int
        <4>1. u \in [0 .. c -> Int]
          BY <2>1 DEF Weighs
        <4>. QED
          BY <4>1
      <3>8. h = u[c - 1] + 1 /\ u[c] = u[c - 1] + (n_ - h)
        BY <2>1, <3>2, <3>3, <3>4, <3>6
      <3>9. n_ = u[c] + 1
        <4>1. PICK a \in Int : a = u[c - 1]
          BY <3>7
        <4>2. h = a + 1 /\ u[c] = a + (n_ - h)
          BY <3>8, <4>1
        <4>. QED
          BY <4>2
      <3>. QED
        BY <2>1, <2>5, <3>9
    <2>9. CASE ~(i < k)
      <3>1. Head(q) = _mth(Left(s)) /\ _root_from_proof(_leaf(d), i - k, Tail(q), o - k) = _mth(Right(s))
        <4>1. _node(Head(q), _root_from_proof(_leaf(d), i - k, Tail(q), o - k)) = _node(_mth(Left(s)), _mth(Right(s)))
          BY <2>4, <2>6, <2>9
        <4>. QED
          BY <4>1, SameChildren
      <3>2. PICK v : Weighs(Tail(q), v) /\ v[Len(Tail(q))] = u[Len(q)] - u[1]
        BY WeighsShorter
      <3>3. PICK r : LeafLevel(r) /\ Head(q) = _mth(r) /\ u[1] = Len(r)
        BY WeighsShorter
      <3>4. Len(r) = h
        BY <2>7, <3>1, <3>3, RootsTellTheSize
      <3>5. Len(Tail(q)) <= m /\ i - k \in Nat /\ o - k \in Nat
        BY <2>1, <2>3, <2>9
      <3>6. n_ - h = v[Len(Tail(q))] + 1
        BY <2>0, <2>7, <3>1, <3>2, <3>5
      <3>7. u[c] \in Int
        <4>1. u \in [0 .. c -> Int]
          BY <2>1 DEF Weighs
        <4>. QED
          BY <4>1
      <3>8. n_ - h = (u[c] - h) + 1
        BY <2>1, <3>2, <3>3, <3>4, <3>6
      <3>9. n_ = u[c] + 1
        BY <3>7, <3>8
      <3>. QED
        BY <2>1, <2>5, <3>9
    <2>. QED
      BY <2>8, <2>9
  <1>. HIDE DEF T
  <1>3. Len(p) \in T
    BY <1>l, <1>1, <1>2, InductionOnHeight
  <1>4. Len(p) <= Len(p)
    BY <1>l
  <1>. QED
    BY <1>3, <1>4 DEF T

LEMMA HalvesOf ==
  ASSUME NEW s, LeafLevel(s), NEW n \in Nat \ {0}, n = Len(s), n > 1, NEW k, k = _split(n)
  PROVE  /\ k \in 1 .. n - 1
         /\ LeafLevel(Left(s)) /\ Len(Left(s)) = k
         /\ LeafLevel(Right(s)) /\ Len(Right(s)) = n - k
         /\ \A i \in 1 .. k : Left(s)[i] = s[i]
         /\ \A i \in 1 .. n - k : Right(s)[i] = s[k + i]
BY LeafHalves

LEMMA AuditOfOne ==
  ASSUME NEW s, LeafLevel(s), Len(s) = 1, NEW i \in Nat, i < 1
  PROVE  _audit_path(s, i) = <<>> /\ i = 0
  <1>1. Level(s) /\ i < Len(s)
    BY DEF LeafLevel
  <1>2. _audit_path(s, i) = <<>>
    BY <1>1, AuditDef
  <1>. QED
    BY <1>2

LEMMA AuditOfMore ==
  ASSUME NEW s, LeafLevel(s), NEW n \in Nat \ {0}, n = Len(s), n > 1, NEW k, k = _split(n), NEW i \in Nat, i < n
  PROVE  /\ i < k => _audit_path(s, i) = Append(_audit_path(Left(s), i), _mth(Right(s)))
         /\ ~(i < k) => _audit_path(s, i) = FromTheLeft(_mth(Left(s)), _audit_path(Right(s), i - k))
  <1>1. Level(s) /\ i < Len(s) /\ Len(s) > 1 /\ k = _split(Len(s))
    BY DEF LeafLevel
  <1>. QED
    BY <1>1, AuditDef

LEMMA RootOfNothing ==
  ASSUME NEW leaf, NEW i \in Nat, NEW n \in Nat
  PROVE  /\ _root_from_proof(leaf, i, <<>>, n) \in {Raises, leaf}
         /\ i = 0 /\ n = 1 => _root_from_proof(leaf, i, <<>>, n) = leaf
  <1>1. <<>> \in Seq(Range(<<>>))
    OBVIOUS
  <1>2. PICK p : p = <<>> /\ p \in Seq(Range(p))
    BY <1>1
  <1>3. _root_from_proof(leaf, i, p, n) = IF i >= n THEN Raises ELSE IF n = 1 THEN leaf ELSE Raises
    BY <1>2, RootDef
  <1>. QED
    BY <1>2, <1>3

LEMMA RootOfMore ==
  ASSUME NEW leaf, NEW i \in Nat, NEW n \in Nat, i < n, n # 1, NEW p, p \in Seq(Range(p)), p # <<>>,
         NEW k, k = _split(n)
  PROVE  /\ i < k => _root_from_proof(leaf, i, p, n) = _node(_root_from_proof(leaf, i, Front(p), k), Last(p))
         /\ ~(i < k) => _root_from_proof(leaf, i, p, n) = _node(Head(p), _root_from_proof(leaf, i - k, Tail(p), n - k))
  <1>1. ~(i >= n)
    OBVIOUS
  <1>. QED
    BY <1>1, RootDef

\* The path _audit_path gives for an index leads _root_from_proof from the leaf there to the
\* root _mth computes, for trees of every size.
THEOREM AuditPathsLead ==
  ASSUME NEW level, LeafLevel(level), NEW x \in Nat, x < Len(level)
  PROVE  _root_from_proof(level[x + 1], x, _audit_path(level, x), Len(level)) = _mth(level)
  <1>. DEFINE T == {m \in Nat : \A s : LeafLevel(s) /\ Len(s) <= m => \A i \in Nat : i < Len(s) =>
                      _root_from_proof(s[i + 1], i, _audit_path(s, i), Len(s)) = _mth(s)}
  <1>0. \A s : LeafLevel(s) => Len(s) \in Nat \ {0} /\ Level(s)
    BY LeafRoots DEF LeafLevel
  <1>p. ASSUME NEW s, NEW i \in Nat, LeafLevel(s), i < Len(s) PROVE _audit_path(s, i) \in Seq(Range(_audit_path(s, i)))
    BY <1>p, AuditWeighs DEF Weighs
  <1>1. 0 \in T
    BY <1>0
  <1>2. ASSUME NEW m \in Nat, m \in T PROVE m + 1 \in T
    <2>. SUFFICES ASSUME NEW s, LeafLevel(s), Len(s) <= m + 1, NEW i \in Nat, i < Len(s)
                  PROVE  _root_from_proof(s[i + 1], i, _audit_path(s, i), Len(s)) = _mth(s)
      OBVIOUS
    <2>a. \A r : LeafLevel(r) /\ Len(r) <= m => \A j \in Nat : j < Len(r) =>
            _root_from_proof(r[j + 1], j, _audit_path(r, j), Len(r)) = _mth(r)
      BY <1>2
    <2>1. PICK n \in Nat \ {0} : n = Len(s) /\ i < n /\ n <= m + 1
      BY <1>0
    <2>2. CASE n = 1
      <3>1. _audit_path(s, i) = <<>> /\ i = 0
        BY <2>1, <2>2, AuditOfOne
      <3>2. _mth(s) = s[1]
        BY <2>1, <2>2, LeafRoots
      <3>3. _root_from_proof(s[i + 1], i, <<>>, n) = s[i + 1]
        BY <2>2, <3>1, RootOfNothing
      <3>4. i + 1 = 1
        BY <3>1
      <3>. QED
        BY <2>1, <3>1, <3>2, <3>3, <3>4
    <2>3. CASE n > 1
      <3>1. PICK k : k = _split(n)
        OBVIOUS
      <3>2. /\ k \in 1 .. n - 1
            /\ LeafLevel(Left(s)) /\ Len(Left(s)) = k
            /\ LeafLevel(Right(s)) /\ Len(Right(s)) = n - k
            /\ \A j \in 1 .. k : Left(s)[j] = s[j]
            /\ \A j \in 1 .. n - k : Right(s)[j] = s[k + j]
        BY <2>1, <2>3, <3>1, HalvesOf
      <3>3. k \in Nat /\ n - k \in Nat /\ k <= m /\ n - k <= m /\ ~(i >= n) /\ n # 1
        BY <2>1, <2>3, <3>2
      <3>4. _mth(s) = _node(_mth(Left(s)), _mth(Right(s)))
        BY <2>1, <2>3, LeafRoots
      <3>5. CASE i < k
        <4>1. PICK p : p = _audit_path(Left(s), i) /\ p \in Seq(Range(p))
          BY <1>p, <3>2, <3>5
        <4>2. PICK e : e = _mth(Right(s))
          OBVIOUS
        <4>3. _audit_path(s, i) = Append(p, e)
          BY <2>1, <2>3, <3>1, <3>5, <4>1, <4>2, AuditOfMore
        <4>4. /\ Append(p, e) \in Seq(Range(Append(p, e))) /\ Append(p, e) # <<>>
              /\ Front(Append(p, e)) = p /\ Last(Append(p, e)) = e
          BY <4>1, EndsOfAProof
        <4>5. _root_from_proof(s[i + 1], i, Append(p, e), n) = _node(_root_from_proof(s[i + 1], i, p, k), e)
          <5>1. PICK q : q = Append(p, e)
            OBVIOUS
          <5>2. q \in Seq(Range(q)) /\ q # <<>> /\ Front(q) = p /\ Last(q) = e
            BY <4>4, <5>1
          <5>3. i < n /\ n # 1 /\ n \in Nat
            BY <2>1, <3>3
          <5>4. _root_from_proof(s[i + 1], i, q, n) = _node(_root_from_proof(s[i + 1], i, Front(q), k), Last(q))
            BY <3>1, <3>5, <5>2, <5>3, RootOfMore
          <5>. QED
            BY <5>1, <5>2, <5>4
        <4>6. Left(s)[i + 1] = s[i + 1]
          <5>1. i + 1 \in 1 .. k
            BY <3>3, <3>5
          <5>. QED
            BY <3>2, <5>1
        <4>7. _root_from_proof(s[i + 1], i, p, k) = _mth(Left(s))
          BY <2>a, <3>2, <3>3, <3>5, <4>1, <4>6
        <4>. QED
          BY <2>1, <3>4, <4>2, <4>3, <4>5, <4>7
      <3>6. CASE ~(i < k)
        <4>a. i - k \in Nat /\ i - k < n - k
          BY <2>1, <3>3, <3>6
        <4>1. PICK p : p = _audit_path(Right(s), i - k) /\ p \in Seq(Range(p))
          BY <1>p, <3>2, <4>a
        <4>2. PICK e : e = _mth(Left(s))
          OBVIOUS
        <4>3. _audit_path(s, i) = FromTheLeft(e, p)
          BY <2>1, <2>3, <3>1, <3>6, <4>1, <4>2, AuditOfMore
        <4>4. PICK q : /\ q = FromTheLeft(e, p) /\ q \in Seq(Range(q)) /\ q # <<>>
                       /\ Head(q) = e /\ Tail(q) = p
          BY <4>1, EndsOfAProof
        <4>5. _root_from_proof(s[i + 1], i, q, n) = _node(e, _root_from_proof(s[i + 1], i - k, p, n - k))
          <5>3. i < n /\ n # 1 /\ n \in Nat
            BY <2>1, <3>3
          <5>4. _root_from_proof(s[i + 1], i, q, n) = _node(Head(q), _root_from_proof(s[i + 1], i - k, Tail(q), n - k))
            BY <3>1, <3>6, <4>4, <5>3, RootOfMore
          <5>. QED
            BY <4>4, <5>4
        <4>6. Right(s)[(i - k) + 1] = s[i + 1]
          <5>1. (i - k) + 1 \in 1 .. n - k /\ k + ((i - k) + 1) = i + 1
            BY <3>3, <4>a
          <5>. QED
            BY <3>2, <5>1
        <4>7. _root_from_proof(s[i + 1], i - k, p, n - k) = _mth(Right(s))
          BY <2>a, <3>2, <3>3, <4>a, <4>1, <4>6
        <4>. QED
          BY <2>1, <3>4, <4>2, <4>3, <4>4, <4>5, <4>7
      <3>. QED
        BY <3>5, <3>6
    <2>. QED
      BY <2>1, <2>2, <2>3
  <1>. HIDE DEF T
  <1>3. Len(level) \in T
    BY <1>0, <1>1, <1>2, InductionOnHeight
  <1>4. Len(level) <= Len(level)
    BY <1>0
  <1>. QED
    BY <1>3, <1>4 DEF T

\* Where _root_from_proof comes from a leaf along an audit path to the root of its tree, it
\* comes from the leaf the path was computed for, whatever index and size are claimed.
THEOREM AuditPathsAreExact ==
  ASSUME NEW level, LeafLevel(level), NEW x \in Nat, x < Len(level), NEW d, NEW i \in Nat, NEW n \in Nat,
         _root_from_proof(_leaf(d), i, _audit_path(level, x), n) = _mth(level)
  PROVE  level[x + 1] = _leaf(d)
  <1>. DEFINE T == {m \in Nat : \A s : LeafLevel(s) /\ Len(s) <= m => \A y, j, o \in Nat :
                      y < Len(s) /\ _root_from_proof(_leaf(d), j, _audit_path(s, y), o) = _mth(s) => s[y + 1] = _leaf(d)}
  <1>0. \A s : LeafLevel(s) => Len(s) \in Nat \ {0} /\ Level(s)
    BY LeafRoots DEF LeafLevel
  <1>p. ASSUME NEW s, NEW y \in Nat, LeafLevel(s), y < Len(s)
        PROVE  _audit_path(s, y) \in Seq(Range(_audit_path(s, y)))
    BY <1>p, AuditWeighs DEF Weighs
  <1>r. \A s : LeafLevel(s) => _mth(s) # Raises
    BY LeafRoots
  <1>1. 0 \in T
    BY <1>0
  <1>2. ASSUME NEW m \in Nat, m \in T PROVE m + 1 \in T
    <2>. SUFFICES ASSUME NEW s, LeafLevel(s), Len(s) <= m + 1, NEW y \in Nat, NEW j \in Nat, NEW o \in Nat, y < Len(s),
                         _root_from_proof(_leaf(d), j, _audit_path(s, y), o) = _mth(s)
                  PROVE  s[y + 1] = _leaf(d)
      OBVIOUS
    <2>a. \A r : LeafLevel(r) /\ Len(r) <= m => \A z, g, h \in Nat :
            z < Len(r) /\ _root_from_proof(_leaf(d), g, _audit_path(r, z), h) = _mth(r) => r[z + 1] = _leaf(d)
      BY <1>2
    <2>1. PICK c \in Nat \ {0} : c = Len(s) /\ y < c /\ c <= m + 1
      BY <1>0
    <2>b. ~(j >= o)
      BY <1>p, <1>r, RootDef
    <2>2. CASE c = 1
      <3>1. _audit_path(s, y) = <<>> /\ y = 0
        BY <2>1, <2>2, AuditOfOne
      <3>2. _root_from_proof(_leaf(d), j, <<>>, o) \in {Raises, _leaf(d)}
        BY RootOfNothing
      <3>3. _mth(s) = _leaf(d)
        BY <1>r, <3>1, <3>2
      <3>4. _mth(s) = s[1]
        BY <2>1, <2>2, LeafRoots
      <3>5. y + 1 = 1
        BY <3>1
      <3>. QED
        BY <3>3, <3>4, <3>5
    <2>3. CASE c > 1
      <3>1. PICK k : k = _split(c)
        OBVIOUS
      <3>2. /\ k \in 1 .. c - 1
            /\ LeafLevel(Left(s)) /\ Len(Left(s)) = k
            /\ LeafLevel(Right(s)) /\ Len(Right(s)) = c - k
            /\ \A l \in 1 .. k : Left(s)[l] = s[l]
            /\ \A l \in 1 .. c - k : Right(s)[l] = s[k + l]
        <4>1. LeafLevel(s) /\ c \in Nat \ {0} /\ c = Len(s) /\ c > 1
          BY <2>1, <2>3
        <4>. QED
          <5>1. k \in 1 .. c - 1 /\ LeafLevel(Left(s)) /\ Len(Left(s)) = k
            BY <3>1, <4>1, HalvesOf
          <5>2. LeafLevel(Right(s)) /\ Len(Right(s)) = c - k
            BY <3>1, <4>1, HalvesOf
          <5>3. \A l \in 1 .. k : Left(s)[l] = s[l]
            BY <3>1, <4>1, HalvesOf
          <5>4. \A l \in 1 .. c - k : Right(s)[l] = s[k + l]
            BY <3>1, <4>1, HalvesOf
          <5>. QED
            BY <5>1, <5>2, <5>3, <5>4
      <3>3. k \in Nat /\ c - k \in Nat /\ k <= m /\ c - k <= m
        BY <2>1, <3>2
      <3>4. _mth(s) = _node(_mth(Left(s)), _mth(Right(s)))
        BY <2>1, <2>3, LeafRoots
      <3>5. PICK q : q = _audit_path(s, y) /\ q \in Seq(Range(q))
        BY <1>p
      <3>6. q # <<>> /\ o # 1
        <4>1. \A w : Weighs(q, w) => w[0] = 0
          BY DEF Weighs
        <4>2. PICK w : Weighs(q, w) /\ w[Len(q)] = c - 1
          BY <2>1, <3>5, AuditWeighs
        <4>3. q # <<>>
          BY <2>3, <4>1, <4>2
        <4>. QED
          BY <1>r, <2>b, <3>5, <4>3, RootDef
      <3>7. PICK h \in 1 .. o - 1 : h = _split(o)
        <4>1. o > 1
          BY <2>b, <3>6
        <4>. QED
          BY <4>1, SplitInside
      <3>x. j < o
        BY <2>b
      <3>8. _mth(s) = IF j < h THEN _node(_root_from_proof(_leaf(d), j, Front(q), h), Last(q))
                      ELSE _node(Head(q), _root_from_proof(_leaf(d), j - h, Tail(q), o - h))
        BY <3>x, <3>5, <3>6, <3>7, RootOfMore
      <3>9. j < h => _root_from_proof(_leaf(d), j, Front(q), h) = _mth(Left(s)) /\ Last(q) = _mth(Right(s))
        <4>. SUFFICES ASSUME j < h PROVE _root_from_proof(_leaf(d), j, Front(q), h) = _mth(Left(s)) /\ Last(q) = _mth(Right(s))
          OBVIOUS
        <4>1. _node(_root_from_proof(_leaf(d), j, Front(q), h), Last(q)) = _node(_mth(Left(s)), _mth(Right(s)))
          BY <3>4, <3>8
        <4>. QED
          BY <4>1, SameChildren
      <3>10. ~(j < h) => Head(q) = _mth(Left(s)) /\ _root_from_proof(_leaf(d), j - h, Tail(q), o - h) = _mth(Right(s))
        <4>. SUFFICES ASSUME ~(j < h)
                      PROVE  Head(q) = _mth(Left(s)) /\ _root_from_proof(_leaf(d), j - h, Tail(q), o - h) = _mth(Right(s))
          OBVIOUS
        <4>1. _node(Head(q), _root_from_proof(_leaf(d), j - h, Tail(q), o - h)) = _node(_mth(Left(s)), _mth(Right(s)))
          BY <3>4, <3>8
        <4>. QED
          BY <4>1, SameChildren
      <3>11. h \in Nat /\ o - h \in Nat /\ (~(j < h) => j - h \in Nat)
        BY <3>7
      <3>12. CASE y < k
        <4>1. PICK p : p = _audit_path(Left(s), y) /\ p \in Seq(Range(p))
          BY <1>p, <3>2, <3>12
        <4>2. PICK e : e = _mth(Right(s))
          OBVIOUS
        <4>3. q = Append(p, e)
          BY <2>1, <2>3, <3>1, <3>5, <3>12, <4>1, <4>2, AuditOfMore
        <4>4. Front(q) = p /\ Last(q) = e
          BY <4>1, <4>3, EndsOfAProof
        <4>5. Left(s)[y + 1] = s[y + 1]
          <5>1. y + 1 \in 1 .. k
            BY <3>3, <3>12
          <5>. QED
            BY <3>2, <5>1
        <4>6. CASE j < h
          <5>1. _root_from_proof(_leaf(d), j, p, h) = _mth(Left(s))
            BY <3>9, <4>4, <4>6
          <5>2. Left(s)[y + 1] = _leaf(d)
            <6>1. LeafLevel(Left(s)) /\ Len(Left(s)) <= m /\ y < Len(Left(s))
              BY <3>2, <3>3, <3>12
            <6>2. _root_from_proof(_leaf(d), j, _audit_path(Left(s), y), h) = _mth(Left(s)) /\ h \in Nat
              BY <3>11, <4>1, <5>1
            <6>. QED
              BY <2>a, <6>1, <6>2
          <5>. QED
            BY <4>5, <5>2
        <4>7. CASE ~(j < h)
          \* The first node is the left tree: the path within it is empty, and both
          \* trees are one leaf.
          <5>1. Head(q) = _mth(Left(s))
            BY <3>10, <4>7
          <5>2. p = <<>>
            <6>1. PICK w : Weighs(p, w) /\ \A l \in 1 .. Len(p) : w[l] < w[l - 1] + k
              BY <3>2, <3>12, <4>1, AuditWeighs
            <6>. SUFFICES ASSUME p # <<>> PROVE FALSE
              OBVIOUS
            <6>2. PICK r : LeafLevel(r) /\ Head(p) = _mth(r) /\ w[1] = Len(r)
              BY <6>1, WeighsShorter
            <6>3. Head(q) = Head(p)
              <7>1. Len(p) \in Nat \ {0} /\ Head(p) = p[1]
                BY <4>1
              <7>2. q \in Seq(Range(q)) /\ q # <<>> /\ q[1] = p[1]
                BY <3>5, <3>6, <4>1, <4>3, <7>1
              <7>. QED
                BY <7>1, <7>2
            <6>4. Len(r) = k
              BY <3>2, <5>1, <6>2, <6>3, RootsTellTheSize
            <6>5. w[1] < w[0] + k /\ w[0] = 0
              <7>1. 1 \in 1 .. Len(p) /\ 1 - 1 = 0
                BY <4>1
              <7>. QED
                BY <6>1, <7>1 DEF Weighs
            <6>. QED
              BY <3>3, <6>2, <6>4, <6>5
          <5>3. Head(q) = e
            BY <4>3, <5>2
          <5>4. k = 1 /\ y = 0
            <6>1. PICK w : Weighs(p, w) /\ w[Len(p)] = k - 1
              BY <3>2, <3>12, <4>1, AuditWeighs
            <6>2. w[0] = 0
              BY <6>1 DEF Weighs
            <6>3. k - 1 = 0
              BY <5>2, <6>1, <6>2
            <6>. QED
              BY <3>3, <3>12, <6>3
          <5>5. c - k = 1
            BY <3>2, <4>2, <5>1, <5>3, <5>4, RootsTellTheSize
          <5>6. _root_from_proof(_leaf(d), j - h, Tail(q), o - h) = _mth(Right(s))
            BY <3>10, <4>7
          <5>7. Tail(q) = <<>>
            BY <4>3, <5>2
          <5>8. _mth(Right(s)) = _leaf(d)
            <6>2. j - h \in Nat /\ o - h \in Nat
              BY <3>11, <4>7
            <6>3. _root_from_proof(_leaf(d), j - h, <<>>, o - h) \in {Raises, _leaf(d)}
              BY <6>2, RootOfNothing
            <6>. QED
              BY <1>r, <3>2, <5>6, <5>7, <6>3
          <5>9. _mth(Left(s)) = Left(s)[1]
            BY <3>2, <5>4, LeafRoots
          <5>. QED
            BY <4>2, <4>5, <5>1, <5>3, <5>4, <5>8, <5>9
        <4>. QED
          BY <4>6, <4>7
      <3>13. CASE ~(y < k)
        <4>a. y - k \in Nat /\ y - k < c - k
          BY <2>1, <3>3, <3>13
        <4>1. PICK p : p = _audit_path(Right(s), y - k) /\ p \in Seq(Range(p))
          BY <1>p, <3>2, <4>a
        <4>2. PICK e : e = _mth(Left(s))
          OBVIOUS
        <4>3. q = FromTheLeft(e, p)
          <5>1. c \in Nat \ {0} /\ c = Len(s) /\ c > 1 /\ y < c
            BY <2>1, <2>3
          <5>2. _audit_path(s, y) = FromTheLeft(_mth(Left(s)), _audit_path(Right(s), y - k))
            BY <3>1, <3>13, <5>1, AuditOfMore
          <5>. QED
            BY <3>5, <4>1, <4>2, <5>2
        <4>4. Head(q) = e /\ Tail(q) = p /\ \A l \in 1 .. Len(p) : q[l + 1] = p[l]
          <5>1. Head(q) = e /\ Tail(q) = p
            BY <4>1, <4>3, EndsOfAProof
          <5>2. \A l \in 1 .. Len(p) : q[l + 1] = p[l]
            <6>1. \A l \in 1 .. Len(p) : FromTheLeft(e, p)[l + 1] = p[l]
              BY <4>1, EndsOfAProof
            <6>. QED
              BY <4>3, <6>1
          <5>. QED
            BY <5>1, <5>2
        <4>w. \E w : /\ Weighs(p, w) /\ w[Len(p)] = (c - k) - 1
                      /\ \A l \in 1 .. Len(p) : w[l] < w[l - 1] + (c - k)
          <5>1. LeafLevel(Right(s)) /\ y - k \in Nat /\ y - k < Len(Right(s)) /\ Len(Right(s)) = c - k
            BY <3>2, <4>a
          <5>2. \E w : /\ Weighs(p, w) /\ w[Len(p)] = Len(Right(s)) - 1
                       /\ \A l \in 1 .. Len(p) : w[l] < w[l - 1] + Len(Right(s))
            BY <4>1, <5>1, AuditWeighs
          <5>. QED
            BY <5>1, <5>2
        <4>b. Len(q) = Len(p) + 1
          BY <4>1, <4>3, EndsOfAProof
        <4>5. Right(s)[(y - k) + 1] = s[y + 1]
          <5>1. (y - k) + 1 \in 1 .. c - k /\ k + ((y - k) + 1) = y + 1
            BY <3>3, <4>a
          <5>. QED
            BY <3>2, <5>1
        <4>6. CASE ~(j < h)
          <5>1. _root_from_proof(_leaf(d), j - h, p, o - h) = _mth(Right(s))
            BY <3>10, <4>4, <4>6
          <5>2. Right(s)[(y - k) + 1] = _leaf(d)
            <6>1. j - h \in Nat /\ o - h \in Nat
              BY <3>11, <4>6
            <6>2. LeafLevel(Right(s)) /\ Len(Right(s)) <= m /\ y - k < Len(Right(s)) /\ y - k \in Nat
              BY <3>2, <3>3, <4>a
            <6>3. _root_from_proof(_leaf(d), j - h, _audit_path(Right(s), y - k), o - h) = _mth(Right(s))
              BY <4>1, <5>1
            <6>. QED
              BY <2>a, <6>1, <6>2, <6>3
          <5>. QED
            BY <4>5, <5>2
        <4>7. CASE j < h
          <5>1. Last(q) = _mth(Right(s))
            BY <3>9, <4>7
          <5>2. p = <<>>
            <6>1. PICK w : Weighs(p, w) /\ \A l \in 1 .. Len(p) : w[l] < w[l - 1] + (c - k)
              BY <4>w
            <6>. SUFFICES ASSUME p # <<>> PROVE FALSE
              OBVIOUS
            <6>2. PICK r : LeafLevel(r) /\ Last(p) = _mth(r) /\ w[Len(p)] = w[Len(p) - 1] + Len(r)
              BY <6>1, WeighsShorter
            <6>3. PICK g \in Nat \ {0} : g = Len(p)
              BY <4>1
            <6>4. Last(q) = Last(p)
              BY <4>4, <4>b, <6>3 DEF Last
            <6>5. Len(r) = c - k
              BY <3>2, <5>1, <6>2, <6>4, RootsTellTheSize
            <6>6. w[g] < w[g - 1] + (c - k) /\ w[g] = w[g - 1] + (c - k)
              BY <6>1, <6>2, <6>3, <6>5
            <6>7. w \in [0 .. g -> Int]
              BY <6>1, <6>3 DEF Weighs
            <6>8. PICK a \in Int : a = w[g - 1]
              BY <6>7
            <6>. QED
              BY <3>3, <6>6, <6>8
          <5>3. Last(q) = e /\ Front(q) = <<>>
            <6>1. q = <<e>>
              BY <4>3, <5>2 DEF FromTheLeft
            <6>. QED
              BY <6>1 DEF Last, Front
          <5>4. c - k = 1 /\ y = k
            <6>1. PICK w : Weighs(p, w) /\ w[Len(p)] = (c - k) - 1
              BY <4>w
            <6>2. w[0] = 0
              BY <6>1 DEF Weighs
            <6>3. (c - k) - 1 = 0
              BY <5>2, <6>1, <6>2
            <6>. QED
              BY <3>3, <4>a, <6>3
          <5>5. k = 1
            BY <3>2, <4>2, <5>1, <5>3, <5>4, RootsTellTheSize
          <5>6. _root_from_proof(_leaf(d), j, Front(q), h) = _mth(Left(s))
            BY <3>9, <4>7
          <5>8. _mth(Left(s)) = _leaf(d)
            <6>3. _root_from_proof(_leaf(d), j, <<>>, h) \in {Raises, _leaf(d)}
              BY <3>11, RootOfNothing
            <6>. QED
              BY <1>r, <3>2, <5>3, <5>6, <6>3
          <5>9. _mth(Right(s)) = Right(s)[1]
            BY <3>2, <5>4, LeafRoots
          <5>10. (y - k) + 1 = 1
            BY <3>3, <5>4
          <5>. QED
            BY <4>2, <4>5, <5>1, <5>3, <5>8, <5>9, <5>10
        <4>. QED
          BY <4>6, <4>7
      <3>. QED
        BY <3>12, <3>13
    <2>. QED
      BY <2>1, <2>2, <2>3
  <1>. HIDE DEF T
  <1>3. Len(level) \in T
    BY <1>0, <1>1, <1>2, InductionOnHeight
  <1>4. Len(level) <= Len(level)
    BY <1>0
  <1>. QED
    BY <1>3, <1>4 DEF T

\* What a verifier may rely on: with the size of the tree, whatever proof leads
\* _root_from_proof from a leaf and an index to the root, the leaf is the one at this index.
THEOREM ProofsAreExact ==
  ASSUME NEW level, LeafLevel(level), NEW d, NEW i \in Nat, NEW p, p \in Seq(Range(p)),
         _root_from_proof(_leaf(d), i, p, Len(level)) = _mth(level)
  PROVE  i < Len(level) /\ level[i + 1] = _leaf(d)
  <1>. DEFINE T == {m \in Nat : \A s, q : \A j \in Nat :
                      LeafLevel(s) /\ Len(s) <= m /\ q \in Seq(Range(q)) /\ _root_from_proof(_leaf(d), j, q, Len(s)) = _mth(s)
                        => j < Len(s) /\ s[j + 1] = _leaf(d)}
  <1>0. \A s : LeafLevel(s) => Len(s) \in Nat \ {0} /\ _mth(s) # Raises
    BY LeafRoots
  <1>r. ASSUME NEW S, NEW q \in Seq(S) PROVE q \in Seq(Range(q))
    BY DEF Range
  <1>1. 0 \in T
    BY <1>0
  <1>2. ASSUME NEW m \in Nat, m \in T PROVE m + 1 \in T
    <2>. SUFFICES ASSUME NEW s, NEW q, NEW j \in Nat, LeafLevel(s), Len(s) <= m + 1, q \in Seq(Range(q)),
                         _root_from_proof(_leaf(d), j, q, Len(s)) = _mth(s)
                  PROVE  j < Len(s) /\ s[j + 1] = _leaf(d)
      OBVIOUS
    <2>a. \A r, o : \A g \in Nat :
            LeafLevel(r) /\ Len(r) <= m /\ o \in Seq(Range(o)) /\ _root_from_proof(_leaf(d), g, o, Len(r)) = _mth(r)
              => g < Len(r) /\ r[g + 1] = _leaf(d)
      BY <1>2
    <2>1. PICK n \in Nat \ {0} : n = Len(s) /\ n <= m + 1
      BY <1>0
    <2>2. _root_from_proof(_leaf(d), j, q, n) = _mth(s) /\ _mth(s) # Raises
      BY <1>0, <2>1
    <2>3. j < n
      <3>1. ~(j >= n)
        BY <2>2, RootDef
      <3>. QED
        BY <3>1
    <2>4. CASE n = 1
      <3>1. q = <<>>
        BY <2>2, <2>3, <2>4, RootDef
      <3>2. _root_from_proof(_leaf(d), j, <<>>, n) \in {Raises, _leaf(d)}
        BY RootOfNothing
      <3>3. _mth(s) = _leaf(d)
        BY <2>2, <3>1, <3>2
      <3>4. _mth(s) = s[1]
        BY <2>1, <2>4, LeafRoots
      <3>5. j + 1 = 1
        BY <2>3, <2>4
      <3>. QED
        BY <2>1, <2>3, <3>3, <3>4, <3>5
    <2>5. CASE n > 1
      <3>1. PICK k : k = _split(n)
        OBVIOUS
      <3>2. /\ k \in 1 .. n - 1
            /\ LeafLevel(Left(s)) /\ Len(Left(s)) = k
            /\ LeafLevel(Right(s)) /\ Len(Right(s)) = n - k
        BY <2>1, <2>5, <3>1, HalvesOf
      <3>3. /\ \A g \in 1 .. k : Left(s)[g] = s[g]
            /\ \A g \in 1 .. n - k : Right(s)[g] = s[k + g]
        <4>1. \A g \in 1 .. k : Left(s)[g] = s[g]
          BY <2>1, <2>5, <3>1, HalvesOf
        <4>2. \A g \in 1 .. n - k : Right(s)[g] = s[k + g]
          BY <2>1, <2>5, <3>1, HalvesOf
        <4>. QED
          BY <4>1, <4>2
      <3>4. k \in Nat /\ n - k \in Nat /\ k <= m /\ n - k <= m /\ n # 1
        BY <2>1, <2>5, <3>2
      <3>5. _mth(s) = _node(_mth(Left(s)), _mth(Right(s)))
        BY <2>1, <2>5, LeafRoots
      <3>6. q # <<>>
        BY <2>2, <2>3, <2>5, RootDef
      <3>7. CASE j < k
        <4>1. _root_from_proof(_leaf(d), j, q, n) = _node(_root_from_proof(_leaf(d), j, Front(q), k), Last(q))
          BY <2>3, <3>1, <3>4, <3>6, <3>7, RootOfMore
        <4>2. _root_from_proof(_leaf(d), j, Front(q), k) = _mth(Left(s))
          <5>1. _node(_root_from_proof(_leaf(d), j, Front(q), k), Last(q)) = _node(_mth(Left(s)), _mth(Right(s)))
            BY <2>2, <3>5, <4>1
          <5>. QED
            BY <5>1, SameChildren
        <4>3. Front(q) \in Seq(Range(Front(q)))
          <5>1. Front(q) \in Seq(Range(q))
            BY <3>6, ShorterProof
          <5>. QED
            BY <1>r, <5>1
        <4>4. Left(s)[j + 1] = _leaf(d)
          BY <2>a, <3>2, <3>4, <4>2, <4>3
        <4>5. j + 1 \in 1 .. k
          BY <3>4, <3>7
        <4>6. s[j + 1] = _leaf(d)
          BY <3>3, <4>4, <4>5
        <4>. QED
          BY <2>1, <2>3, <4>6
      <3>8. CASE ~(j < k)
        <4>a. j - k \in Nat
          BY <3>4, <3>8
        <4>1. _root_from_proof(_leaf(d), j, q, n) = _node(Head(q), _root_from_proof(_leaf(d), j - k, Tail(q), n - k))
          BY <2>3, <3>1, <3>4, <3>6, <3>8, RootOfMore
        <4>2. _root_from_proof(_leaf(d), j - k, Tail(q), n - k) = _mth(Right(s))
          <5>1. _node(Head(q), _root_from_proof(_leaf(d), j - k, Tail(q), n - k)) = _node(_mth(Left(s)), _mth(Right(s)))
            BY <2>2, <3>5, <4>1
          <5>. QED
            BY <5>1, SameChildren
        <4>3. Tail(q) \in Seq(Range(Tail(q)))
          <5>1. Tail(q) \in Seq(Range(q))
            BY <3>6, ShorterProof
          <5>. QED
            BY <1>r, <5>1
        <4>4. Right(s)[(j - k) + 1] = _leaf(d)
          BY <2>a, <3>2, <3>4, <4>a, <4>2, <4>3
        <4>5. (j - k) + 1 \in 1 .. n - k /\ k + ((j - k) + 1) = j + 1
          BY <2>3, <3>4, <4>a
        <4>6. s[j + 1] = _leaf(d)
          BY <3>3, <4>4, <4>5
        <4>. QED
          BY <2>1, <2>3, <4>6
      <3>. QED
        BY <3>7, <3>8
    <2>. QED
      BY <2>1, <2>4, <2>5
  <1>. HIDE DEF T
  <1>3. Len(level) \in T
    BY <1>0, <1>1, <1>2, InductionOnHeight
  <1>4. Len(level) <= Len(level)
    BY <1>0
  <1>. QED
    BY <1>3, <1>4 DEF T

\* What a verifier may rely on when nothing says that the size is the tree's: whatever index,
\* size and proof lead _root_from_proof from a leaf to the root of a tree, the leaf is in it.
THEOREM ProofsStayInside ==
  ASSUME NEW level, LeafLevel(level), NEW d, NEW i \in Nat, NEW n \in Nat, NEW p, p \in Seq(Range(p)),
         _root_from_proof(_leaf(d), i, p, n) = _mth(level)
  PROVE  \E k \in 1 .. Len(level) : level[k] = _leaf(d)
  <1>. DEFINE T == {m \in Nat : \A s, q : \A j, o \in Nat :
                      LeafLevel(s) /\ Len(s) <= m /\ q \in Seq(Range(q)) /\ _root_from_proof(_leaf(d), j, q, o) = _mth(s)
                        => \E k \in 1 .. Len(s) : s[k] = _leaf(d)}
  <1>0. \A s : LeafLevel(s) => Len(s) \in Nat \ {0} /\ _mth(s) # Raises
    BY LeafRoots
  <1>r. ASSUME NEW S, NEW q \in Seq(S) PROVE q \in Seq(Range(q))
    BY DEF Range
  <1>1. 0 \in T
    BY <1>0
  <1>2. ASSUME NEW m \in Nat, m \in T PROVE m + 1 \in T
    <2>. SUFFICES ASSUME NEW s, NEW q, NEW j \in Nat, NEW o \in Nat, LeafLevel(s), Len(s) <= m + 1,
                         q \in Seq(Range(q)), _root_from_proof(_leaf(d), j, q, o) = _mth(s)
                  PROVE  \E k \in 1 .. Len(s) : s[k] = _leaf(d)
      OBVIOUS
    <2>a. \A r, u : \A g, e \in Nat :
            LeafLevel(r) /\ Len(r) <= m /\ u \in Seq(Range(u)) /\ _root_from_proof(_leaf(d), g, u, e) = _mth(r)
              => \E k \in 1 .. Len(r) : r[k] = _leaf(d)
      BY <1>2
    <2>1. PICK c \in Nat \ {0} : c = Len(s) /\ c <= m + 1
      BY <1>0
    <2>2. _root_from_proof(_leaf(d), j, q, o) # Raises
      BY <1>0
    <2>3. j < o /\ o \in Nat \ {0}
      <3>1. ~(j >= o)
        BY <2>2, RootDef
      <3>. QED
        BY <3>1
    <2>4. CASE q = <<>>
      <3>1. _mth(s) = _leaf(d)
        BY <2>2, <2>4, RootOfNothing
      <3>2. ~(c > 1)
        BY <2>1, <3>1, LeafRoots, Separated
      <3>3. c = 1
        BY <2>1, <3>2
      <3>4. _mth(s) = s[1]
        BY <2>1, <3>3, LeafRoots
      <3>5. 1 \in 1 .. c
        BY <3>3
      <3>. QED
        BY <2>1, <3>1, <3>4, <3>5
    <2>5. CASE q # <<>>
      <3>1. o # 1 /\ o > 1
        <4>1. o # 1
          BY <2>2, <2>3, <2>5, RootDef
        <4>. QED
          BY <2>3, <4>1
      <3>2. PICK h : h = _split(o)
        OBVIOUS
      <3>3. h \in Nat /\ o - h \in Nat
        <4>1. h \in 1 .. o - 1
          BY <3>1, <3>2, SplitInside
        <4>. QED
          BY <4>1
      <3>4. q \in Seq(Range(q)) /\ Front(q) \in Seq(Range(q)) /\ Tail(q) \in Seq(Range(q))
        BY <2>5, ShorterProof
      <3>5. Front(q) \in Seq(Range(Front(q))) /\ Tail(q) \in Seq(Range(Tail(q)))
        BY <3>4, <1>r
      <3>6. /\ j < h => _mth(s) = _node(_root_from_proof(_leaf(d), j, Front(q), h), Last(q))
            /\ ~(j < h) => _mth(s) = _node(Head(q), _root_from_proof(_leaf(d), j - h, Tail(q), o - h))
        BY <2>3, <2>5, <3>1, <3>2, RootOfMore
      <3>7. PICK l, r : _mth(s) = _node(l, r)
        BY <3>6
      <3>8. c # 1
        <4>1. \A e : _mth(s) # _leaf(e)
          BY <3>7, Separated
        <4>. QED
          BY <2>1, <4>1, LeafRoots
      <3>9. c > 1
        BY <2>1, <3>8
      <3>10. PICK k : k = _split(c)
        OBVIOUS
      <3>11. /\ k \in 1 .. c - 1
             /\ LeafLevel(Left(s)) /\ Len(Left(s)) = k
             /\ LeafLevel(Right(s)) /\ Len(Right(s)) = c - k
        BY <2>1, <3>9, <3>10, HalvesOf
      <3>12. \A g \in 1 .. k : Left(s)[g] = s[g]
        BY <2>1, <3>9, <3>10, HalvesOf
      <3>13. \A g \in 1 .. c - k : Right(s)[g] = s[k + g]
        BY <2>1, <3>9, <3>10, HalvesOf
      <3>14. k \in Nat /\ c - k \in Nat /\ k <= m /\ c - k <= m
        BY <2>1, <3>11
      <3>15. _mth(s) = _node(_mth(Left(s)), _mth(Right(s)))
        BY <2>1, <3>9, LeafRoots
      <3>16. CASE j < h
        <4>1. _node(_root_from_proof(_leaf(d), j, Front(q), h), Last(q)) = _node(_mth(Left(s)), _mth(Right(s)))
          BY <3>6, <3>15, <3>16
        <4>2. _root_from_proof(_leaf(d), j, Front(q), h) = _mth(Left(s))
          BY <4>1, SameChildren
        <4>3. PICK g \in 1 .. k : Left(s)[g] = _leaf(d)
          BY <2>a, <3>3, <3>5, <3>11, <3>14, <4>2
        <4>4. g \in 1 .. c /\ s[g] = _leaf(d)
          BY <3>12, <3>14, <4>3
        <4>. QED
          BY <2>1, <4>4
      <3>17. CASE ~(j < h)
        <4>a. j - h \in Nat
          BY <3>3, <3>17
        <4>1. _node(Head(q), _root_from_proof(_leaf(d), j - h, Tail(q), o - h)) = _node(_mth(Left(s)), _mth(Right(s)))
          BY <3>6, <3>15, <3>17
        <4>2. _root_from_proof(_leaf(d), j - h, Tail(q), o - h) = _mth(Right(s))
          BY <4>1, SameChildren
        <4>3. PICK g \in 1 .. c - k : Right(s)[g] = _leaf(d)
          BY <2>a, <3>3, <3>5, <3>11, <3>14, <4>a, <4>2
        <4>4. k + g \in 1 .. c /\ s[k + g] = _leaf(d)
          BY <3>13, <3>14, <4>3
        <4>. QED
          BY <2>1, <4>4
      <3>. QED
        BY <3>16, <3>17
    <2>. QED
      BY <2>4, <2>5
  <1>. HIDE DEF T
  <1>3. Len(level) \in T
    BY <1>0, <1>1, <1>2, InductionOnHeight
  <1>4. Len(level) <= Len(level)
    BY <1>0
  <1>. QED
    BY <1>3, <1>4 DEF T

-----------------------------------------------------------------------------
(* Transparency: the state *)

Waiting(l) == {t \in On(l) : registering[t].pc = "leaf"}

\* Later is what a list has become to which things were appended.
Grown(list, later) ==
  /\ list \in Seq(Range(list)) /\ later \in Seq(Range(later)) /\ Len(list) <= Len(later)
  /\ \A k \in 1 .. Len(list) : later[k] = list[k]

RootOfSome(root, leaves) == \E n \in 1 .. Len(leaves) : root = _mth(SubSeq(leaves, 1, n))

PathOfSome(index, path, leaves) ==
  \E n \in 1 .. Len(leaves) : index < n /\ path = _audit_path(SubSeq(leaves, 1, n), index)

\* The lists of a log: every leaf is of a statement, and the missing ones are on their way.
ListsOK(l) ==
  /\ statements[l] \in Seq(Range(statements[l])) /\ leaf_hashes[l] \in Seq(Range(leaf_hashes[l]))
  /\ Len(statements[l]) <= MaxSize[l]
  /\ IsFiniteSet(Waiting(l)) /\ Len(statements[l]) = Len(leaf_hashes[l]) + Cardinality(Waiting(l))
  /\ \A k \in DOMAIN leaf_hashes[l] : \E d \in Range(statements[l]) : leaf_hashes[l][k] = _leaf(d)
  /\ l \notin Permissive => \A d \in Range(statements[l]) : parse_statement(d, FALSE)

\* A call of register, with the lists of its log.
CallOK(c, said, leaves) ==
  /\ DOMAIN c = {"pc", "log", "document", "index", "size", "root", "alone"}
  /\ c.pc \in {"leaf", "index", "size", "root", "proof"} /\ c.log \in Logs
  /\ c.index \in Nat /\ c.size \in Nat /\ c.alone \in BOOLEAN
  /\ c.document \in Range(said)
  /\ c.pc \in {"leaf", "index"} => c.index = 0
  /\ c.pc \in {"size", "root", "proof"} => c.index < Len(said)
  /\ c.pc \in {"root", "proof"} => c.index < c.size /\ c.size <= Len(said)
  /\ c.pc # "leaf" => leaves # <<>>
  /\ c.pc = "proof" => RootOfSome(c.root, leaves)

ReceiptOK(r, leaves) ==
  /\ DOMAIN r = {"log", "sub", "index", "size", "root", "path"}
  /\ r.log \in Logs /\ r.index \in Nat /\ r.size \in Nat /\ r.index < r.size /\ r.size <= MaxSize[r.log]
  /\ RootOfSome(r.root, leaves) /\ PathOfSome(r.index, r.path, leaves)

\* A call alone on its log reads what it appended, and at the end.
LoneCall(c, said, leaves) ==
  /\ c.pc = "leaf" => said[Len(said)] = c.document /\ Len(said) = Len(leaves) + 1
  /\ c.pc # "leaf" => Len(said) = Len(leaves) /\ leaves[Len(leaves)] = _leaf(c.document)
  /\ c.pc \in {"size", "root", "proof"} => Len(said) = c.index + 1
  /\ c.pc \in {"root", "proof"} => c.size = Len(said)
  /\ c.pc = "proof" => c.root = _mth(leaves)

LoneReceipt(r, leaves) ==
  /\ r.size = r.index + 1 /\ r.size <= Len(leaves) /\ leaves[r.index + 1] = _leaf(r.sub)
  /\ r.root = _mth(SubSeq(leaves, 1, r.size)) /\ r.path = _audit_path(SubSeq(leaves, 1, r.size), r.index)

CallsOK ==
  \A t \in Threads : LET c == registering[t] IN
    c = IdleCall \/ CallOK(c, statements[c.log], leaf_hashes[c.log])

ReceiptsOK == alone \subseteq issued /\ \A r \in issued : ReceiptOK(r, leaf_hashes[r.log])

LoneOK ==
  /\ \A t \in Threads : LET c == registering[t] IN
       c # IdleCall /\ c.alone => On(c.log) = {t} /\ LoneCall(c, statements[c.log], leaf_hashes[c.log])
  /\ \A r \in alone : LoneReceipt(r, leaf_hashes[r.log])

\* What every step of register preserves.
LogInv ==
  /\ DOMAIN statements = Logs /\ DOMAIN leaf_hashes = Logs /\ DOMAIN registering = Threads
  /\ \A l \in Logs : ListsOK(l)
  /\ CallsOK /\ ReceiptsOK /\ LoneOK

-----------------------------------------------------------------------------
(* Transparency: lists that grow *)

LEMMA Appended ==
  ASSUME NEW list, list \in Seq(Range(list)), NEW e
  PROVE  /\ Grown(list, Append(list, e))
         /\ Append(list, e) \in Seq(Range(Append(list, e)))
         /\ Len(list) \in Nat /\ Len(Append(list, e)) = Len(list) + 1 /\ Append(list, e)[Len(list) + 1] = e
         /\ Range(Append(list, e)) = Range(list) \cup {e}
         /\ \A k \in 1 .. Len(list) : Append(list, e)[k] = list[k]
  <1>. DEFINE S == Range(list) \cup {e}
  <1>0. list \in Seq(S) /\ e \in S /\ Len(list) \in Nat /\ DOMAIN list = 1 .. Len(list)
    OBVIOUS
  <1>. HIDE DEF S
  <1>1. PICK q : q = Append(list, e)
    OBVIOUS
  <1>2. /\ q \in Seq(S) /\ Len(q) = Len(list) + 1 /\ q[Len(list) + 1] = e /\ DOMAIN q = 1 .. Len(list) + 1
        /\ \A k \in 1 .. Len(list) : q[k] = list[k]
    BY <1>0, <1>1
  <1>3. q \in Seq(Range(q))
    BY <1>2 DEF Range
  <1>4. Range(q) = Range(list) \cup {e}
    <2>1. ASSUME NEW x \in Range(q) PROVE x \in Range(list) \cup {e}
      <3>1. PICK k \in 1 .. Len(list) + 1 : x = q[k]
        BY <1>2 DEF Range
      <3>2. k \in 1 .. Len(list) \/ k = Len(list) + 1
        BY <1>0
      <3>. QED
        BY <1>0, <1>2, <3>1, <3>2 DEF Range
    <2>2. ASSUME NEW x \in Range(list) PROVE x \in Range(q)
      <3>1. PICK k \in 1 .. Len(list) : x = list[k]
        BY <1>0 DEF Range
      <3>. QED
        BY <1>0, <1>2, <3>1 DEF Range
    <2>3. Len(list) + 1 \in DOMAIN q
      BY <1>0, <1>2
    <2>4. e \in Range(q)
      BY <1>2, <2>3 DEF Range
    <2>. QED
      BY <2>1, <2>2, <2>4
  <1>5. Grown(list, q)
    BY <1>0, <1>2, <1>3 DEF Grown
  <1>. QED
    BY <1>0, <1>1, <1>2, <1>3, <1>4, <1>5

LEMMA GrownSelf == \A list : list \in Seq(Range(list)) => Grown(list, list)
  BY DEF Grown

LEMMA PrefixStays ==
  ASSUME NEW list, NEW later, Grown(list, later)
  PROVE  /\ Len(list) \in Nat /\ Len(later) \in Nat /\ Len(list) <= Len(later)
         /\ Range(list) \subseteq Range(later)
         /\ \A n \in 1 .. Len(list) : SubSeq(later, 1, n) = SubSeq(list, 1, n)
         /\ list # <<>> => later # <<>>
  <1>1. /\ list \in Seq(Range(list)) /\ later \in Seq(Range(later))
        /\ Len(list) \in Nat /\ Len(later) \in Nat /\ Len(list) <= Len(later)
        /\ DOMAIN list = 1 .. Len(list) /\ DOMAIN later = 1 .. Len(later)
        /\ \A k \in 1 .. Len(list) : later[k] = list[k]
    BY DEF Grown
  <1>2. Range(list) \subseteq Range(later)
    BY <1>1 DEF Range
  <1>3. ASSUME NEW n \in 1 .. Len(list) PROVE SubSeq(later, 1, n) = SubSeq(list, 1, n)
    <2>1. PICK m \in Nat : m = n
      BY <1>1
    <2>2. SubSeq(later, 1, m) = [i \in 1 .. m |-> later[i]] /\ SubSeq(list, 1, m) = [i \in 1 .. m |-> list[i]]
      OBVIOUS
    <2>3. \A i \in 1 .. m : later[i] = list[i]
      BY <1>1, <2>1
    <2>. QED
      BY <2>1, <2>2, <2>3
  <1>. QED
    BY <1>1, <1>2, <1>3

LEMMA WholePrefix ==
  ASSUME NEW list, list \in Seq(Range(list)) PROVE SubSeq(list, 1, Len(list)) = list
OBVIOUS

LEMMA RootStays ==
  ASSUME NEW list, NEW later, Grown(list, later)
  PROVE  /\ \A root : RootOfSome(root, list) => RootOfSome(root, later)
         /\ \A index, path : PathOfSome(index, path, list) => PathOfSome(index, path, later)
  <1>1. /\ \A n \in 1 .. Len(list) : n \in 1 .. Len(later)
        /\ \A n \in 1 .. Len(list) : SubSeq(later, 1, n) = SubSeq(list, 1, n)
    BY PrefixStays
  <1>2. ASSUME NEW root, RootOfSome(root, list) PROVE RootOfSome(root, later)
    BY <1>1, <1>2 DEF RootOfSome
  <1>3. ASSUME NEW index, NEW path, PathOfSome(index, path, list) PROVE PathOfSome(index, path, later)
    BY <1>1, <1>3 DEF PathOfSome
  <1>. QED
    BY <1>2, <1>3

LEMMA CallStays ==
  ASSUME NEW c, NEW said, NEW leaves, CallOK(c, said, leaves), NEW more, NEW later,
         Grown(said, more), Grown(leaves, later)
  PROVE  /\ CallOK(c, more, later) /\ c # IdleCall
         /\ CallOK([c EXCEPT !.alone = FALSE], more, later) /\ [c EXCEPT !.alone = FALSE] # IdleCall
  <1>1. /\ Len(said) \in Nat /\ Len(more) \in Nat /\ Len(said) <= Len(more)
        /\ Range(said) \subseteq Range(more) /\ (leaves # <<>> => later # <<>>)
    BY PrefixStays
  <1>2. RootOfSome(c.root, leaves) => RootOfSome(c.root, later)
    BY RootStays
  <1>3. c.pc # "idle" /\ c # IdleCall
    BY DEF CallOK, IdleCall
  <1>4. CallOK(c, more, later)
    BY <1>1, <1>2 DEF CallOK
  <1>5. PICK b : b = [c EXCEPT !.alone = FALSE]
    OBVIOUS
  <1>6. /\ DOMAIN b = DOMAIN c /\ b.pc = c.pc /\ b.log = c.log /\ b.document = c.document /\ b.index = c.index
        /\ b.size = c.size /\ b.root = c.root /\ b.alone = FALSE
    BY <1>5 DEF CallOK
  <1>7. CallOK(b, more, later)
    BY <1>4, <1>6 DEF CallOK
  <1>8. b # IdleCall
    BY <1>3, <1>6 DEF IdleCall
  <1>. QED
    BY <1>3, <1>4, <1>5, <1>7, <1>8

LEMMA ReceiptStays ==
  ASSUME NEW leaves, NEW later, Grown(leaves, later)
  PROVE  /\ \A r : ReceiptOK(r, leaves) => ReceiptOK(r, later)
         /\ \A r : r.index \in Nat /\ LoneReceipt(r, leaves) => LoneReceipt(r, later)
  <1>1. ASSUME NEW r, ReceiptOK(r, leaves) PROVE ReceiptOK(r, later)
    BY <1>1, RootStays DEF ReceiptOK
  <1>2. ASSUME NEW r, r.index \in Nat, LoneReceipt(r, leaves) PROVE LoneReceipt(r, later)
    <2>1. PICK i \in Nat : i = r.index
      BY <1>2
    <2>2. r.size = i + 1 /\ i + 1 \in 1 .. Len(leaves)
      BY <1>2, <2>1, PrefixStays DEF LoneReceipt
    <2>3. SubSeq(later, 1, i + 1) = SubSeq(leaves, 1, i + 1) /\ later[i + 1] = leaves[i + 1] /\ i + 1 <= Len(later)
      BY <2>2, PrefixStays DEF Grown
    <2>. QED
      BY <1>2, <2>1, <2>2, <2>3 DEF LoneReceipt
  <1>. QED
    BY <1>1, <1>2

-----------------------------------------------------------------------------
(* Transparency: what the invariant says of receipts *)

\* A prefix of a log's leaves is the list of the leaves of a tree.
LEMMA PrefixLevel ==
  ASSUME NEW l, ListsOK(l), NEW n \in 1 .. Len(leaf_hashes[l])
  PROVE  /\ n \in Nat \ {0} /\ Len(leaf_hashes[l]) \in Nat
         /\ LeafLevel(SubSeq(leaf_hashes[l], 1, n)) /\ Len(SubSeq(leaf_hashes[l], 1, n)) = n
         /\ \A k \in 1 .. n : SubSeq(leaf_hashes[l], 1, n)[k] = leaf_hashes[l][k]
  <1>1. PICK list : list = leaf_hashes[l]
    OBVIOUS
  <1>2. /\ list \in Seq(Range(list)) /\ Len(list) \in Nat /\ DOMAIN list = 1 .. Len(list)
        /\ \A k \in DOMAIN list : \E d : list[k] = _leaf(d)
    BY <1>1 DEF ListsOK
  <1>3. PICK m \in Nat \ {0} : m = n /\ m <= Len(list)
    BY <1>1, <1>2
  <1>4. PICK s : s = SubSeq(list, 1, m)
    OBVIOUS
  <1>5. s = [k \in 1 .. m |-> list[k]]
    BY <1>4
  <1>6. DOMAIN s = 1 .. m /\ \A k \in 1 .. m : s[k] = list[k]
    BY <1>5
  <1>7. s \in Seq(Range(s)) /\ Len(s) = m /\ s # <<>>
    <2>1. \A k \in 1 .. m : list[k] \in Range(s)
      BY <1>6 DEF Range
    <2>2. s \in [1 .. m -> Range(s)]
      BY <1>5, <2>1
    <2>. QED
      BY <1>3, <2>2
  <1>8. \A k \in DOMAIN s : \E d : s[k] = _leaf(d)
    BY <1>2, <1>3, <1>6
  <1>. QED
    BY <1>1, <1>2, <1>3, <1>4, <1>6, <1>7, <1>8 DEF LeafLevel, Level

\* A receipt that verifies is for a leaf of its log, at its index.
LEMMA VerifiedIsLogged ==
  ASSUME LogInv, NEW r \in issued, NEW document, Derives(r, document)
  PROVE  \E m \in 1 .. Len(leaf_hashes[r.log]) :
           /\ r.root = _mth(SubSeq(leaf_hashes[r.log], 1, m))
           /\ r.index < m /\ leaf_hashes[r.log][r.index + 1] = _leaf(document) /\ r.index + 1 \in 1 .. m
  <1>1. PICK l \in Logs : l = r.log
    BY DEF LogInv, ReceiptsOK, ReceiptOK
  <1>2. /\ ListsOK(l) /\ r.size \in Nat /\ RootOfSome(r.root, leaf_hashes[l])
        /\ PathOfSome(r.index, r.path, leaf_hashes[l])
    BY <1>1 DEF LogInv, ReceiptsOK, ReceiptOK
  <1>3. PICK i \in Nat : i = r.index
    BY DEF LogInv, ReceiptsOK, ReceiptOK
  <1>4. PICK n \in 1 .. Len(leaf_hashes[l]) : r.root = _mth(SubSeq(leaf_hashes[l], 1, n))
    BY <1>2 DEF RootOfSome
  <1>5. PICK m \in 1 .. Len(leaf_hashes[l]) : i < m /\ r.path = _audit_path(SubSeq(leaf_hashes[l], 1, m), i)
    BY <1>2, <1>3 DEF PathOfSome
  <1>6. PICK s : s = SubSeq(leaf_hashes[l], 1, n)
    OBVIOUS
  <1>7. PICK u : u = SubSeq(leaf_hashes[l], 1, m)
    OBVIOUS
  <1>8. n \in Nat \ {0} /\ LeafLevel(s) /\ Len(s) = n
    BY <1>2, <1>6, PrefixLevel
  <1>9. /\ m \in Nat \ {0} /\ LeafLevel(u) /\ Len(u) = m /\ Len(leaf_hashes[l]) \in Nat
        /\ \A k \in 1 .. m : u[k] = leaf_hashes[l][k]
    BY <1>2, <1>7, PrefixLevel
  <1>10. _root_from_proof(_leaf(document), i, _audit_path(u, i), r.size) = _mth(s)
    BY <1>3, <1>4, <1>5, <1>6, <1>7 DEF Derives
  <1>11. i < Len(u)
    BY <1>5, <1>9
  <1>12. PICK w : Weighs(_audit_path(u, i), w) /\ w[Len(_audit_path(u, i))] = Len(u) - 1
    BY <1>9, <1>11, AuditWeighs
  <1>13. Len(s) = w[Len(_audit_path(u, i))] + 1
    BY <1>2, <1>8, <1>10, <1>12, ProofSize
  <1>14. n = m
    BY <1>8, <1>9, <1>12, <1>13
  <1>15. s = u
    BY <1>6, <1>7, <1>14
  <1>16. u[i + 1] = _leaf(document)
    BY <1>2, <1>9, <1>10, <1>11, <1>15, AuditPathsAreExact
  <1>17. i + 1 \in 1 .. m
    BY <1>5, <1>9
  <1>18. leaf_hashes[l][i + 1] = _leaf(document)
    BY <1>9, <1>16, <1>17
  <1>. QED
    BY <1>1, <1>3, <1>4, <1>5, <1>14, <1>17, <1>18

\* The same of a receipt whose index, size and path were changed: the leaf is in the tree
\* whose root the log signed, and at this index of it when the size is its size.
LEMMA RestatedIsLogged ==
  ASSUME LogInv, NEW r \in Restated, NEW document, Derives(r, document)
  PROVE  \E m \in 1 .. Len(leaf_hashes[r.log]) :
           /\ r.root = _mth(SubSeq(leaf_hashes[r.log], 1, m))
           /\ \E k \in 1 .. m : leaf_hashes[r.log][k] = _leaf(document)
           /\ r.size = m => r.index < m /\ leaf_hashes[r.log][r.index + 1] = _leaf(document)
  <1>1. PICK a \in issued, b \in issued, i \in Nat, n \in Nat : r = [a EXCEPT !.index = i, !.size = n, !.path = b.path]
    <2>1. PICK a \in issued, e \in Stated, b \in issued : r = restate(a, e, b.path)
      BY DEF Restated
    <2>2. e[1] \in Nat /\ e[2] \in Nat
      <3>1. Stated \subseteq Nat \X Nat
        BY Zenon, StatementAssumption
      <3>2. e \in Nat \X Nat
        BY <3>1
      <3>. QED
        BY <3>2
    <2>. QED
      BY <2>1, <2>2, Zenon DEF restate
  <1>2. DOMAIN a = {"log", "sub", "index", "size", "root", "path"}
    BY DEF LogInv, ReceiptsOK, ReceiptOK
  <1>3. r.index = i /\ r.size = n /\ r.path = b.path /\ r.log = a.log /\ r.root = a.root
    BY <1>1, <1>2
  <1>4. PICK l \in Logs : l = r.log
    BY <1>3 DEF LogInv, ReceiptsOK, ReceiptOK
  <1>5. ListsOK(l) /\ RootOfSome(r.root, leaf_hashes[l])
    BY <1>3, <1>4 DEF LogInv, ReceiptsOK, ReceiptOK
  <1>6. PICK m \in 1 .. Len(leaf_hashes[l]) : r.root = _mth(SubSeq(leaf_hashes[l], 1, m))
    BY <1>5 DEF RootOfSome
  <1>7. PICK s : s = SubSeq(leaf_hashes[l], 1, m)
    OBVIOUS
  <1>8. m \in Nat \ {0} /\ LeafLevel(s) /\ Len(s) = m /\ \A k \in 1 .. m : s[k] = leaf_hashes[l][k]
    BY <1>5, <1>7, PrefixLevel
  <1>9. r.path \in Seq(Range(r.path))
    <2>1. b.log \in Logs /\ ListsOK(b.log) /\ b.index \in Nat /\ PathOfSome(b.index, b.path, leaf_hashes[b.log])
      BY DEF LogInv, ReceiptsOK, ReceiptOK
    <2>2. PICK g \in 1 .. Len(leaf_hashes[b.log]) :
            b.index < g /\ b.path = _audit_path(SubSeq(leaf_hashes[b.log], 1, g), b.index)
      BY <2>1 DEF PathOfSome
    <2>3. PICK u : u = SubSeq(leaf_hashes[b.log], 1, g)
      OBVIOUS
    <2>4. LeafLevel(u) /\ Len(u) = g
      BY <2>1, <2>3, PrefixLevel
    <2>5. \E w : Weighs(_audit_path(u, b.index), w)
      BY <2>1, <2>2, <2>4, AuditWeighs
    <2>6. b.path \in Seq(Range(b.path))
      BY <2>2, <2>3, <2>5 DEF Weighs
    <2>. QED
      BY <1>3, <2>6
  <1>10. _root_from_proof(_leaf(document), i, r.path, n) = _mth(s)
    BY <1>3, <1>6, <1>7 DEF Derives
  <1>11. PICK k \in 1 .. m : s[k] = _leaf(document)
    BY <1>8, <1>9, <1>10, ProofsStayInside
  <1>12. ASSUME n = m PROVE i < m /\ leaf_hashes[l][i + 1] = _leaf(document)
    <2>1. i < m /\ s[i + 1] = _leaf(document)
      BY <1>8, <1>9, <1>10, <1>12, ProofsAreExact
    <2>2. i + 1 \in 1 .. m
      BY <1>8, <2>1
    <2>. QED
      BY <1>8, <2>1, <2>2
  <1>13. leaf_hashes[l][k] = _leaf(document)
    BY <1>8, <1>11
  <1>14. r.size = m => r.index < m /\ leaf_hashes[l][r.index + 1] = _leaf(document)
    BY <1>3, <1>12
  <1>. QED
    BY <1>4, <1>6, <1>13, <1>14

LEMMA TransparentFollows == LogInv => TransparentIsLogged
  <1>. SUFFICES ASSUME LogInv, NEW x \in Statements,
                       NEW receipts \in {<<r>> : r \in issued \cup Restated} \cup (issued \X issued),
                       verify_transparent_statement([statement |-> x, header394 |-> TRUE, receipts |-> receipts]),
                       NEW n \in DOMAIN receipts
                PROVE  LET r == receipts[n]
                           leaves == leaf_hashes[r.log] IN
                       \E m \in 1 .. Len(leaves) :
                         /\ r.root = _mth(SubSeq(leaves, 1, m))
                         /\ \E k \in 1 .. m : leaves[k] = _leaf(Bare(x))
                         /\ r \in issued \/ r.size = m => r.index < m /\ leaves[r.index + 1] = _leaf(Bare(x))
    BY DEF TransparentIsLogged
  <1>1. PICK r : r = receipts[n] /\ r \in issued \cup Restated
    OBVIOUS
  <1>2. Derives(r, Bare(x))
    <2>1. PICK document : document = [statement |-> x, header394 |-> TRUE, receipts |-> receipts]
      OBVIOUS
    <2>2. document.statement = x /\ document.receipts = receipts
      BY <2>1
    <2>3. verify_transparent_statement(document)
      BY <2>1
    <2>4. _verify_receipt(document.receipts[n], Bare(document.statement))
      BY <2>2, <2>3 DEF verify_transparent_statement
    <2>. QED
      BY <1>1, <2>2, <2>4 DEF _verify_receipt
  <1>3. CASE r \in issued
    <2>1. PICK m \in 1 .. Len(leaf_hashes[r.log]) :
            /\ r.root = _mth(SubSeq(leaf_hashes[r.log], 1, m))
            /\ r.index < m /\ leaf_hashes[r.log][r.index + 1] = _leaf(Bare(x)) /\ r.index + 1 \in 1 .. m
      BY <1>2, <1>3, VerifiedIsLogged
    <2>. QED
      BY <1>1, <2>1
  <1>4. CASE r \in Restated /\ r \notin issued
    <2>1. PICK m \in 1 .. Len(leaf_hashes[r.log]) :
            /\ r.root = _mth(SubSeq(leaf_hashes[r.log], 1, m))
            /\ \E k \in 1 .. m : leaf_hashes[r.log][k] = _leaf(Bare(x))
            /\ r.size = m => r.index < m /\ leaf_hashes[r.log][r.index + 1] = _leaf(Bare(x))
      BY <1>2, <1>4, RestatedIsLogged
    <2>. QED
      BY <1>1, <1>4, <2>1
  <1>. QED
    BY <1>1, <1>3, <1>4

LEMMA LoneFollows == LogInv => LoneReceiptsVerify
  <1>. SUFFICES ASSUME LogInv, NEW r \in alone
                PROVE  /\ r.size = r.index + 1
                       /\ r.root = _mth(SubSeq(leaf_hashes[r.log], 1, r.size))
                       /\ r.log \in TrustedLogs /\ ~r.sub.header394 => _verify_receipt(r, r.sub)
                       /\ r.sub.header394 => \A x \in Statements : ~_verify_receipt(r, Bare(x))
    BY DEF LoneReceiptsVerify
  <1>1. r \in issued /\ ReceiptOK(r, leaf_hashes[r.log]) /\ LoneReceipt(r, leaf_hashes[r.log])
    BY DEF LogInv, ReceiptsOK, LoneOK
  <1>2. PICK l \in Logs : l = r.log
    BY <1>1 DEF ReceiptOK
  <1>3. PICK i \in Nat : i = r.index
    BY <1>1 DEF ReceiptOK
  <1>4. ListsOK(l)
    BY DEF LogInv
  <1>5. Len(leaf_hashes[l]) \in Nat
    BY <1>4 DEF ListsOK
  <1>6. i + 1 \in 1 .. Len(leaf_hashes[l]) /\ r.size = i + 1
    BY <1>1, <1>2, <1>3, <1>5 DEF LoneReceipt
  <1>7. PICK s : s = SubSeq(leaf_hashes[l], 1, i + 1)
    OBVIOUS
  <1>8. LeafLevel(s) /\ Len(s) = i + 1 /\ \A k \in 1 .. i + 1 : s[k] = leaf_hashes[l][k]
    BY <1>4, <1>6, <1>7, PrefixLevel
  <1>9. s[i + 1] = _leaf(r.sub)
    BY <1>1, <1>2, <1>3, <1>8 DEF LoneReceipt
  <1>10. _root_from_proof(s[i + 1], i, _audit_path(s, i), Len(s)) = _mth(s)
    BY <1>8, AuditPathsLead
  <1>11. Derives(r, r.sub)
    BY <1>1, <1>2, <1>3, <1>6, <1>7, <1>8, <1>9, <1>10 DEF Derives, LoneReceipt
  <1>12. r.sub.header394 => \A x \in Statements : ~_verify_receipt(r, Bare(x))
    BY DEF _verify_receipt, Bare
  <1>. QED
    BY <1>1, <1>11, <1>12 DEF _verify_receipt, LoneReceipt

LEMMA TypesFollow == LogInv => LogTypeOK
  <1>. SUFFICES ASSUME LogInv PROVE LogTypeOK
    OBVIOUS
  <1>1. ASSUME NEW l \in Logs
        PROVE  /\ Len(statements[l]) <= MaxSize[l]
               /\ Len(statements[l]) = Len(leaf_hashes[l]) + Cardinality({t \in On(l) : registering[t].pc = "leaf"})
               /\ Range(leaf_hashes[l]) \subseteq {_leaf(d) : d \in Range(statements[l])}
               /\ l \notin Permissive => \A d \in Range(statements[l]) : parse_statement(d, TRUE) /\ d.receipts = <<>>
    <2>1. ListsOK(l)
      BY DEF LogInv
    <2>2. /\ Len(statements[l]) <= MaxSize[l]
          /\ Len(statements[l]) = Len(leaf_hashes[l]) + Cardinality({t \in On(l) : registering[t].pc = "leaf"})
      BY <2>1 DEF ListsOK, Waiting
    <2>3. Range(leaf_hashes[l]) \subseteq {_leaf(d) : d \in Range(statements[l])}
      BY <2>1 DEF ListsOK, Range
    <2>4. l \notin Permissive => \A d \in Range(statements[l]) : parse_statement(d, TRUE) /\ d.receipts = <<>>
      BY <2>1 DEF ListsOK, parse_statement, CarriesNone
    <2>. QED
      BY <2>2, <2>3, <2>4
  <1>2. ASSUME NEW t \in Threads, registering[t].pc # "idle"
        PROVE  /\ registering[t].pc \in {"leaf", "index", "size", "root", "proof"}
               /\ registering[t].document \in Range(statements[registering[t].log])
               /\ registering[t].index <= Len(statements[registering[t].log])
    <2>1. PICK c : c = registering[t]
      OBVIOUS
    <2>2. CallOK(c, statements[c.log], leaf_hashes[c.log])
      BY <1>2, <2>1 DEF LogInv, CallsOK, IdleCall
    <2>3. c.log \in Logs
      BY <2>2 DEF CallOK
    <2>4. Len(statements[c.log]) \in Nat
      BY <2>3 DEF LogInv, ListsOK
    <2>5. c.index <= Len(statements[c.log])
      BY <2>2, <2>4 DEF CallOK
    <2>. QED
      BY <2>1, <2>2, <2>5 DEF CallOK
  <1>3. \A r \in issued : r.log \in Logs /\ r.index < r.size /\ r.size <= MaxSize[r.log]
    BY DEF LogInv, ReceiptsOK, ReceiptOK
  <1>4. alone \subseteq issued
    BY DEF LogInv, ReceiptsOK
  <1>. QED
    BY <1>1, <1>2, <1>3, <1>4 DEF LogTypeOK

-----------------------------------------------------------------------------
(* Transparency: the steps *)

LEMMA Registering ==
  ASSUME LogInv, NEW t \in Threads
  PROVE  /\ registering[t] # IdleCall <=> registering[t].pc # "idle"
         /\ registering[t] # IdleCall =>
              /\ registering[t].log \in Logs /\ t \in On(registering[t].log)
              /\ CallOK(registering[t], statements[registering[t].log], leaf_hashes[registering[t].log])
  <1>1. registering[t] = IdleCall \/ CallOK(registering[t], statements[registering[t].log], leaf_hashes[registering[t].log])
    BY DEF LogInv, CallsOK
  <1>2. IdleCall.pc = "idle"
    BY DEF IdleCall
  <1>3. \A c, said, leaves : CallOK(c, said, leaves) => c.pc # "idle" /\ c.log \in Logs
    BY DEF CallOK
  <1>. QED
    BY <1>1, <1>2, <1>3 DEF On

LEMMA LogInvInit == LogInit => LogInv
  <1>. SUFFICES ASSUME LogInit PROVE LogInv
    OBVIOUS
  <1>1. /\ statements = [l \in Logs |-> <<>>] /\ leaf_hashes = [l \in Logs |-> <<>>]
        /\ registering = [t \in Threads |-> IdleCall] /\ issued = {} /\ alone = {}
    BY DEF LogInit
  <1>2. IdleCall.pc = "idle"
    BY DEF IdleCall
  <1>3. ASSUME NEW l \in Logs PROVE ListsOK(l)
    <2>1. Waiting(l) = {}
      BY <1>1, <1>2 DEF Waiting, On
    <2>2. IsFiniteSet(Waiting(l)) /\ Cardinality(Waiting(l)) = 0
      BY <2>1, FS_EmptySet
    <2>3. statements[l] = <<>> /\ leaf_hashes[l] = <<>> /\ Range(<<>>) = {} /\ <<>> \in Seq(Range(<<>>))
      BY <1>1 DEF Range
    <2>4. 0 <= MaxSize[l]
      BY StatementAssumption
    <2>5. Len(statements[l]) = 0 /\ Len(leaf_hashes[l]) = 0 /\ DOMAIN leaf_hashes[l] = {}
      BY <2>3
    <2>6. /\ statements[l] \in Seq(Range(statements[l])) /\ leaf_hashes[l] \in Seq(Range(leaf_hashes[l]))
          /\ Range(statements[l]) = {}
      BY <2>3
    <2>7. Len(statements[l]) <= MaxSize[l] /\ Len(statements[l]) = Len(leaf_hashes[l]) + Cardinality(Waiting(l))
      BY <2>2, <2>4, <2>5
    <2>. QED
      BY <2>2, <2>5, <2>6, <2>7 DEF ListsOK
  <1>4. CallsOK
    BY <1>1 DEF CallsOK
  <1>5. ReceiptsOK
    BY <1>1 DEF ReceiptsOK
  <1>6. LoneOK
    BY <1>1 DEF LoneOK
  <1>. QED
    BY <1>1, <1>3, <1>4, <1>5, <1>6 DEF LogInv

\* What was issued stays right while leaves are appended.
LEMMA ReceiptsStay ==
  ASSUME LogInv, \A l \in Logs : Grown(leaf_hashes[l], leaf_hashes'[l])
  PROVE  /\ alone \subseteq issued
         /\ \A r \in issued : ReceiptOK(r, leaf_hashes'[r.log])
         /\ \A r \in alone : LoneReceipt(r, leaf_hashes'[r.log])
  <1>1. alone \subseteq issued
    BY DEF LogInv, ReceiptsOK
  <1>2. ASSUME NEW r \in issued
        PROVE  ReceiptOK(r, leaf_hashes'[r.log]) /\ (LoneReceipt(r, leaf_hashes[r.log]) => LoneReceipt(r, leaf_hashes'[r.log]))
    <2>1. ReceiptOK(r, leaf_hashes[r.log])
      BY DEF LogInv, ReceiptsOK
    <2>2. r.log \in Logs /\ r.index \in Nat
      BY <2>1 DEF ReceiptOK
    <2>3. Grown(leaf_hashes[r.log], leaf_hashes'[r.log])
      BY <2>2
    <2>. QED
      BY <2>1, <2>2, <2>3, ReceiptStays
  <1>3. \A r \in alone : LoneReceipt(r, leaf_hashes[r.log])
    BY DEF LogInv, LoneOK
  <1>. QED
    BY <1>1, <1>2, <1>3

\* The other calls keep their shape while the lists grow.
LEMMA CallsStay ==
  ASSUME LogInv, NEW u \in Threads,
         \A l \in Logs : Grown(statements[l], statements'[l]) /\ Grown(leaf_hashes[l], leaf_hashes'[l]),
         \/ registering'[u] = registering[u]
         \/ registering[u] # IdleCall /\ registering'[u] = [registering[u] EXCEPT !.alone = FALSE]
  PROVE  \/ registering'[u] = IdleCall
         \/ CallOK(registering'[u], statements'[registering'[u].log], leaf_hashes'[registering'[u].log])
  <1>1. PICK c : c = registering[u]
    OBVIOUS
  <1>2. CASE c = IdleCall
    BY <1>1, <1>2
  <1>3. CASE c # IdleCall
    <2>1. CallOK(c, statements[c.log], leaf_hashes[c.log]) /\ c.log \in Logs
      BY <1>1, <1>3, Registering
    <2>2. Grown(statements[c.log], statements'[c.log]) /\ Grown(leaf_hashes[c.log], leaf_hashes'[c.log])
      BY <2>1
    <2>3. /\ CallOK(c, statements'[c.log], leaf_hashes'[c.log])
          /\ CallOK([c EXCEPT !.alone = FALSE], statements'[c.log], leaf_hashes'[c.log])
      BY <2>1, <2>2, CallStays
    <2>4. [c EXCEPT !.alone = FALSE].log = c.log
      BY <2>1 DEF CallOK
    <2>. QED
      BY <1>1, <1>3, <2>3, <2>4
  <1>. QED
    BY <1>2, <1>3

LEMMA ListsStill ==
  ASSUME LogInv, NEW l \in Logs, statements'[l] = statements[l], leaf_hashes'[l] = leaf_hashes[l],
         Waiting(l)' = Waiting(l)
  PROVE  ListsOK(l)'
  <1>1. ListsOK(l)
    BY DEF LogInv
  <1>. QED
    BY <1>1 DEF ListsOK, Range

LEMMA LoneByParts ==
  ASSUME \A u \in Threads : registering'[u] # IdleCall /\ registering'[u].alone =>
           /\ \A v \in Threads : registering'[v].pc # "idle" /\ registering'[v].log = registering'[u].log <=> v = u
           /\ LoneCall(registering'[u], statements'[registering'[u].log], leaf_hashes'[registering'[u].log]),
         \A r \in alone' : LoneReceipt(r, leaf_hashes'[r.log])
  PROVE  LoneOK'
BY DEF LoneOK, On

\* Between its appends and its receipt, a call changes nothing but what it has read.
LEMMA ReadStep ==
  ASSUME LogInv, NEW t \in Threads, NEW c, NEW b, c = registering[t], c # IdleCall, c.pc # "leaf",
         registering' = [registering EXCEPT ![t] = b], UNCHANGED <<statements, leaf_hashes, issued, alone>>,
         b.pc \notin {"idle", "leaf"}, b.log = c.log, b.alone = c.alone,
         CallOK(b, statements[c.log], leaf_hashes[c.log]),
         LoneCall(c, statements[c.log], leaf_hashes[c.log]) => LoneCall(b, statements[c.log], leaf_hashes[c.log])
  PROVE  LogInv'
  <1>1. /\ DOMAIN registering = Threads /\ DOMAIN registering' = Threads
        /\ registering'[t] = b /\ \A u \in Threads \ {t} : registering'[u] = registering[u]
    BY DEF LogInv
  <1>2. c.pc # "idle" /\ c.log \in Logs
    BY Registering
  <1>m. \A u \in Threads :
          /\ registering'[u].pc # "idle" <=> registering[u].pc # "idle"
          /\ registering'[u].log = registering[u].log
          /\ registering'[u].pc = "leaf" <=> registering[u].pc = "leaf"
    BY <1>1, <1>2
  <1>3. \A l \in Logs : Waiting(l)' = Waiting(l)
    BY <1>m DEF On, Waiting
  <1>4. \A l \in Logs : ListsOK(l)'
    BY <1>3, ListsStill
  <1>5. CallsOK'
    <2>1. ASSUME NEW u \in Threads
          PROVE  LET a == registering'[u] IN a = IdleCall \/ CallOK(a, statements'[a.log], leaf_hashes'[a.log])
      <3>1. CASE u = t
        BY <1>1, <3>1
      <3>2. CASE u # t
        BY <1>1, <3>2 DEF LogInv, CallsOK
      <3>. QED
        BY <3>1, <3>2
    <2>. QED
      BY <2>1 DEF CallsOK
  <1>6. ReceiptsOK'
    BY DEF LogInv, ReceiptsOK
  <1>7. LoneOK'
    <2>1. ASSUME NEW u \in Threads, registering'[u] # IdleCall, registering'[u].alone
          PROVE  /\ \A v \in Threads : registering'[v].pc # "idle" /\ registering'[v].log = registering'[u].log <=> v = u
                 /\ LoneCall(registering'[u], statements'[registering'[u].log], leaf_hashes'[registering'[u].log])
      <3>1. PICK a : a = registering[u]
        OBVIOUS
      <3>2. a # IdleCall /\ a.alone /\ registering'[u].log = a.log
        BY <1>1, <2>1, <3>1
      <3>3. On(a.log) = {u} /\ LoneCall(a, statements[a.log], leaf_hashes[a.log])
        BY <3>1, <3>2 DEF LogInv, LoneOK
      <3>4. \A v \in Threads : registering[v].pc # "idle" /\ registering[v].log = a.log <=> v = u
        BY <3>3 DEF On
      <3>5. LoneCall(registering'[u], statements[a.log], leaf_hashes[a.log])
        BY <1>1, <3>1, <3>3
      <3>. QED
        BY <1>m, <3>2, <3>4, <3>5
    <2>2. \A r \in alone' : LoneReceipt(r, leaf_hashes'[r.log])
      BY DEF LogInv, LoneOK
    <2>. QED
      BY <2>1, <2>2, LoneByParts
  <1>. QED
    BY <1>1, <1>4, <1>5, <1>6, <1>7 DEF LogInv

\* The calls of other threads on other logs do not notice.
LEMMA OthersAlone ==
  ASSUME LogInv, NEW l \in Logs, NEW u \in Threads, registering[u] # IdleCall, registering[u].alone,
         registering[u].log # l, registering'[u] = registering[u],
         \A k \in Logs \ {l} : statements'[k] = statements[k] /\ leaf_hashes'[k] = leaf_hashes[k],
         \A v \in Threads : \A k \in Logs \ {l} :
           registering'[v].pc # "idle" /\ registering'[v].log = k <=> registering[v].pc # "idle" /\ registering[v].log = k
  PROVE  /\ \A v \in Threads : registering'[v].pc # "idle" /\ registering'[v].log = registering'[u].log <=> v = u
         /\ LoneCall(registering'[u], statements'[registering'[u].log], leaf_hashes'[registering'[u].log])
  <1>1. PICK a : a = registering[u]
    OBVIOUS
  <1>2. a.log \in Logs \ {l}
    BY <1>1, Registering
  <1>3. On(a.log) = {u} /\ LoneCall(a, statements[a.log], leaf_hashes[a.log])
    BY <1>1 DEF LogInv, LoneOK
  <1>4. \A v \in Threads : registering[v].pc # "idle" /\ registering[v].log = a.log <=> v = u
    BY <1>3 DEF On
  <1>. QED
    BY <1>1, <1>2, <1>3, <1>4

LEMMA AppendStatementStep ==
  ASSUME LogInv, NEW t \in Threads, NEW l \in Logs, AppendStatement(t, l)
  PROVE  LogInv'
  <1>d. PICK document :
          /\ Registrable(l, document)
          /\ statements' = [statements EXCEPT ![l] = Append(@, document)]
          /\ registering' = [u \in Threads |->
               IF u = t THEN [pc |-> "leaf", log |-> l, document |-> document, index |-> 0, size |-> 0, root |-> NoValue,
                              alone |-> On(l) = {}]
               ELSE IF u \in On(l) THEN [registering[u] EXCEPT !.alone = FALSE] ELSE registering[u]]
    BY DEF AppendStatement
  <1>. DEFINE new == [pc |-> "leaf", log |-> l, document |-> document, index |-> 0, size |-> 0, root |-> NoValue,
                      alone |-> On(l) = {}]
  <1>1. /\ DOMAIN statements = Logs /\ DOMAIN leaf_hashes = Logs /\ DOMAIN registering = Threads /\ ListsOK(l)
    BY DEF LogInv
  <1>2. /\ registering[t].pc = "idle" /\ Len(statements[l]) < MaxSize[l] /\ Registrable(l, document)
        /\ leaf_hashes' = leaf_hashes /\ issued' = issued /\ alone' = alone
        /\ DOMAIN statements' = Logs /\ DOMAIN registering' = Threads
        /\ statements'[l] = Append(statements[l], document)
        /\ \A k \in Logs \ {l} : statements'[k] = statements[k]
    BY <1>1, <1>d DEF AppendStatement
  <1>3. /\ registering'[t] = new
        /\ \A u \in Threads \ {t} : /\ u \in On(l) => registering'[u] = [registering[u] EXCEPT !.alone = FALSE]
                                    /\ u \notin On(l) => registering'[u] = registering[u]
    BY <1>d
  <1>4. new.pc = "leaf" /\ new.log = l /\ (new.alone <=> On(l) = {}) /\ new.document = document /\ new # IdleCall
    BY DEF IdleCall
  <1>c. CallOK(new, statements'[l], leaf_hashes[l])
    <2>1. document \in Range(statements'[l])
      BY <1>1, <1>2, Appended DEF ListsOK
    <2>2. /\ DOMAIN new = {"pc", "log", "document", "index", "size", "root", "alone"}
          /\ new.index = 0 /\ new.size = 0 /\ new.alone \in BOOLEAN
      OBVIOUS
    <2>. QED
      BY <1>4, <2>1, <2>2 DEF CallOK
  <1>. HIDE DEF new
  <1>o. \A u \in Threads \ {t} : u \in On(l) => registering[u] # IdleCall /\ registering[u].log = l
    BY Registering DEF On
  <1>5. \A u \in Threads \ {t} :
          /\ registering'[u].pc = registering[u].pc /\ registering'[u].log = registering[u].log
          /\ \/ registering'[u] = registering[u]
             \/ registering[u] # IdleCall /\ registering'[u] = [registering[u] EXCEPT !.alone = FALSE]
    <2>1. ASSUME NEW u \in Threads \ {t}, u \in On(l)
          PROVE  registering'[u].pc = registering[u].pc /\ registering'[u].log = registering[u].log
      <3>1. "pc" \in DOMAIN registering[u] /\ "log" \in DOMAIN registering[u]
        BY <1>o, <2>1, Registering DEF CallOK
      <3>. QED
        BY <1>3, <2>1, <3>1
    <2>. QED
      BY <1>3, <1>o, <2>1
  <1>6. \A k \in Logs : Grown(statements[k], statements'[k]) /\ Grown(leaf_hashes[k], leaf_hashes'[k])
    <2>1. ASSUME NEW k \in Logs PROVE statements[k] \in Seq(Range(statements[k])) /\ leaf_hashes[k] \in Seq(Range(leaf_hashes[k]))
      BY DEF LogInv, ListsOK
    <2>2. Grown(statements[l], statements'[l])
      BY <1>2, <2>1, Appended
    <2>. QED
      BY <1>2, <2>1, <2>2, GrownSelf
  <1>7. \A k \in Logs : ListsOK(k)'
    <2>1. ASSUME NEW k \in Logs, k # l PROVE ListsOK(k)'
      <3>1. Waiting(k)' = Waiting(k)
        BY <1>2, <1>3, <1>4, <1>5, <2>1 DEF Waiting, On
      <3>. QED
        BY <1>2, <2>1, <3>1, ListsStill
    <2>2. ListsOK(l)'
      <3>1. Waiting(l)' = Waiting(l) \cup {t} /\ t \notin Waiting(l)
        BY <1>2, <1>3, <1>4, <1>5 DEF Waiting, On
      <3>2. IsFiniteSet(Waiting(l)) /\ Cardinality(Waiting(l)) \in Nat
        BY <1>1, FS_CardinalityType DEF ListsOK
      <3>3. IsFiniteSet(Waiting(l)') /\ Cardinality(Waiting(l)') = Cardinality(Waiting(l)) + 1
        BY <3>1, <3>2, FS_AddElement
      <3>4. /\ statements'[l] \in Seq(Range(statements'[l])) /\ Len(statements[l]) \in Nat
            /\ Len(statements'[l]) = Len(statements[l]) + 1
            /\ Range(statements'[l]) = Range(statements[l]) \cup {document}
        BY <1>1, <1>2, Appended DEF ListsOK
      <3>5. Len(statements'[l]) <= MaxSize[l]
        BY <1>2, <3>4, StatementAssumption
      <3>6. Len(statements'[l]) = Len(leaf_hashes'[l]) + Cardinality(Waiting(l)')
        <4>1. PICK n \in Nat : n = Len(leaf_hashes[l])
          BY <1>1 DEF ListsOK
        <4>2. PICK c \in Nat : c = Cardinality(Waiting(l))
          BY <3>2
        <4>3. Len(statements[l]) = n + c
          BY <1>1, <4>1, <4>2 DEF ListsOK
        <4>. QED
          <5>1. leaf_hashes'[l] = leaf_hashes[l] /\ Len(statements'[l]) = n + c + 1
            BY <1>2, <3>4, <4>3
          <5>2. PICK c2 : c2 = Cardinality(Waiting(l)')
            OBVIOUS
          <5>3. c2 = c + 1
            BY <3>3, <4>2, <5>2
          <5>4. n + c + 1 = n + c2
            BY <5>3
          <5>. QED
            BY <4>1, <5>1, <5>2, <5>4
      <3>7. \A k \in DOMAIN leaf_hashes'[l] : \E d \in Range(statements'[l]) : leaf_hashes'[l][k] = _leaf(d)
        BY <1>1, <1>2, <3>4 DEF ListsOK
      <3>8. l \notin Permissive => \A d \in Range(statements'[l]) : parse_statement(d, FALSE)
        BY <1>1, <1>2, <3>4 DEF ListsOK, Registrable
      <3>9. leaf_hashes'[l] \in Seq(Range(leaf_hashes'[l]))
        BY <1>1, <1>2 DEF ListsOK
      <3>. QED
        BY <3>3, <3>4, <3>5, <3>6, <3>7, <3>8, <3>9 DEF ListsOK, Range
    <2>. QED
      BY <2>1, <2>2
  <1>8. CallsOK'
    <2>1. ASSUME NEW u \in Threads
          PROVE  LET c == registering'[u] IN c = IdleCall \/ CallOK(c, statements'[c.log], leaf_hashes'[c.log])
      <3>1. CASE u = t
        BY <1>2, <1>3, <1>4, <1>c, <3>1
      <3>2. CASE u # t
        BY <1>5, <1>6, <3>2, CallsStay
      <3>. QED
        BY <3>1, <3>2
    <2>. QED
      BY <2>1 DEF CallsOK
  <1>9. ReceiptsOK'
    BY <1>2, <1>6, ReceiptsStay DEF ReceiptsOK
  <1>10. LoneOK'
    <2>1. ASSUME NEW u \in Threads, registering'[u] # IdleCall, registering'[u].alone
          PROVE  /\ \A v \in Threads : registering'[v].pc # "idle" /\ registering'[v].log = registering'[u].log <=> v = u
                 /\ LoneCall(registering'[u], statements'[registering'[u].log], leaf_hashes'[registering'[u].log])
      <3>1. CASE u = t
        <4>1. On(l) = {}
          BY <1>3, <1>4, <2>1, <3>1
        <4>2. \A v \in Threads : registering'[v].pc # "idle" /\ registering'[v].log = l <=> v = t
          <5>1. registering'[t].pc # "idle" /\ registering'[t].log = l
            BY <1>3, <1>4
          <5>2. ASSUME NEW v \in Threads \ {t} PROVE ~(registering'[v].pc # "idle" /\ registering'[v].log = l)
            <6>1. v \notin On(l)
              BY <4>1
            <6>. QED
              BY <1>5, <6>1 DEF On
          <5>. QED
            BY <5>1, <5>2
        <4>3. Cardinality(Waiting(l)) = 0
          BY <4>1, FS_EmptySet DEF Waiting
        <4>4. PICK n \in Nat : n = Len(leaf_hashes[l]) /\ n = Len(statements[l])
          <5>1. PICK n \in Nat : n = Len(leaf_hashes[l])
            BY <1>1 DEF ListsOK
          <5>. QED
            BY <1>1, <4>3, <5>1 DEF ListsOK
        <4>5. Len(statements'[l]) = n + 1 /\ statements'[l][n + 1] = document
          BY <1>1, <1>2, <4>4, Appended DEF ListsOK
        <4>6. LoneCall(new, statements'[l], leaf_hashes'[l])
          BY <1>2, <1>4, <4>4, <4>5 DEF LoneCall
        <4>. QED
          BY <1>3, <1>4, <3>1, <4>2, <4>6
      <3>2. CASE u # t
        <4>1. registering'[u] = registering[u] /\ registering[u].log # l
          <5>1. u \notin On(l)
            <6>. SUFFICES ASSUME u \in On(l) PROVE FALSE
              OBVIOUS
            <6>1. "alone" \in DOMAIN registering[u]
              BY <1>o, <3>2, Registering DEF CallOK
            <6>2. registering'[u].alone = FALSE
              BY <1>3, <3>2, <6>1
            <6>. QED
              BY <2>1, <6>2
          <5>2. registering'[u] = registering[u]
            BY <1>3, <3>2, <5>1
          <5>. QED
            BY <2>1, <5>1, <5>2, Registering
        <4>2. \A v \in Threads : \A k \in Logs \ {l} :
                registering'[v].pc # "idle" /\ registering'[v].log = k <=> registering[v].pc # "idle" /\ registering[v].log = k
          BY <1>2, <1>3, <1>4, <1>5
        <4>. QED
          BY <1>2, <2>1, <4>1, <4>2, OthersAlone
      <3>. QED
        BY <3>1, <3>2
    <2>2. \A r \in alone' : LoneReceipt(r, leaf_hashes'[r.log])
      BY <1>2, <1>6, ReceiptsStay
    <2>. QED
      BY <2>1, <2>2, LoneByParts
  <1>. QED
    BY <1>1, <1>2, <1>7, <1>8, <1>9, <1>10 DEF LogInv

LEMMA AppendLeafStep ==
  ASSUME LogInv, NEW t \in Threads, AppendLeaf(t)
  PROVE  LogInv'
  <1>1. PICK c, l : c = registering[t] /\ l = c.log
    OBVIOUS
  <1>b. PICK b : b = [c EXCEPT !.pc = "index"]
    OBVIOUS
  <1>2. /\ DOMAIN statements = Logs /\ DOMAIN leaf_hashes = Logs /\ DOMAIN registering = Threads
        /\ c.pc = "leaf" /\ c # IdleCall
    BY <1>1 DEF LogInv, AppendLeaf, IdleCall
  <1>3. l \in Logs /\ CallOK(c, statements[l], leaf_hashes[l]) /\ ListsOK(l)
    BY <1>1, <1>2, Registering DEF LogInv
  <1>4. /\ statements' = statements /\ issued' = issued /\ alone' = alone
        /\ DOMAIN leaf_hashes' = Logs /\ DOMAIN registering' = Threads
        /\ leaf_hashes'[l] = Append(leaf_hashes[l], _leaf(c.document))
        /\ \A k \in Logs \ {l} : leaf_hashes'[k] = leaf_hashes[k]
        /\ registering'[t] = b /\ \A u \in Threads \ {t} : registering'[u] = registering[u]
    BY <1>1, <1>2, <1>3, <1>b DEF AppendLeaf
  <1>5. /\ DOMAIN b = DOMAIN c /\ b.pc = "index" /\ b.log = l /\ b.document = c.document /\ b.index = c.index
        /\ b.size = c.size /\ b.root = c.root /\ b.alone = c.alone /\ b # IdleCall
    BY <1>1, <1>3, <1>b DEF CallOK, IdleCall
  <1>6. \A k \in Logs : Grown(statements[k], statements'[k]) /\ Grown(leaf_hashes[k], leaf_hashes'[k])
    <2>1. ASSUME NEW k \in Logs PROVE statements[k] \in Seq(Range(statements[k])) /\ leaf_hashes[k] \in Seq(Range(leaf_hashes[k]))
      BY DEF LogInv, ListsOK
    <2>2. Grown(leaf_hashes[l], leaf_hashes'[l])
      BY <1>3, <1>4, <2>1, Appended
    <2>. QED
      BY <1>4, <2>1, <2>2, GrownSelf
  <1>7. PICK n \in Nat : /\ n = Len(leaf_hashes[l]) /\ Len(leaf_hashes'[l]) = n + 1
                         /\ leaf_hashes'[l][n + 1] = _leaf(c.document)
                         /\ \A k \in 1 .. n : leaf_hashes'[l][k] = leaf_hashes[l][k]
                         /\ leaf_hashes'[l] \in Seq(Range(leaf_hashes'[l]))
    BY <1>3, <1>4, Appended DEF ListsOK
  <1>8. \A k \in Logs : ListsOK(k)'
    <2>1. ASSUME NEW k \in Logs, k # l PROVE ListsOK(k)'
      <3>1. Waiting(k)' = Waiting(k)
        BY <1>1, <1>2, <1>4, <1>5, <2>1 DEF Waiting, On
      <3>. QED
        BY <1>4, <2>1, <3>1, ListsStill
    <2>2. ListsOK(l)'
      <3>1. Waiting(l)' = Waiting(l) \ {t} /\ t \in Waiting(l)
        BY <1>1, <1>2, <1>4, <1>5 DEF Waiting, On
      <3>2. IsFiniteSet(Waiting(l)) /\ Cardinality(Waiting(l)) \in Nat
        BY <1>3, FS_CardinalityType DEF ListsOK
      <3>3. IsFiniteSet(Waiting(l)') /\ Cardinality(Waiting(l)') = Cardinality(Waiting(l)) - 1
        BY <3>1, <3>2, FS_RemoveElement
      <3>4. PICK w, v : w \in Nat /\ w = Cardinality(Waiting(l)) /\ v = Cardinality(Waiting(l)')
        BY <3>2
      <3>5. Len(statements[l]) = n + w
        BY <1>3, <1>7, <3>4 DEF ListsOK
      <3>6. Len(statements'[l]) = Len(leaf_hashes'[l]) + Cardinality(Waiting(l)')
        <4>1. v = w - 1
          BY <3>3, <3>4
        <4>2. n + w = n + 1 + v
          BY <3>4, <4>1
        <4>. QED
          BY <1>4, <1>7, <3>4, <3>5, <4>2
      <3>7. \A k \in DOMAIN leaf_hashes'[l] : \E d \in Range(statements'[l]) : leaf_hashes'[l][k] = _leaf(d)
        <4>1. /\ DOMAIN leaf_hashes'[l] = 1 .. n + 1 /\ DOMAIN leaf_hashes[l] = 1 .. n
              /\ c.document \in Range(statements[l])
          BY <1>3, <1>7 DEF CallOK, ListsOK
        <4>2. ASSUME NEW k \in 1 .. n + 1 PROVE \E d \in Range(statements[l]) : leaf_hashes'[l][k] = _leaf(d)
          <5>1. CASE k = n + 1
            BY <1>7, <4>1, <5>1
          <5>2. CASE k # n + 1
            <6>1. k \in 1 .. n
              BY <5>2
            <6>2. leaf_hashes'[l][k] = leaf_hashes[l][k] /\ k \in DOMAIN leaf_hashes[l]
              BY <1>7, <4>1, <6>1
            <6>. QED
              BY <1>3, <6>2 DEF ListsOK
          <5>. QED
            BY <5>1, <5>2
        <4>. QED
          BY <1>4, <4>1, <4>2
      <3>8. /\ statements'[l] \in Seq(Range(statements'[l])) /\ Len(statements'[l]) <= MaxSize[l]
            /\ l \notin Permissive => \A d \in Range(statements'[l]) : parse_statement(d, FALSE)
        BY <1>3, <1>4 DEF ListsOK
      <3>. QED
        BY <1>7, <3>3, <3>6, <3>7, <3>8 DEF ListsOK, Range
    <2>. QED
      BY <2>1, <2>2
  <1>9. CallsOK'
    <2>1. ASSUME NEW u \in Threads
          PROVE  LET a == registering'[u] IN a = IdleCall \/ CallOK(a, statements'[a.log], leaf_hashes'[a.log])
      <3>1. CASE u = t
        <4>1. leaf_hashes'[l] # <<>>
          BY <1>7
        <4>2. CallOK(b, statements[l], leaf_hashes'[l])
          BY <1>2, <1>3, <1>5, <4>1 DEF CallOK
        <4>. QED
          BY <1>4, <1>5, <3>1, <4>2
      <3>2. CASE u # t
        BY <1>4, <1>6, <3>2, CallsStay
      <3>. QED
        BY <3>1, <3>2
    <2>. QED
      BY <2>1 DEF CallsOK
  <1>10. ReceiptsOK'
    BY <1>4, <1>6, ReceiptsStay DEF ReceiptsOK
  <1>11. LoneOK'
    <2>m. \A v \in Threads : /\ registering'[v].pc # "idle" <=> registering[v].pc # "idle"
                             /\ registering'[v].log = registering[v].log
      BY <1>1, <1>2, <1>4, <1>5
    <2>1. ASSUME NEW u \in Threads, registering'[u] # IdleCall, registering'[u].alone
          PROVE  /\ \A v \in Threads : registering'[v].pc # "idle" /\ registering'[v].log = registering'[u].log <=> v = u
                 /\ LoneCall(registering'[u], statements'[registering'[u].log], leaf_hashes'[registering'[u].log])
      <3>1. CASE u = t
        <4>1. On(l) = {t} /\ LoneCall(c, statements[l], leaf_hashes[l])
          BY <1>1, <1>2, <1>4, <1>5, <2>1, <3>1 DEF LogInv, LoneOK
        <4>2. \A v \in Threads : registering'[v].pc # "idle" /\ registering'[v].log = l <=> v = t
          BY <2>m, <4>1 DEF On
        <4>3. LoneCall(b, statements[l], leaf_hashes'[l])
          BY <1>2, <1>5, <1>7, <4>1 DEF LoneCall
        <4>. QED
          BY <1>4, <1>5, <3>1, <4>2, <4>3
      <3>2. CASE u # t
        <4>1. registering'[u] = registering[u] /\ registering[u] # IdleCall /\ registering[u].alone
          BY <1>4, <2>1, <3>2
        <4>2. registering[u].log # l
          <5>1. On(registering[u].log) = {u}
            BY <4>1 DEF LogInv, LoneOK
          <5>2. t \in On(l)
            BY <1>1, <1>2 DEF On
          <5>. QED
            BY <3>2, <5>1, <5>2
        <4>. QED
          BY <1>3, <1>4, <2>m, <4>1, <4>2, OthersAlone
      <3>. QED
        BY <3>1, <3>2
    <2>2. \A r \in alone' : LoneReceipt(r, leaf_hashes'[r.log])
      BY <1>4, <1>6, ReceiptsStay
    <2>. QED
      BY <2>1, <2>2, LoneByParts
  <1>. QED
    BY <1>2, <1>4, <1>8, <1>9, <1>10, <1>11 DEF LogInv

LEMMA ReadsStep ==
  ASSUME LogInv, NEW t \in Threads, ReadIndex(t) \/ ReadSize(t) \/ ReadRoot(t)
  PROVE  LogInv'
  <1>1. PICK c, l : c = registering[t] /\ l = c.log
    OBVIOUS
  <1>2. c.pc \in {"index", "size", "root"} /\ c # IdleCall /\ c.pc # "leaf"
    BY <1>1 DEF ReadIndex, ReadSize, ReadRoot, IdleCall
  <1>3. l \in Logs /\ CallOK(c, statements[l], leaf_hashes[l]) /\ ListsOK(l)
    BY <1>1, <1>2, Registering DEF LogInv
  <1>4. PICK n \in Nat : n = Len(statements[l]) /\ n > 0
    <2>1. statements[l] \in Seq(Range(statements[l])) /\ Range(statements[l]) # {}
      BY <1>3 DEF ListsOK, CallOK
    <2>2. statements[l] # <<>>
      BY <2>1 DEF Range
    <2>. QED
      BY <2>1, <2>2
  <1>s. UNCHANGED <<statements, leaf_hashes, issued, alone>>
    BY DEF ReadIndex, ReadSize, ReadRoot
  <1>5. CASE ReadIndex(t)
    <2>1. PICK b : b = [c EXCEPT !.pc = "size", !.index = n - 1]
      OBVIOUS
    <2>2. /\ DOMAIN b = DOMAIN c /\ b.pc = "size" /\ b.log = l /\ b.document = c.document /\ b.index = n - 1
          /\ b.size = c.size /\ b.root = c.root /\ b.alone = c.alone
      BY <1>1, <1>3, <2>1 DEF CallOK
    <2>3. registering' = [registering EXCEPT ![t] = b] /\ c.pc = "index"
      BY <1>1, <1>4, <1>5, <2>1 DEF ReadIndex
    <2>4. CallOK(b, statements[l], leaf_hashes[l])
      BY <1>3, <1>4, <2>2, <2>3 DEF CallOK
    <2>5. LoneCall(c, statements[l], leaf_hashes[l]) => LoneCall(b, statements[l], leaf_hashes[l])
      BY <1>2, <1>4, <2>2 DEF LoneCall
    <2>. QED
      BY <1>1, <1>2, <1>s, <2>2, <2>3, <2>4, <2>5, ReadStep
  <1>6. CASE ReadSize(t)
    <2>1. PICK b : b = [c EXCEPT !.pc = "root", !.size = n]
      OBVIOUS
    <2>2. /\ DOMAIN b = DOMAIN c /\ b.pc = "root" /\ b.log = l /\ b.document = c.document /\ b.index = c.index
          /\ b.size = n /\ b.root = c.root /\ b.alone = c.alone
      BY <1>1, <1>3, <2>1 DEF CallOK
    <2>3. registering' = [registering EXCEPT ![t] = b] /\ c.pc = "size"
      BY <1>1, <1>4, <1>6, <2>1 DEF ReadSize
    <2>4. CallOK(b, statements[l], leaf_hashes[l])
      BY <1>3, <1>4, <2>2, <2>3 DEF CallOK
    <2>5. LoneCall(c, statements[l], leaf_hashes[l]) => LoneCall(b, statements[l], leaf_hashes[l])
      BY <1>4, <2>2, <2>3 DEF LoneCall
    <2>. QED
      BY <1>1, <1>2, <1>s, <2>2, <2>3, <2>4, <2>5, ReadStep
  <1>7. CASE ReadRoot(t)
    <2>1. PICK b : b = [c EXCEPT !.pc = "proof", !.root = _mth(leaf_hashes[l])]
      OBVIOUS
    <2>2. /\ DOMAIN b = DOMAIN c /\ b.pc = "proof" /\ b.log = l /\ b.document = c.document /\ b.index = c.index
          /\ b.size = c.size /\ b.root = _mth(leaf_hashes[l]) /\ b.alone = c.alone
      BY <1>1, <1>3, <2>1 DEF CallOK
    <2>3. registering' = [registering EXCEPT ![t] = b] /\ c.pc = "root"
      BY <1>1, <1>7, <2>1 DEF ReadRoot
    <2>r. RootOfSome(b.root, leaf_hashes[l])
      <3>1. leaf_hashes[l] \in Seq(Range(leaf_hashes[l])) /\ leaf_hashes[l] # <<>>
        BY <1>2, <1>3 DEF ListsOK, CallOK
      <3>2. Len(leaf_hashes[l]) \in 1 .. Len(leaf_hashes[l]) /\ SubSeq(leaf_hashes[l], 1, Len(leaf_hashes[l])) = leaf_hashes[l]
        BY <3>1, WholePrefix
      <3>. QED
        BY <2>2, <3>2 DEF RootOfSome
    <2>4. CallOK(b, statements[l], leaf_hashes[l])
      BY <1>3, <2>2, <2>3, <2>r DEF CallOK
    <2>5. LoneCall(c, statements[l], leaf_hashes[l]) => LoneCall(b, statements[l], leaf_hashes[l])
      BY <2>2, <2>3 DEF LoneCall
    <2>. QED
      BY <1>1, <1>2, <1>s, <2>2, <2>3, <2>4, <2>5, ReadStep
  <1>. QED
    BY <1>5, <1>6, <1>7

\* What a call signs at its end is the root and the path of some prefixes of the tree.
LEMMA SignedReceipt ==
  ASSUME LogInv, NEW t \in Threads, NEW c, NEW l, c = registering[t], l = c.log, c.pc = "proof", NEW receipt,
         receipt = [log |-> c.log, sub |-> c.document, index |-> c.index, size |-> c.size, root |-> c.root,
                    path |-> _audit_path(leaf_hashes[c.log], c.index)],
         c.index < Len(leaf_hashes[c.log])
  PROVE  ReceiptOK(receipt, leaf_hashes[l]) /\ (c.alone => LoneReceipt(receipt, leaf_hashes[l])) /\ receipt.log = l
  <1>1. c # IdleCall
    BY DEF IdleCall
  <1>2. l \in Logs /\ CallOK(c, statements[l], leaf_hashes[l]) /\ ListsOK(l)
    BY <1>1, Registering DEF LogInv
  <1>3. /\ receipt.log = l /\ receipt.sub = c.document /\ receipt.index = c.index /\ receipt.size = c.size
        /\ receipt.root = c.root /\ receipt.path = _audit_path(leaf_hashes[l], c.index)
    OBVIOUS
  <1>4. PICK n \in Nat, m \in Nat, i \in Nat : n = Len(leaf_hashes[l]) /\ m = Len(statements[l]) /\ i = c.index /\ i < n
    BY <1>2 DEF ListsOK, CallOK
  <1>5. SubSeq(leaf_hashes[l], 1, n) = leaf_hashes[l] /\ n \in 1 .. n
    BY <1>2, <1>4, WholePrefix DEF ListsOK
  <1>6. RootOfSome(receipt.root, leaf_hashes[l]) /\ PathOfSome(receipt.index, receipt.path, leaf_hashes[l])
    BY <1>2, <1>3, <1>4, <1>5 DEF CallOK, PathOfSome
  <1>7. c.index < c.size /\ c.size <= m /\ m <= MaxSize[l] /\ c.size \in Nat /\ MaxSize[l] \in Nat
    BY <1>2, <1>4, StatementAssumption DEF CallOK, ListsOK
  <1>8. c.size <= MaxSize[l]
    BY <1>7
  <1>9. ReceiptOK(receipt, leaf_hashes[l])
    BY <1>2, <1>3, <1>4, <1>6, <1>7, <1>8 DEF ReceiptOK
  <1>10. ASSUME c.alone PROVE LoneReceipt(receipt, leaf_hashes[l])
    <2>1. LoneCall(c, statements[l], leaf_hashes[l])
      BY <1>1, <1>10 DEF LogInv, LoneOK
    <2>2. m = n /\ leaf_hashes[l][n] = _leaf(c.document) /\ m = i + 1 /\ c.size = m /\ c.root = _mth(leaf_hashes[l])
      BY <1>4, <2>1 DEF LoneCall
    <2>3. c.size = i + 1 /\ n = i + 1 /\ c.size <= n
      BY <2>2
    <2>. QED
      BY <1>3, <1>4, <1>5, <2>2, <2>3 DEF LoneReceipt
  <1>. QED
    BY <1>3, <1>9, <1>10

LEMMA SignReceiptStep ==
  ASSUME LogInv, NEW t \in Threads, SignReceipt(t)
  PROVE  LogInv'
  <1>1. PICK c, l : c = registering[t] /\ l = c.log
    OBVIOUS
  <1>2. PICK receipt :
          receipt = [log |-> c.log, sub |-> c.document, index |-> c.index, size |-> c.size, root |-> c.root,
                     path |-> _audit_path(leaf_hashes[c.log], c.index)]
    OBVIOUS
  <1>3. /\ c.pc = "proof" /\ statements' = statements /\ leaf_hashes' = leaf_hashes
        /\ registering' = [registering EXCEPT ![t] = IdleCall]
        /\ IF c.index < Len(leaf_hashes[c.log])
           THEN issued' = issued \cup {receipt} /\ alone' = IF c.alone THEN alone \cup {receipt} ELSE alone
           ELSE UNCHANGED <<issued, alone>>
    BY <1>1, <1>2 DEF SignReceipt
  <1>4. /\ DOMAIN statements' = Logs /\ DOMAIN leaf_hashes' = Logs /\ DOMAIN registering' = Threads
        /\ registering'[t] = IdleCall /\ \A u \in Threads \ {t} : registering'[u] = registering[u]
    BY <1>3 DEF LogInv
  <1>5. c # IdleCall /\ IdleCall.pc = "idle"
    BY <1>3 DEF IdleCall
  <1>6. l \in Logs /\ t \in On(l)
    BY <1>1, <1>5, Registering
  <1>7. \A k \in Logs : ListsOK(k)'
    <2>1. ASSUME NEW k \in Logs PROVE Waiting(k)' = Waiting(k)
      BY <1>1, <1>3, <1>4, <1>5 DEF Waiting, On
    <2>. QED
      BY <1>3, <2>1, ListsStill
  <1>8. CallsOK'
    <2>1. ASSUME NEW u \in Threads
          PROVE  LET a == registering'[u] IN a = IdleCall \/ CallOK(a, statements'[a.log], leaf_hashes'[a.log])
      BY <1>3, <1>4 DEF LogInv, CallsOK
    <2>. QED
      BY <2>1 DEF CallsOK
  <1>r. c.index < Len(leaf_hashes[c.log]) =>
          ReceiptOK(receipt, leaf_hashes[receipt.log]) /\ (c.alone => LoneReceipt(receipt, leaf_hashes[receipt.log]))
    BY <1>1, <1>2, <1>3, SignedReceipt
  <1>9. ReceiptsOK'
    BY <1>3, <1>r DEF LogInv, ReceiptsOK
  <1>10. LoneOK'
    <2>1. ASSUME NEW u \in Threads, registering'[u] # IdleCall, registering'[u].alone
          PROVE  /\ \A v \in Threads : registering'[v].pc # "idle" /\ registering'[v].log = registering'[u].log <=> v = u
                 /\ LoneCall(registering'[u], statements'[registering'[u].log], leaf_hashes'[registering'[u].log])
      <3>1. u # t /\ registering'[u] = registering[u] /\ registering[u] # IdleCall /\ registering[u].alone
        BY <1>4, <2>1
      <3>2. registering[u].log # l
        <4>1. On(registering[u].log) = {u}
          BY <3>1 DEF LogInv, LoneOK
        <4>. QED
          BY <1>6, <3>1, <4>1
      <3>3. \A v \in Threads : \A k \in Logs \ {l} :
              registering'[v].pc # "idle" /\ registering'[v].log = k <=> registering[v].pc # "idle" /\ registering[v].log = k
        BY <1>1, <1>4, <1>5
      <3>. QED
        BY <1>3, <1>6, <3>1, <3>2, <3>3, OthersAlone
    <2>2. \A r \in alone' : LoneReceipt(r, leaf_hashes'[r.log])
      BY <1>3, <1>r DEF LogInv, LoneOK
    <2>. QED
      BY <2>1, <2>2, LoneByParts
  <1>. QED
    BY <1>4, <1>7, <1>8, <1>9, <1>10 DEF LogInv

LEMMA LogStays == LogInv /\ UNCHANGED logVars => LogInv'
  <1>. SUFFICES ASSUME LogInv, UNCHANGED logVars PROVE LogInv'
    OBVIOUS
  <1>1. /\ statements' = statements /\ leaf_hashes' = leaf_hashes /\ registering' = registering
        /\ issued' = issued /\ alone' = alone
    BY DEF logVars
  <1>2. \A l \in Logs : On(l)' = On(l) /\ Waiting(l)' = Waiting(l)
    BY <1>1 DEF On, Waiting
  <1>3. \A l \in Logs : ListsOK(l)'
    BY <1>1, <1>2, ListsStill
  <1>4. CallsOK' /\ ReceiptsOK'
    BY <1>1 DEF LogInv, CallsOK, ReceiptsOK
  <1>5. LoneOK'
    BY <1>1 DEF LogInv, LoneOK, On
  <1>. QED
    BY <1>1, <1>3, <1>4, <1>5 DEF LogInv

LEMMA LogStep == LogInv /\ [LogNext]_logVars => LogInv'
  <1>. SUFFICES ASSUME LogInv, LogNext PROVE LogInv'
    BY LogStays
  <1>1. CASE \E t \in Threads, l \in Logs : AppendStatement(t, l)
    BY <1>1, AppendStatementStep
  <1>2. CASE \E t \in Threads : AppendLeaf(t) \/ ReadIndex(t) \/ ReadSize(t) \/ ReadRoot(t) \/ SignReceipt(t)
    BY <1>2, AppendLeafStep, ReadsStep, SignReceiptStep
  <1>. QED
    BY <1>1, <1>2 DEF LogNext

LEMMA LogInvariant == LogSpec => []LogInv
  <1>. QED
    BY LogInvInit, LogStep, PTL DEF LogSpec

\* The lists of a log differ by what is between its appends, and a log with trusted issuers
\* holds what they signed (LocalTransparencyLog.register), for any threads and any sizes.
THEOREM LogTypesHold == LogSpec => []LogTypeOK
  <1>. QED
    BY LogInvariant, TypesFollow, PTL

\* A statement verify_transparent_statement accepts is in the tree of the log of each of its
\* receipts, at the receipt's index: a root and a path that were read while others appended
\* lead to each other only where they are of the same tree.
THEOREM LoggedHolds == LogSpec => []TransparentIsLogged
  <1>. QED
    BY LogInvariant, TransparentFollows, PTL

\* The receipt of a call of register that overlapped no other is over the tree of its size,
\* and verify_transparent_statement accepts it for the statement it was issued for.
THEOREM LoneHolds == LogSpec => []LoneReceiptsVerify
  <1>. QED
    BY LogInvariant, LoneFollows, PTL

=============================================================================
