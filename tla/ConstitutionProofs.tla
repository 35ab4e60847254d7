------------------------- MODULE ConstitutionProofs -------------------------
(* Theorems about Constitution, for any signers, documents, trust configs and *)
(* number of chains: as long as dishonest keys are fewer than each quorum     *)
(* that approved versions name, no other version gets into a chain.           *)
EXTENDS Constitution, FiniteSetTheorems, SequenceTheorems, WellFoundedInduction, TLAPS

-----------------------------------------------------------------------------
(* Trust configs and quorums *)

\* A nonempty set of positions has a last one.
LEMMA LastPosition ==
  ASSUME NEW n \in Nat, NEW S \in SUBSET (1 .. n), S # {}
  PROVE  \E i \in S : \A j \in S : j <= i
<1> DEFINE Less == OpToRel(<, Nat)
<1> DEFINE T == {n - i : i \in S}
<1>1. IsWellFoundedOn(Less, Nat)
  BY NatLessThanWellFounded
<1>2. \A x, y \in Nat : <<y, x>> \in Less <=> y < x
  BY DEF OpToRel
<1> HIDE DEF Less
<1>3. T \subseteq Nat /\ T # {}
  <2>1. \A i \in S : n - i \in Nat
    OBVIOUS
  <2> QED BY <2>1
<1>4. PICK x \in T : \A y \in T : ~(<<y, x>> \in Less)
  <2> HIDE DEF T
  <2> QED BY <1>1, <1>3, WFMin
<1>5. PICK i \in S : x = n - i
  BY <1>4
<1>6. ASSUME NEW j \in S PROVE j <= i
  <2>1. n - j \in T /\ n - j \in Nat /\ x \in Nat
    BY <1>3, <1>4
  <2>2. ~(n - j < x)
    BY <1>2, <1>4, <2>1
  <2> QED BY <1>5, <2>2
<1> QED BY <1>6

\* The trust config after some versions is the bootstrap, or the last of their
\* proposals.
LEMMA TrustAfterIs ==
  ASSUME NEW versions \in Seq(Constitutions)
  PROVE  \/ /\ TrustAfter(versions) = Bootstrap
            /\ \A i \in 1 .. Len(versions) : Proposed[versions[i]] = None
         \/ \E i \in 1 .. Len(versions) :
              /\ Proposed[versions[i]] # None /\ TrustAfter(versions) = Proposed[versions[i]]
              /\ \A j \in 1 .. Len(versions) : Proposed[versions[j]] # None => j <= i
<1> DEFINE Rotations == {i \in 1 .. Len(versions) : Proposed[versions[i]] # None}
<1>1. CASE Rotations = {}
  <2>1. TrustAfter(versions) = Bootstrap
    BY <1>1 DEF TrustAfter
  <2> QED BY <1>1, <2>1
<1>2. CASE Rotations # {}
  <2> DEFINE last == CHOOSE i \in Rotations : \A j \in Rotations : j <= i
  <2>1. \E i \in Rotations : \A j \in Rotations : j <= i
    <3>1. Len(versions) \in Nat /\ Rotations \in SUBSET (1 .. Len(versions))
      OBVIOUS
    <3> HIDE DEF Rotations
    <3> QED BY <1>2, <3>1, LastPosition
  <2>2. last \in Rotations /\ \A j \in Rotations : j <= last
    BY <2>1
  <2>3. TrustAfter(versions) = Proposed[versions[last]]
    BY <1>2 DEF TrustAfter
  <2> HIDE DEF last
  <2> QED BY <2>2, <2>3
<1> QED BY <1>1, <1>2

\* Among a quorum's signers one is honest, if the dishonest ones are too few.
LEMMA HonestSigner ==
  ASSUME NEW active \in TrustConfigs, FewDishonest(active),
         NEW c \in Constitutions, NEW signatures \in Seq(KeyIds),
         HasQuorum(c, signatures, active)
  PROVE  \E k \in Keys \ Dishonest : <<k, c>> \in signed
<1> DEFINE n == Len(signatures)
<1> DEFINE Bad == {id \in DOMAIN active.signers : active.signers[id] \in Dishonest}
<1>1. PICK ids \in SUBSET KeyIds : active.signers \in [ids -> Keys]
  BY DEF TrustConfigs
<1>2. ids = DOMAIN active.signers /\ active.quorum \in Nat /\ n \in Nat /\ n >= active.quorum
  BY <1>1 DEF TrustConfigs, HasQuorum
<1>3. IsFiniteSet(Bad) /\ Cardinality(Bad) \in Nat /\ Cardinality(Bad) < active.quorum
  <2>1. Bad \subseteq KeyIds
    BY <1>1, <1>2
  <2>2. IsFiniteSet(Bad)
    BY <2>1, ConstitutionAssumption, FS_Subset
  <2> QED BY <2>2, FS_CardinalityType DEF FewDishonest
<1>4. IsFiniteSet(1 .. n) /\ Cardinality(1 .. n) = n
  <2>1. 1 \in Int /\ n \in Int
    BY <1>2
  <2>2. IsFiniteSet(1 .. n) /\ Cardinality(1 .. n) = IF 1 > n THEN 0 ELSE n - 1 + 1
    BY <2>1, FS_Interval
  <2> QED BY <1>2, <2>2
<1>5. SUFFICES ASSUME \A i \in 1 .. n : signatures[i] \in Bad PROVE FALSE
  <2>1. \A i \in 1 .. n : signatures[i] \in ids /\ <<active.signers[signatures[i]], c>> \in signed
    BY <1>2 DEF HasQuorum
  <2>2. PICK i \in 1 .. n : signatures[i] \notin Bad
    BY <1>5
  <2>3. active.signers[signatures[i]] \in Keys \ Dishonest
    BY <1>1, <2>1, <2>2
  <2> QED BY <2>1, <2>3
<1>6. [i \in 1 .. n |-> signatures[i]] \in [1 .. n -> Bad]
  BY <1>5
<1>7. PICK i, j \in 1 .. n : i # j /\ signatures[i] = signatures[j]
  <2> DEFINE f == [i \in 1 .. n |-> signatures[i]]
  <2>1. Cardinality(Bad) < Cardinality(1 .. n)
    BY <1>2, <1>3, <1>4
  <2>2. f \in [1 .. n -> Bad]
    BY <1>6
  <2> HIDE DEF f, Bad
  <2>3. \E i, j \in 1 .. n : i # j /\ f[i] = f[j]
    BY <1>3, <1>4, <2>1, <2>2, FS_PigeonHole
  <2> QED BY <2>3 DEF f
<1> QED BY <1>7 DEF HasQuorum

-----------------------------------------------------------------------------
(* The inductive invariant *)

\* Honest keys sign approved constitutions only.
HonestlySigned ==
  \A k \in Keys \ Dishonest, c \in Constitutions : <<k, c>> \in signed => c \in Approved

\* Each version names the one before it.
Linked ==
  \A o \in Chains : \A i \in Versions(o) :
    IF i = 1 THEN Previous[chain[o][i]] = None ELSE Previous[chain[o][i]] = chain[o][i - 1]

IInv == TypeOK /\ HonestlySigned /\ OnlyApproved /\ Linked

\* The trust config of a chain's next version has few dishonest members.
LEMMA ActiveTrust ==
  ASSUME TypeOK, OnlyApproved, NEW o \in Chains
  PROVE  TrustAfter(chain[o]) \in TrustConfigs /\ FewDishonest(TrustAfter(chain[o]))
<1>1. chain[o] \in Seq(Constitutions) /\ \A i \in Versions(o) : chain[o][i] \in Approved
  BY DEF TypeOK, OnlyApproved
<1>2. CASE TrustAfter(chain[o]) = Bootstrap
  BY <1>2, ConstitutionAssumption, TrustAssumption
<1>3. ASSUME NEW i \in Versions(o), Proposed[chain[o][i]] # None,
             TrustAfter(chain[o]) = Proposed[chain[o][i]]
      PROVE  TrustAfter(chain[o]) \in TrustConfigs /\ FewDishonest(TrustAfter(chain[o]))
  <2>1. chain[o][i] \in Approved /\ chain[o][i] \in Constitutions
    BY <1>1 DEF Versions
  <2>2. Proposed[chain[o][i]] \in TrustConfigs
    BY <1>3, <2>1, ConstitutionAssumption
  <2> QED BY <1>3, <2>1, <2>2, TrustAssumption
<1> QED BY <1>1, <1>2, <1>3, TrustAfterIs DEF Versions

\* Admission of an approved successor keeps everything.
LEMMA AdmitStep ==
  ASSUME IInv, NEW o \in Chains, NEW c \in Constitutions, NEW s \in Seq(KeyIds),
         NEW active \in TrustConfigs, FewDishonest(active), _admit(o, c, s, active)
  PROVE  IInv'
<1>1. PICK n \in Nat : n = Len(chain[o])
  BY DEF IInv, TypeOK
<1>2. c \in Approved
  <2>1. HasQuorum(c, s, active)
    BY DEF _admit
  <2>2. PICK k \in Keys \ Dishonest : <<k, c>> \in signed
    BY <2>1, HonestSigner
  <2> QED BY <2>2 DEF IInv, HonestlySigned
<1>3. /\ chain \in [Chains -> Seq(Constitutions)] /\ signed' = signed
      /\ chain' = [chain EXCEPT ![o] = Append(chain[o], c)]
  BY DEF IInv, TypeOK, _admit
<1>4. chain'[o] = Append(chain[o], c) /\ \A p \in Chains : p # o => chain'[p] = chain[p]
  BY <1>3
<1>5. chain[o] \in Seq(Constitutions) /\ chain'[o] \in Seq(Constitutions)
  BY <1>3, <1>4
<1>6. /\ Len(chain'[o]) = n + 1 /\ chain'[o][n + 1] = c
      /\ \A i \in 1 .. n : chain'[o][i] = chain[o][i]
  BY <1>1, <1>4, <1>5
<1>7. chain' \in [Chains -> Seq(Constitutions)]
  BY <1>3, <1>5, <1>4
<1>8. Version[c] = n + 1 /\ (IF n = 0 THEN Previous[c] = None ELSE Previous[c] = chain[o][n])
  <2>1. Supersedes(c, chain[o])
    BY DEF _admit
  <2>2. CASE n = 0
    <3>1. chain[o] = <<>>
      BY <1>1, <1>5, <2>2, EmptySeq
    <3> QED BY <2>1, <2>2, <3>1 DEF Supersedes
  <2>3. CASE n # 0
    <3>1. chain[o] # <<>> /\ n \in Versions(o)
      BY <1>1, <1>5, <2>3 DEF Versions
    <3>2. Version[chain[o][n]] = n
      BY <3>1 DEF IInv, TypeOK
    <3> QED BY <1>1, <2>1, <2>3, <3>1, <3>2 DEF Supersedes
  <2> QED BY <2>2, <2>3
<1>9. ASSUME NEW p \in Chains, NEW i \in 1 .. Len(chain'[p])
      PROVE  /\ Version[chain'[p][i]] = i /\ chain'[p][i] \in Approved
             /\ IF i = 1 THEN Previous[chain'[p][i]] = None ELSE Previous[chain'[p][i]] = chain'[p][i - 1]
  <2>1. CASE p # o
    <3>1. chain'[p] = chain[p] /\ i \in Versions(p)
      BY <1>4, <1>9, <2>1 DEF Versions
    <3>2. Version[chain[p][i]] = i /\ chain[p][i] \in Approved
      BY <3>1 DEF IInv, TypeOK, OnlyApproved
    <3>3. IF i = 1 THEN Previous[chain[p][i]] = None ELSE Previous[chain[p][i]] = chain[p][i - 1]
      BY <3>1 DEF IInv, Linked
    <3> QED BY <3>1, <3>2, <3>3
  <2>2. CASE p = o /\ i = n + 1
    <3>1. chain'[p][i] = c
      BY <1>6, <2>2
    <3>2. i # 1 => i - 1 = n /\ n \in 1 .. n /\ n # 0
      BY <2>2
    <3>3. i = 1 => n = 0
      BY <2>2
    <3>4. n # 0 => chain'[p][n] = chain[o][n]
      BY <1>6, <2>2
    <3> QED BY <1>2, <1>8, <2>2, <3>1, <3>2, <3>3, <3>4
  <2>3. CASE p = o /\ i # n + 1
    <3>1. i \in Versions(o) /\ i \in 1 .. n /\ (i # 1 => i - 1 \in 1 .. n)
      BY <1>1, <1>6, <1>9, <2>3 DEF Versions
    <3>2. chain'[p][i] = chain[o][i] /\ (i # 1 => chain'[p][i - 1] = chain[o][i - 1])
      BY <1>6, <2>3, <3>1
    <3> QED BY <3>1, <3>2 DEF IInv, TypeOK, OnlyApproved, Linked
  <2> QED BY <2>1, <2>2, <2>3
<1>10. TypeOK'
  BY <1>3, <1>7, <1>9 DEF IInv, TypeOK, Versions
<1>11. OnlyApproved' /\ Linked'
  BY <1>9 DEF OnlyApproved, Linked, Versions
<1>12. HonestlySigned'
  BY <1>3 DEF IInv, HonestlySigned
<1> QED BY <1>10, <1>11, <1>12 DEF IInv

\* IInv holds of every reachable state.
LEMMA Invariance == Spec => []IInv
<1>1. Init => IInv
  <2> SUFFICES ASSUME Init PROVE IInv
    OBVIOUS
  <2>1. \A o \in Chains : chain[o] = <<>> /\ Versions(o) = {}
    BY DEF Init, Versions
  <2>2. TypeOK
    BY <2>1, ConstitutionAssumption DEF Init, TypeOK
  <2>3. HonestlySigned
    BY DEF Init, HonestlySigned
  <2> QED BY <2>1, <2>2, <2>3 DEF IInv, OnlyApproved, Linked
<1>2. IInv /\ [Next]_vars => IInv'
  <2> SUFFICES ASSUME IInv, [Next]_vars PROVE IInv'
    OBVIOUS
  <2>1. \A s \in Signatures : s \in Seq(KeyIds)
    BY DEF Signatures
  <2>2. ASSUME NEW o \in Chains, NEW c \in Constitutions, NEW s \in Signatures, Construct(o, c, s)
        PROVE  IInv'
    <3>1. Bootstrap \in TrustConfigs /\ FewDishonest(Bootstrap)
      BY ConstitutionAssumption, TrustAssumption
    <3>2. _admit(o, c, s, Bootstrap)
      BY <2>2 DEF Construct
    <3> QED BY <2>1, <3>1, <3>2, AdmitStep
  <2>3. ASSUME NEW o \in Chains, NEW c \in Constitutions, NEW s \in Signatures, append(o, c, s)
        PROVE  IInv'
    <3>1. TrustAfter(chain[o]) \in TrustConfigs /\ FewDishonest(TrustAfter(chain[o]))
      BY ActiveTrust DEF IInv
    <3>2. _admit(o, c, s, TrustAfter(chain[o]))
      BY <2>3 DEF append
    <3> QED BY <2>1, <3>1, <3>2, AdmitStep
  <2>4. ASSUME NEW o \in Chains, Drop(o) PROVE IInv'
    <3>1. /\ chain \in [Chains -> Seq(Constitutions)] /\ chain' = [chain EXCEPT ![o] = <<>>]
          /\ signed' = signed
      BY <2>4 DEF Drop, IInv, TypeOK
    <3>2. chain'[o] = <<>> /\ \A p \in Chains : p # o => chain'[p] = chain[p]
      BY <3>1
    <3>3. chain' \in [Chains -> Seq(Constitutions)]
      BY <3>1
    <3>4. ASSUME NEW p \in Chains, NEW i \in 1 .. Len(chain'[p])
          PROVE  p # o /\ i \in Versions(p) /\ chain'[p] = chain[p]
      BY <3>2, <3>4 DEF Versions
    <3>5. TypeOK'
      BY <3>1, <3>3, <3>4 DEF IInv, TypeOK, Versions
    <3>6. ASSUME NEW p \in Chains, NEW i \in 1 .. Len(chain'[p])
          PROVE  /\ chain'[p][i] \in Approved
                 /\ IF i = 1 THEN Previous[chain'[p][i]] = None
                    ELSE Previous[chain'[p][i]] = chain'[p][i - 1]
      <4>1. i \in Versions(p) /\ chain'[p] = chain[p]
        BY <3>4
      <4>2. chain[p][i] \in Approved
        BY <4>1 DEF IInv, OnlyApproved
      <4>3. IF i = 1 THEN Previous[chain[p][i]] = None ELSE Previous[chain[p][i]] = chain[p][i - 1]
        BY <4>1 DEF IInv, Linked
      <4> QED BY <4>1, <4>2, <4>3
    <3>8. OnlyApproved' /\ Linked'
      BY <3>6 DEF OnlyApproved, Linked, Versions
    <3>7. HonestlySigned'
      BY <3>1 DEF IInv, HonestlySigned
    <3> QED BY <3>5, <3>7, <3>8 DEF IInv
  <2>5. ASSUME NEW k \in Keys, NEW c \in Constitutions, sign_constitution(k, c) PROVE IInv'
    <3>1. signed' = signed \cup {<<k, c>>} /\ chain' = chain /\ (k \in Dishonest \/ c \in Approved)
      BY <2>5 DEF sign_constitution
    <3>2. HonestlySigned'
      BY <3>1 DEF IInv, HonestlySigned
    <3> QED BY <3>1, <3>2 DEF IInv, TypeOK, OnlyApproved, Linked, Versions
  <2>6. CASE UNCHANGED vars
    BY <2>6 DEF vars, IInv, TypeOK, HonestlySigned, OnlyApproved, Linked, Versions
  <2> QED BY <2>2, <2>3, <2>4, <2>5, <2>6 DEF Next
<1> QED BY <1>1, <1>2, PTL DEF Spec

-----------------------------------------------------------------------------
(* Theorems *)

\* Every variable stays in its range; versions are numbered by their positions.
THEOREM TypeCorrect == Spec => []TypeOK
<1>1. IInv => TypeOK
  BY DEF IInv
<1> QED BY <1>1, Invariance, PTL

\* No chain, kept or rebuilt offline, has a version that was not approved.
THEOREM OnlyApprovedHolds == Spec => []OnlyApproved
<1>1. IInv => OnlyApproved
  BY DEF IInv
<1> QED BY <1>1, Invariance, PTL

\* If approved versions never branch, two chains cannot part: at the first position where
\* they would, both versions name the same predecessor.
THEOREM AgreeHolds == Spec => []ChainsAgree
<1>1. ASSUME IInv, \A c, d \in Approved : Previous[c] = Previous[d] => c = d,
             NEW o \in Chains, NEW p \in Chains
      PROVE  \A i \in Versions(o) \cap Versions(p) : chain[o][i] = chain[p][i]
  <2> DEFINE n == Len(chain[o])
             Both == Versions(o) \cap Versions(p)
             Apart == {i \in Both : chain[o][i] # chain[p][i]}
             S == {n + 1 - i : i \in Apart}
  <2>1. n \in Nat /\ Both \subseteq 1 .. n /\ Len(chain[p]) \in Nat
    BY <1>1 DEF IInv, TypeOK, Versions
  <2>2. SUFFICES ASSUME Apart # {} PROVE FALSE
    OBVIOUS
  <2>3. S \in SUBSET (1 .. n) /\ S # {}
    BY <2>1, <2>2
  <2>4. PICK x \in S : \A y \in S : y <= x
    <3> HIDE DEF S, n
    <3> QED BY <2>1, <2>3, LastPosition
  <2>5. PICK i \in Apart : x = n + 1 - i
    BY <2>4
  <2>6. \A j \in Apart : i <= j
    <3> SUFFICES ASSUME NEW j \in Apart PROVE i <= j
      OBVIOUS
    <3>1. n + 1 - j \in S
      OBVIOUS
    <3>2. n + 1 - j <= n + 1 - i
      BY <2>4, <2>5, <3>1
    <3> QED BY <2>1, <3>2
  <2>7. i \in Versions(o) /\ i \in Versions(p) /\ i \in Nat /\ i >= 1
    BY <2>1
  <2>8. chain[o][i] \in Approved /\ chain[p][i] \in Approved
    BY <1>1, <2>7 DEF IInv, OnlyApproved
  <2>9. Previous[chain[o][i]] = Previous[chain[p][i]]
    <3>1. CASE i = 1
      BY <1>1, <2>7, <3>1 DEF IInv, Linked
    <3>2. CASE i # 1
      <4>1. i - 1 \in Both /\ ~(i <= i - 1)
        BY <2>1, <2>7, <3>2 DEF Versions
      <4>2. chain[o][i - 1] = chain[p][i - 1]
        BY <2>6, <4>1
      <4>3. /\ Previous[chain[o][i]] = chain[o][i - 1]
            /\ Previous[chain[p][i]] = chain[p][i - 1]
        BY <1>1, <2>7, <3>2 DEF IInv, Linked
      <4> QED BY <4>2, <4>3
    <3> QED BY <3>1, <3>2
  <2> QED BY <1>1, <2>8, <2>9
<1>2. IInv => ChainsAgree
  BY <1>1 DEF ChainsAgree
<1> QED BY <1>2, Invariance, PTL

\* A verdict other than DENY comes from an approved constitution.
THEOREM VerdictsHold == Spec => []VerdictsAreApproved
<1>1. ASSUME IInv PROVE VerdictsAreApproved
  <2> SUFFICES ASSUME NEW o \in Chains, NEW a \in Actions, NEW c \in Constitutions,
                      adjudicate_receipt(o, a, c) # "DENY"
               PROVE  c \in Approved /\ a \notin Denied[c]
    BY DEF VerdictsAreApproved
  <2>1. governed_version(o, c) /\ governance_check(a, c) # "DENY"
    BY DEF adjudicate_receipt
  <2>2. c \in Approved
    BY <1>1, <2>1 DEF IInv, OnlyApproved, Versions, governed_version
  <2>3. a \notin Denied[c]
    BY <2>1 DEF governance_check
  <2> QED BY <2>2, <2>3
<1> QED BY <1>1, Invariance, PTL

-----------------------------------------------------------------------------
(* Quorums, position by position *)

\* The trust config of position i of some versions, as ForwardOnlyQuorum has it.
Ruling(versions, i) ==
  LET Before == {j \in 1 .. i - 1 : Proposed[versions[j]] # None} IN
  IF Before = {} THEN Bootstrap
  ELSE CHOOSE t \in {Proposed[versions[j]] : j \in Before} :
         \E j \in Before : t = Proposed[versions[j]] /\ \A k \in Before : k <= j

\* The names of a trust config whose keys have signed c, by what is signed.
Signatories(trust, c, S) == {id \in DOMAIN trust.signers : <<trust.signers[id], c>> \in S}

QuorumFor(trust, c) == Cardinality(Signatories(trust, c, signed)) >= trust.quorum

QuorumInv == \A o \in Chains : \A i \in Versions(o) : QuorumFor(Ruling(chain[o], i), chain[o][i])

\* It is the bootstrap, or the last proposal before the position.
LEMMA RulingIs ==
  ASSUME NEW versions, NEW i \in Nat \ {0}
  PROVE  \/ /\ \A j \in 1 .. i - 1 : Proposed[versions[j]] = None
            /\ Ruling(versions, i) = Bootstrap
         \/ \E j \in 1 .. i - 1 :
              /\ Proposed[versions[j]] # None
              /\ Ruling(versions, i) = Proposed[versions[j]]
              /\ \A k \in 1 .. i - 1 : Proposed[versions[k]] # None => k <= j
<1> DEFINE Before == {j \in 1 .. i - 1 : Proposed[versions[j]] # None}
           Proposals == {Proposed[versions[j]] : j \in Before}
           IsLast(t) == \E j \in Before : t = Proposed[versions[j]] /\ \A k \in Before : k <= j
<1>1. CASE Before = {}
  BY <1>1 DEF Ruling
<1>2. CASE Before # {}
  <2>1. \E j \in Before : \A k \in Before : k <= j
    <3>1. i - 1 \in Nat /\ Before \in SUBSET (1 .. i - 1)
      OBVIOUS
    <3> HIDE DEF Before
    <3> QED BY <1>2, <3>1, LastPosition
  <2>2. \E t \in Proposals : IsLast(t)
    BY <2>1
  <2>3. Ruling(versions, i) = CHOOSE t \in Proposals : IsLast(t)
    BY <1>2 DEF Ruling
  <2>4. IsLast(Ruling(versions, i))
    <3> HIDE DEF Proposals, IsLast
    <3> QED BY <2>2, <2>3
  <2> QED BY <2>4
<1> QED BY <1>1, <1>2

\* It depends on the versions before the position only.
LEMMA RulingAgrees ==
  ASSUME NEW v, NEW w, NEW i \in Nat \ {0}, \A j \in 1 .. i - 1 : v[j] = w[j]
  PROVE  Ruling(v, i) = Ruling(w, i)
<1>1. CASE \A j \in 1 .. i - 1 : Proposed[v[j]] = None
  <2>1. Ruling(v, i) = Bootstrap
    BY <1>1, RulingIs
  <2>2. Ruling(w, i) = Bootstrap
    BY <1>1, RulingIs
  <2> QED BY <2>1, <2>2
<1>2. CASE \E j \in 1 .. i - 1 : Proposed[v[j]] # None
  <2>1. PICK j \in 1 .. i - 1 :
          /\ Proposed[v[j]] # None /\ Ruling(v, i) = Proposed[v[j]]
          /\ \A k \in 1 .. i - 1 : Proposed[v[k]] # None => k <= j
    BY <1>2, RulingIs
  <2>2. PICK m \in 1 .. i - 1 :
          /\ Proposed[w[m]] # None /\ Ruling(w, i) = Proposed[w[m]]
          /\ \A k \in 1 .. i - 1 : Proposed[w[k]] # None => k <= m
    BY <1>2, RulingIs
  <2>3. j = m
    <3>1. j <= m /\ m <= j
      BY <2>1, <2>2
    <3> QED BY <3>1
  <2> QED BY <2>1, <2>2, <2>3
<1> QED BY <1>1, <1>2

\* For the next position it is trust_active_for_next.
LEMMA RulingOfNext ==
  ASSUME NEW v \in Seq(Constitutions)
  PROVE  Ruling(v, Len(v) + 1) = TrustAfter(v)
<1> DEFINE n == Len(v)
<1>1. n \in Nat /\ n + 1 \in Nat \ {0} /\ (n + 1) - 1 = n
  OBVIOUS
<1>2. CASE \A j \in 1 .. n : Proposed[v[j]] = None
  <2>1. Ruling(v, n + 1) = Bootstrap
    <3> HIDE DEF n
    <3> QED BY <1>1, <1>2, RulingIs
  <2>2. TrustAfter(v) = Bootstrap
    BY <1>2, TrustAfterIs
  <2> QED BY <2>1, <2>2
<1>3. CASE \E j \in 1 .. n : Proposed[v[j]] # None
  <2>1. PICK j \in 1 .. n :
          /\ Proposed[v[j]] # None /\ Ruling(v, n + 1) = Proposed[v[j]]
          /\ \A k \in 1 .. n : Proposed[v[k]] # None => k <= j
    <3> HIDE DEF n
    <3> QED BY <1>1, <1>3, RulingIs
  <2>2. PICK m \in 1 .. n :
          /\ Proposed[v[m]] # None /\ TrustAfter(v) = Proposed[v[m]]
          /\ \A k \in 1 .. n : Proposed[v[k]] # None => k <= m
    BY <1>3, TrustAfterIs
  <2>3. j = m
    <3>1. j <= m /\ m <= j
      BY <2>1, <2>2
    <3> QED BY <1>1, <3>1
  <2> QED BY <2>1, <2>2, <2>3
<1> QED BY <1>2, <1>3

\* What _verify_quorum counts is a quorum of distinct signers.
LEMMA QuorumCounts ==
  ASSUME NEW active \in TrustConfigs, NEW c \in Constitutions, NEW signatures \in Seq(KeyIds),
         HasQuorum(c, signatures, active)
  PROVE  QuorumFor(active, c)
<1> DEFINE n == Len(signatures)
           Q == {id \in DOMAIN active.signers : <<active.signers[id], c>> \in signed}
<1>1. n \in Nat /\ active.quorum \in Nat /\ n >= active.quorum
  BY DEF TrustConfigs, HasQuorum
<1>2. IsFiniteSet(Q) /\ Cardinality(Q) \in Nat
  <2>1. PICK ids \in SUBSET KeyIds : active.signers \in [ids -> Keys]
    BY DEF TrustConfigs
  <2>2. Q \subseteq KeyIds
    BY <2>1
  <2> HIDE DEF Q
  <2>3. IsFiniteSet(Q)
    BY <2>2, ConstitutionAssumption, FS_Subset
  <2> QED BY <2>3, FS_CardinalityType
<1>3. IsFiniteSet(1 .. n) /\ Cardinality(1 .. n) = n
  <2>1. 1 \in Int /\ n \in Int
    BY <1>1
  <2>2. IsFiniteSet(1 .. n) /\ Cardinality(1 .. n) = IF 1 > n THEN 0 ELSE n - 1 + 1
    BY <2>1, FS_Interval
  <2> QED BY <1>1, <2>2
<1>4. ~(Cardinality(Q) < n)
  <2> SUFFICES ASSUME Cardinality(Q) < n PROVE FALSE
    OBVIOUS
  <2> DEFINE f == [i \in 1 .. n |-> signatures[i]]
  <2>1. f \in [1 .. n -> Q]
    BY DEF HasQuorum
  <2> HIDE DEF f, Q
  <2>2. PICK i, j \in 1 .. n : i # j /\ f[i] = f[j]
    BY <1>2, <1>3, <2>1, FS_PigeonHole
  <2>3. signatures[i] = signatures[j]
    BY <2>2 DEF f
  <2> QED BY <2>2, <2>3 DEF HasQuorum
<1>5. Cardinality(Q) >= active.quorum
  <2> HIDE DEF Q, n
  <2> QED BY <1>1, <1>2, <1>4
<1> QED BY <1>5 DEF QuorumFor, Signatories

\* Signatures are never taken back.
LEMMA QuorumStays ==
  ASSUME NEW trust \in TrustConfigs, NEW c, NEW S, NEW T, S \subseteq T,
         Cardinality(Signatories(trust, c, S)) >= trust.quorum
  PROVE  Cardinality(Signatories(trust, c, T)) >= trust.quorum
<1> DEFINE Q == Signatories(trust, c, S)
           R == Signatories(trust, c, T)
<1>1. PICK ids \in SUBSET KeyIds : trust.signers \in [ids -> Keys]
  BY DEF TrustConfigs
<1>2. Q \subseteq R /\ R \subseteq KeyIds /\ trust.quorum \in Nat
  BY <1>1 DEF TrustConfigs, Signatories
<1>3. Cardinality(Q) >= trust.quorum
  OBVIOUS
<1> SUFFICES Cardinality(R) >= trust.quorum
  OBVIOUS
<1> HIDE DEF Q, R
<1>4. IsFiniteSet(R)
  BY <1>2, ConstitutionAssumption, FS_Subset
<1>5. IsFiniteSet(Q) /\ Cardinality(Q) <= Cardinality(R)
  BY <1>2, <1>4, FS_Subset
<1>6. Cardinality(Q) \in Nat /\ Cardinality(R) \in Nat
  BY <1>4, <1>5, FS_CardinalityType
<1> QED BY <1>2, <1>3, <1>5, <1>6

\* What rules a position of a chain is a trust config.
LEMMA RulingIsTrust ==
  ASSUME TypeOK, NEW o \in Chains, NEW i \in Versions(o)
  PROVE  Ruling(chain[o], i) \in TrustConfigs
<1>1. chain[o] \in Seq(Constitutions) /\ i \in 1 .. Len(chain[o]) /\ i \in Nat \ {0}
  BY DEF TypeOK, Versions
<1>2. CASE Ruling(chain[o], i) = Bootstrap
  BY <1>2, ConstitutionAssumption
<1>3. ASSUME NEW j \in 1 .. i - 1, Proposed[chain[o][j]] # None,
             Ruling(chain[o], i) = Proposed[chain[o][j]]
      PROVE  Ruling(chain[o], i) \in TrustConfigs
  <2>1. chain[o][j] \in Constitutions
    BY <1>1
  <2> QED BY <1>3, <2>1, ConstitutionAssumption
<1> QED BY <1>1, <1>2, <1>3, RulingIs

\* A position that a step leaves alone keeps its quorum.
LEMMA PositionStays ==
  ASSUME TypeOK, QuorumInv, signed \subseteq signed', NEW o \in Chains, NEW i \in Versions(o),
         \A j \in 1 .. i : chain'[o][j] = chain[o][j]
  PROVE  QuorumFor(Ruling(chain[o], i), chain[o][i])'
<1> DEFINE trust == Ruling(chain[o], i)
           c == chain[o][i]
<1>1. i \in Nat \ {0} /\ trust \in TrustConfigs
  BY RulingIsTrust DEF TypeOK, Versions
<1>2. Cardinality(Signatories(trust, c, signed)) >= trust.quorum
  BY DEF QuorumInv, QuorumFor
<1>3. chain'[o][i] = c
  BY <1>1
<1>4. Ruling(chain'[o], i) = trust
  <2>1. \A j \in 1 .. i - 1 : chain'[o][j] = chain[o][j]
    BY <1>1
  <2> QED BY <1>1, <2>1, RulingAgrees
<1> HIDE DEF trust, c
<1>5. Cardinality(Signatories(trust, c, signed')) >= trust.quorum
  BY <1>1, <1>2, QuorumStays
<1> QED BY <1>3, <1>4, <1>5 DEF QuorumFor, Signatories

\* Admission gives the new position its quorum.
LEMMA AdmittedHasQuorum ==
  ASSUME IInv, QuorumInv, NEW o \in Chains, NEW c \in Constitutions, NEW s \in Seq(KeyIds),
         _admit(o, c, s, TrustAfter(chain[o]))
  PROVE  QuorumInv'
<1>0. PICK n \in Nat : n = Len(chain[o])
  BY DEF IInv, TypeOK
<1>1. chain[o] \in Seq(Constitutions) /\ n \in Nat /\ signed' = signed
  BY DEF IInv, TypeOK, _admit
<1>2. chain'[o] = Append(chain[o], c) /\ \A p \in Chains : p # o => chain'[p] = chain[p]
  BY DEF IInv, TypeOK, _admit
<1>3. /\ Len(chain'[o]) = n + 1 /\ chain'[o][n + 1] = c
      /\ \A i \in 1 .. n : chain'[o][i] = chain[o][i]
  BY <1>0, <1>1, <1>2
<1>4. QuorumFor(Ruling(chain[o], n + 1), chain[o][n + 1])'
  <2> DEFINE trust == TrustAfter(chain[o])
  <2>1. trust \in TrustConfigs /\ HasQuorum(c, s, trust)
    BY ActiveTrust DEF IInv, _admit
  <2>2. QuorumFor(trust, c)
    BY <2>1, QuorumCounts
  <2>3. Ruling(chain'[o], n + 1) = trust
    <3>1. Ruling(chain[o], n + 1) = trust
      BY <1>0, <1>1, RulingOfNext
    <3>2. \A j \in 1 .. (n + 1) - 1 : chain'[o][j] = chain[o][j]
      BY <1>1, <1>3
    <3>3. n + 1 \in Nat \ {0}
      BY <1>1
    <3>4. Ruling(chain'[o], n + 1) = Ruling(chain[o], n + 1)
      BY <3>2, <3>3, RulingAgrees
    <3> QED BY <3>1, <3>4
  <2> HIDE DEF trust
  <2> QED BY <1>1, <1>3, <2>2, <2>3 DEF QuorumFor, Signatories
<1>5. ASSUME NEW p \in Chains, NEW i \in 1 .. Len(chain'[p])
      PROVE  QuorumFor(Ruling(chain[p], i), chain[p][i])'
  <2>1. CASE p = o /\ i = n + 1
    BY <1>4, <2>1
  <2>2. CASE ~(p = o /\ i = n + 1)
    <3>1. i \in Versions(p) /\ \A j \in 1 .. i : chain'[p][j] = chain[p][j]
      BY <1>0, <1>1, <1>2, <1>3, <2>2 DEF Versions
    <3> QED BY <1>1, <3>1, PositionStays DEF IInv
  <2> QED BY <2>1, <2>2
<1> QED BY <1>5 DEF QuorumInv, Versions

\* A rotation takes effect for later versions and for no other (trust_active_for_next):
\* each version has a quorum of the set that the last rotation before it named.
THEOREM ForwardHolds == Spec => []ForwardOnlyQuorum
<1>1. Init => QuorumInv
  BY DEF Init, QuorumInv, Versions
<1>2. ASSUME IInv, QuorumInv, [Next]_vars PROVE QuorumInv'
  <2>1. \A s \in Signatures : s \in Seq(KeyIds)
    BY DEF Signatures
  <2>2. ASSUME NEW o \in Chains, NEW c \in Constitutions, NEW s \in Signatures, Construct(o, c, s)
        PROVE  QuorumInv'
    <3>1. TrustAfter(chain[o]) = Bootstrap
      BY <2>2 DEF Construct, TrustAfter
    <3>2. _admit(o, c, s, TrustAfter(chain[o]))
      BY <2>2, <3>1 DEF Construct
    <3> QED BY <1>2, <2>1, <3>2, AdmittedHasQuorum
  <2>3. ASSUME NEW o \in Chains, NEW c \in Constitutions, NEW s \in Signatures, append(o, c, s)
        PROVE  QuorumInv'
    BY <1>2, <2>1, <2>3, AdmittedHasQuorum DEF append
  <2>4. ASSUME NEW o \in Chains, Drop(o) PROVE QuorumInv'
    <3>1. /\ signed' = signed
          /\ \A p \in Chains : chain'[p] = IF p = o THEN <<>> ELSE chain[p]
      BY <1>2, <2>4 DEF Drop, IInv, TypeOK
    <3>2. ASSUME NEW p \in Chains, NEW i \in 1 .. Len(chain'[p])
          PROVE  QuorumFor(Ruling(chain[p], i), chain[p][i])'
      <4>1. i \in Versions(p) /\ chain'[p] = chain[p]
        BY <3>1 DEF Versions
      <4>2. signed \subseteq signed' /\ \A j \in 1 .. i : chain'[p][j] = chain[p][j]
        BY <3>1, <4>1
      <4> QED BY <1>2, <4>1, <4>2, PositionStays DEF IInv
    <3> QED BY <3>2 DEF QuorumInv, Versions
  <2>5. CASE chain' = chain /\ signed \subseteq signed'
    <3>1. ASSUME NEW p \in Chains, NEW i \in Versions(p)
          PROVE  QuorumFor(Ruling(chain[p], i), chain[p][i])'
      BY <1>2, <2>5, PositionStays DEF IInv
    <3>2. \A p \in Chains : Versions(p)' = Versions(p)
      BY <2>5 DEF Versions
    <3> QED BY <3>1, <3>2 DEF QuorumInv
  <2> QED BY <1>2, <2>2, <2>3, <2>4, <2>5 DEF Next, vars, sign_constitution
<1>3. QuorumInv => ForwardOnlyQuorum
  BY DEF QuorumInv, QuorumFor, Signatories, Ruling, ForwardOnlyQuorum
<1> QED BY <1>1, <1>2, <1>3, Invariance, PTL DEF Spec
=============================================================================
