---------------------------- MODULE Constitution ----------------------------
(***************************************************************************)
(* Chains of multi-signer constitutions (multisig_constitution.py).        *)
(*                                                                         *)
(* A constitution is an immutable document, named by its content hash; its *)
(* fields are functions of that name.  Signers sign documents; anyone puts *)
(* documents and lists of signatures together and offers them to a         *)
(* ConstitutionalChain.  There are several chain objects: the one a        *)
(* deployment keeps, the copies verify_full_chain builds, and those that   *)
(* resolve_governed_version rebuilds from what it is given.  A version     *)
(* that is refused raises and leaves the object as it was; extend appends  *)
(* one version after the other, so its failure leaves the first ones.      *)
(*                                                                         *)
(* A signature is the signer's key; the key_id it is filed under is looked *)
(* up in the trust config of its position, not in the document.            *)
(***************************************************************************)
EXTENDS Naturals, Sequences, FiniteSets

CONSTANTS
  Keys, KeyIds,         \* Ed25519 keys, and the names they have in trust configs
  Constitutions,        \* content hashes
  Version, Previous, Proposed, Denied, NeedsApproval,  \* their fields
  Bootstrap,            \* the trust config a chain starts from
  Actions,
  Chains,               \* ConstitutionalChain objects
  Dishonest,            \* keys that sign anything
  Approved,             \* constitutions that the other keys are willing to sign
  MaxSignatures,        \* signatures a document is offered with
  None

TrustConfigs == [signers: UNION {[ids -> Keys] : ids \in SUBSET KeyIds}, quorum: Nat \ {0}]

ASSUME ConstitutionAssumption ==
  /\ Version \in [Constitutions -> Nat \ {0}]
  /\ Previous \in [Constitutions -> Constitutions \cup {None}]
  /\ Proposed \in [Constitutions -> TrustConfigs \cup {None}]
  /\ Denied \in [Constitutions -> SUBSET Actions]
  /\ NeedsApproval \in [Constitutions -> SUBSET Actions]
  /\ Bootstrap \in TrustConfigs
  /\ Dishonest \subseteq Keys /\ Approved \subseteq Constitutions
  /\ None \notin Constitutions /\ None \notin TrustConfigs
  /\ IsFiniteSet(KeyIds)

\* Dishonest keys are fewer than the quorum of every trust config that the others
\* put in force.
FewDishonest(trust) ==
  Cardinality({id \in DOMAIN trust.signers : trust.signers[id] \in Dishonest}) < trust.quorum

ASSUME TrustAssumption ==
  /\ FewDishonest(Bootstrap)
  /\ \A c \in Approved : Proposed[c] # None => FewDishonest(Proposed[c])

VARIABLES
  signed,  \* pairs of a key and the constitution it has signed
  chain    \* the versions of each chain object

vars == <<signed, chain>>

Init ==
  /\ signed = Dishonest \X Constitutions
  /\ chain = [o \in Chains |-> <<>>]

-----------------------------------------------------------------------------
(* Trust *)

\* Mutant of TrustAfter: a version without a proposal restores the bootstrap.
TrustOfHead(versions) ==
  IF versions = <<>> \/ Proposed[versions[Len(versions)]] = None THEN Bootstrap
  ELSE Proposed[versions[Len(versions)]]

\* trust_active_for_next: the last proposal of the versions, or the bootstrap.
TrustAfter(versions) ==
  LET Rotations == {i \in 1 .. Len(versions) : Proposed[versions[i]] # None} IN
  IF Rotations = {} THEN Bootstrap
  ELSE Proposed[versions[CHOOSE i \in Rotations : \A j \in Rotations : j <= i]]

\* Mutant of HasQuorum: two signatures of one signer count twice.
CountsTwice(c, signatures, active) ==
  /\ \A i \in 1 .. Len(signatures) :
       /\ signatures[i] \in DOMAIN active.signers
       /\ <<active.signers[signatures[i]], c>> \in signed
  /\ Len(signatures) >= active.quorum

HasQuorum(c, signatures, active) ==
  /\ \A i, j \in 1 .. Len(signatures) : signatures[i] = signatures[j] => i = j
  /\ \A i \in 1 .. Len(signatures) :
       /\ signatures[i] \in DOMAIN active.signers
       /\ <<active.signers[signatures[i]], c>> \in signed
  /\ Len(signatures) >= active.quorum

-----------------------------------------------------------------------------
(* Admission *)

\* Mutant of Supersedes: the version number is not checked.
SupersedesAnyVersion(c, versions) ==
  IF versions = <<>> THEN Previous[c] = None
  ELSE Previous[c] = versions[Len(versions)]

Supersedes(c, versions) ==
  IF versions = <<>> THEN Version[c] = 1 /\ Previous[c] = None
  ELSE LET head == versions[Len(versions)] IN
       Version[c] = Version[head] + 1 /\ Previous[c] = head

_admit(o, c, signatures, active) ==
  /\ \A i \in 1 .. Len(chain[o]) : chain[o][i] # c
  /\ Supersedes(c, chain[o])
  /\ HasQuorum(c, signatures, active)
  /\ chain' = [chain EXCEPT ![o] = Append(@, c)]
  /\ UNCHANGED signed

\* The constructor: a chain object exists from its genesis on.
Construct(o, genesis, signatures) ==
  /\ chain[o] = <<>>
  /\ _admit(o, genesis, signatures, Bootstrap)

append(o, c, signatures) ==
  /\ chain[o] # <<>>
  /\ _admit(o, c, signatures, TrustAfter(chain[o]))

\* A rebuilt chain is dropped when its answer has been given, or a version refused.
Drop(o) ==
  /\ chain[o] # <<>>
  /\ chain' = [chain EXCEPT ![o] = <<>>]
  /\ UNCHANGED signed

sign_constitution(k, c) ==
  /\ k \in Dishonest \/ c \in Approved
  /\ signed' = signed \cup {<<k, c>>}
  /\ UNCHANGED chain

Signatures == UNION {[1 .. n -> KeyIds] : n \in 1 .. MaxSignatures}

Next ==
  \/ \E o \in Chains, c \in Constitutions, s \in Signatures : Construct(o, c, s)
  \/ \E o \in Chains, c \in Constitutions, s \in Signatures : append(o, c, s)
  \/ \E o \in Chains : Drop(o)
  \/ \E k \in Keys, c \in Constitutions : sign_constitution(k, c)

Spec == Init /\ [][Next]_vars

-----------------------------------------------------------------------------
(* Decisions *)

governance_check(action, c) ==
  CASE action \in Denied[c] -> "DENY"
    [] action \in NeedsApproval[c] \ Denied[c] -> "APPROVAL_REQUIRED"
    [] OTHER -> "ALLOW"

governed_version(o, c) == \E i \in 1 .. Len(chain[o]) : chain[o][i] = c

adjudicate_receipt(o, action, c) ==
  IF governed_version(o, c) THEN governance_check(action, c) ELSE "DENY"

-----------------------------------------------------------------------------
(* Properties *)

Versions(o) == 1 .. Len(chain[o])

\* Every variable stays in its range, and a version is at the position its number
\* says.
TypeOK ==
  /\ signed \subseteq Keys \X Constitutions
  /\ chain \in [Chains -> Seq(Constitutions)]
  /\ \A o \in Chains : \A i \in Versions(o) : Version[chain[o][i]] = i

\* No chain, kept or rebuilt, has a version that only dishonest keys wanted: each
\* version was let in by signers that an approved version, or the bootstrap, named
\* ("the trusted signer set may rotate forward-only").
OnlyApproved == \A o \in Chains : \A i \in Versions(o) : chain[o][i] \in Approved

\* If the signers never approve two successors of one version, all chains agree as far
\* as they go: what a verifier rebuilds offline pins a hash to the version that
\* governed it in the chain of the deployment.
ChainsAgree ==
  (\A c, d \in Approved : Previous[c] = Previous[d] => c = d) =>
    \A o, p \in Chains : \A i \in Versions(o) \cap Versions(p) : chain[o][i] = chain[p][i]

\* A rotation takes effect for later versions and for no other: each version has a
\* quorum of distinct members of the set that the last rotation before it named.
ForwardOnlyQuorum ==
  \A o \in Chains : \A i \in Versions(o) :
    LET trust == LET Before == {j \in 1 .. i - 1 : Proposed[chain[o][j]] # None} IN
                 IF Before = {} THEN Bootstrap
                 ELSE CHOOSE t \in {Proposed[chain[o][j]] : j \in Before} :
                        \E j \in Before : t = Proposed[chain[o][j]] /\ \A k \in Before : k <= j
    IN Cardinality({id \in DOMAIN trust.signers : <<trust.signers[id], chain[o][i]>> \in signed})
         >= trust.quorum

\* A receipt gets another verdict than DENY only from a constitution that the signers
\* approved, and never for an action it denies.
VerdictsAreApproved ==
  \A o \in Chains, a \in Actions, c \in Constitutions :
    adjudicate_receipt(o, a, c) # "DENY" => c \in Approved /\ a \notin Denied[c]
=============================================================================
