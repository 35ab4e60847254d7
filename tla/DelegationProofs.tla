-------------------------- MODULE DelegationProofs --------------------------
(* Theorems about Delegation, for any keys, receipts, scopes and lengths of a *)
(* chain.  verify_chain compares a receipt with the one before it; the        *)
(* strengthening NarrowInv says what that adds up to over the chain.          *)
EXTENDS Delegation, TLAPS

-----------------------------------------------------------------------------
(* Narrowing is a preorder *)

\* is_sub_prefix is reflexive and transitive.
LEMMA SubPrefixTransitive ==
  ASSUME NEW a \in Seq(STRING), NEW b \in Seq(STRING), NEW c \in Seq(STRING),
         is_sub_prefix(a, b), is_sub_prefix(b, c)
  PROVE  is_sub_prefix(a, c)
<1>1. Len(c) <= Len(a)
  BY DEF is_sub_prefix
<1>2. ASSUME NEW i \in 1 .. Len(c) PROVE a[i] = c[i]
  <2>1. i \in 1 .. Len(b) /\ b[i] = c[i]
    BY DEF is_sub_prefix
  <2> QED BY <2>1 DEF is_sub_prefix
<1> QED BY <1>1, <1>2 DEF is_sub_prefix

\* A scope is as narrow as itself.
LEMMA NarrowerReflexive ==
  ASSUME NEW s \in Scopes PROVE is_scope_narrower_or_equal(s, s)
<1>1. ASSUME NEW p \in s.prefixes PROVE is_sub_prefix(p, p)
  BY DelegationAssumption DEF is_sub_prefix
<1> QED BY <1>1 DEF is_scope_narrower_or_equal

\* What is narrower than a narrower scope is narrower.
LEMMA NarrowerTransitive ==
  ASSUME NEW a \in Scopes, NEW b \in Scopes, NEW c \in Scopes,
         is_scope_narrower_or_equal(a, b), is_scope_narrower_or_equal(b, c)
  PROVE  is_scope_narrower_or_equal(a, c)
<1>1. ASSUME NEW p \in a.prefixes PROVE \E q \in c.prefixes : is_sub_prefix(p, q)
  <2>1. PICK o \in b.prefixes : is_sub_prefix(p, o)
    BY DEF is_scope_narrower_or_equal
  <2>2. PICK q \in c.prefixes : is_sub_prefix(o, q)
    BY DEF is_scope_narrower_or_equal
  <2>3. p \in Seq(STRING) /\ o \in Seq(STRING) /\ q \in Seq(STRING)
    BY DelegationAssumption
  <2>4. is_sub_prefix(p, q)
    BY <2>1, <2>2, <2>3, SubPrefixTransitive
  <2> QED BY <2>4
<1> QED BY <1>1 DEF is_scope_narrower_or_equal

\* A narrower scope allows no more effects.
LEMMA NarrowerAllowsLess ==
  ASSUME NEW a \in Scopes, NEW b \in Scopes, is_scope_narrower_or_equal(a, b),
         NEW e \in Effects, scope_allows(a, Verb[e], Target[e])
  PROVE  scope_allows(b, Verb[e], Target[e])
<1>1. PICK p \in a.prefixes : is_sub_prefix(Target[e], p)
  BY DEF scope_allows
<1>2. PICK q \in b.prefixes : is_sub_prefix(p, q)
  BY DEF is_scope_narrower_or_equal
<1>3. p \in Seq(STRING) /\ q \in Seq(STRING) /\ Target[e] \in Seq(STRING)
  BY DelegationAssumption
<1>4. is_sub_prefix(Target[e], q)
  BY <1>1, <1>2, <1>3, SubPrefixTransitive
<1> QED BY <1>4 DEF scope_allows, is_scope_narrower_or_equal

-----------------------------------------------------------------------------
(* The inductive invariant *)

TypeInv == DelegationAssumption /\ TypeOK

\* An honest key is in a receipt's signature only by issue_root or delegate.
SignedInv ==
  \A r \in Receipts : receipt[r] # None /\ receipt[r].signer \in Honest =>
    receipt[r].parent = None \/ source[r] = receipt[r].parent

\* Every position of a chain that is verified so far.
CustodyInv ==
  Busy =>
    /\ \A i \in Position :
         /\ At(i) # None
         /\ i = 1 => At(i).signer \in Trusted /\ At(i).delegator = At(i).signer
         /\ i > 1 => At(i).signer = At(i).delegator /\ At(i).parent = verifier.chain[i - 1]
    /\ verifier.pc = "received" => 1 \in Position

\* What lies between two positions of a chain.
NarrowInv ==
  Busy => \A i, j \in Position : i <= j =>
    /\ is_scope_narrower_or_equal(At(j).scope, At(i).scope)
    /\ At(i).from <= At(j).from /\ At(j).to <= At(i).to
    /\ At(j).maxDepth <= At(i).maxDepth
    /\ At(j).depth = j - 1
    /\ j > 1 => At(j).depth <= At(j).maxDepth

IInv == TypeInv /\ SignedInv /\ CustodyInv /\ NarrowInv /\ ReceivedIsAuthorized

\* What an honest delegator returns is a receipt of the expected kind.
LEMMA GrantingTyped ==
  ASSUME DelegationAssumption, NEW id \in Receipts, NEW signer \in Keys, NEW terms \in Terms,
         NEW depth \in Depths, NEW parent \in Receipts \cup {None}, NEW grant \in Grants
  PROVE  Granting(id, signer, terms, depth, parent, grant) \in Contents
BY DEF DelegationAssumption, Contents, Granting

\* A chain that the verifier holds.
LEMMA ChainTyped ==
  ASSUME TypeInv, Busy
  PROVE  /\ verifier.chain \in Seq(Receipts) /\ Len(verifier.chain) \in Nat
         /\ verifier.at \in Times
         /\ \A i \in Position : verifier.chain[i] \in Receipts
         /\ \A i \in Position : At(i) # None => At(i) \in Contents
<1>1. verifier.chain \in Seq(Receipts) /\ verifier.at \in Times
  BY DEF TypeInv, TypeOK, Busy
<1>2. receipt \in [Receipts -> Contents \cup {None}]
  BY DEF TypeInv, TypeOK
<1> QED BY <1>1, <1>2 DEF Position, At

\* Signing another receipt changes none that a chain holds.
LEMMA SigningKeeps ==
  ASSUME TypeInv, CustodyInv, NEW r \in Receipts, NEW content \in Contents,
         SignReceipt(r, content)
  PROVE  /\ Busy => \A i \in Position : At(i)' = At(i)
         /\ CustodyInv' /\ (NarrowInv => NarrowInv')
         /\ (ReceivedIsAuthorized => ReceivedIsAuthorized')
<1>1. ASSUME Busy, NEW i \in Position PROVE At(i)' = At(i)
  <2>1. verifier.chain[i] \in Receipts /\ At(i) # None
    BY <1>1, ChainTyped DEF CustodyInv
  <2>2. verifier.chain[i] # r
    BY <2>1 DEF SignReceipt, At
  <2>3. receipt \in [Receipts -> Contents \cup {None}]
    BY DEF TypeInv, TypeOK
  <2> QED BY <2>1, <2>2, <2>3 DEF SignReceipt, At
<1>2. verifier' = verifier /\ propagated' = propagated /\ Position' = Position /\ Busy' = Busy
  BY DEF SignReceipt, Position, Busy
<1>3. CustodyInv'
  BY <1>1, <1>2 DEF CustodyInv
<1>4. NarrowInv => NarrowInv'
  BY <1>1, <1>2 DEF NarrowInv
<1>5. ASSUME ReceivedIsAuthorized PROVE ReceivedIsAuthorized'
  <2> SUFFICES ASSUME verifier.pc = "received" PROVE ReceivedIsAuthorized'
    BY <1>2 DEF ReceivedIsAuthorized
  <2>1. Busy /\ 1 \in Position
    BY DEF CustodyInv, Busy, Idle
  <2>2. Len(verifier.chain) \in Position
    BY <2>1, ChainTyped DEF Position
  <2>3. At(1)' = At(1) /\ At(Len(verifier.chain))' = At(Len(verifier.chain))
    BY <1>1, <1>2, <2>1, <2>2 DEF At
  <2> QED BY <1>2, <1>5, <2>3 DEF ReceivedIsAuthorized
<1> QED BY <1>1, <1>3, <1>4, <1>5

\* A round of verify_chain: the receipt before is the only one it looks at.
LEMMA VerifyReceiptKeeps ==
  ASSUME TypeInv, CustodyInv, NarrowInv, NEW r \in Receipts, VerifyReceipt(r)
  PROVE  TypeOK' /\ CustodyInv' /\ NarrowInv'
<1> DEFINE c == receipt[r]
<1>1. Busy /\ verifier.pc = "verifying" /\ verifier \in [pc: {"verifying"}, chain: Seq(Receipts), at: Times]
  BY DEF VerifyReceipt, Busy, Idle, TypeInv, TypeOK
<1>0. PICK n \in Nat : n = Len(verifier.chain)
  BY <1>1
<1>2. /\ n = Len(verifier.chain) /\ verifier.chain \in Seq(Receipts)
      /\ Verifies(r) /\ receipt' = receipt
  BY <1>0, <1>1 DEF VerifyReceipt
<1>3. c \in Contents
  BY <1>2 DEF Verifies, TypeInv, TypeOK
<1>4. /\ verifier' \in [pc: {"verifying"}, chain: Seq(Receipts), at: Times]
      /\ verifier'.chain = Append(verifier.chain, r) /\ verifier'.pc = "verifying"
  <2>1. Append(verifier.chain, r) \in Seq(Receipts)
    BY <1>2
  <2>2. verifier' = [verifier EXCEPT !.chain = Append(verifier.chain, r)]
    BY DEF VerifyReceipt
  <2> QED BY <1>1, <2>1, <2>2
<1>5. Busy' /\ Position = 1 .. n /\ Position' = 1 .. n + 1
  BY <1>2, <1>4 DEF Busy, Idle, Position
<1>6. \A i \in Position : At(i)' = At(i) /\ verifier'.chain[i] = verifier.chain[i]
  BY <1>2, <1>4, <1>5 DEF At
<1>7. At(n + 1)' = c
  BY <1>2, <1>4 DEF At
<1>8. TypeOK'
  <2>1. UNCHANGED <<receipt, source, propagated>>
    BY DEF VerifyReceipt
  <2> QED BY <1>4, <2>1 DEF TypeInv, TypeOK
<1>9. \A i \in Position : At(i) \in Contents
  BY <1>1, ChainTyped DEF CustodyInv
<1>10. CASE n = 0
  <2>1. IsRoot(c) /\ c # None
    BY <1>2, <1>10 DEF Verifies
  <2>2. Position' = {1} /\ At(1)' = c
    BY <1>5, <1>7, <1>10
  <2>3. CustodyInv'
    BY <2>1, <2>2, <1>4 DEF CustodyInv, IsRoot
  <2>4. is_scope_narrower_or_equal(c.scope, c.scope) /\ c.from \in Nat /\ c.to \in Nat /\ c.maxDepth \in Nat
    BY <1>3, NarrowerReflexive, DelegationAssumption DEF Contents
  <2>5. NarrowInv'
    BY <2>1, <2>2, <2>4 DEF NarrowInv, IsRoot
  <2> QED BY <1>8, <2>3, <2>5
<1>11. CASE n > 0
  <2> DEFINE prev == receipt[verifier.chain[n]]
  <2>1. LinkedTo(c, prev, verifier.chain[n]) /\ WithinGrant(c, prev, n) /\ c # None
    BY <1>2, <1>11 DEF Verifies
  <2>2. n \in Position /\ prev = At(n) /\ prev \in Contents /\ n + 1 > 1
    BY <1>2, <1>5, <1>9, <1>11 DEF At
  <2>3. ASSUME NEW i \in Position' PROVE i \in Position \/ i = n + 1
    BY <1>2, <1>5
  <2>4. CustodyInv'
    <3>1. ASSUME NEW i \in Position'
          PROVE  /\ At(i)' # None
                 /\ i = 1 => At(i)'.signer \in Trusted /\ At(i)'.delegator = At(i)'.signer
                 /\ i > 1 => At(i)'.signer = At(i)'.delegator /\ At(i)'.parent = verifier'.chain[i - 1]
      <4>1. CASE i \in Position
        <5>1. i > 1 => i - 1 \in Position
          BY <4>1, <1>5, <1>2
        <5> QED BY <4>1, <5>1, <1>1, <1>6 DEF CustodyInv
      <4>2. CASE i = n + 1
        <5>1. i - 1 = n /\ i # 1
          BY <4>2, <1>2, <1>11
        <5> QED BY <4>2, <5>1, <1>6, <1>7, <2>1, <2>2 DEF LinkedTo
      <4> QED BY <2>3, <4>1, <4>2
    <3> QED BY <3>1, <1>4 DEF CustodyInv
  <2>5. c.scope \in Scopes /\ prev.scope \in Scopes /\ c.from \in Nat /\ c.to \in Nat /\ c.maxDepth \in Nat
        /\ prev.from \in Nat /\ prev.to \in Nat /\ prev.maxDepth \in Nat /\ prev.depth \in Nat
    BY <1>3, <2>2, DelegationAssumption DEF Contents
  <2>6. is_scope_narrower_or_equal(c.scope, c.scope)
    BY <2>5, NarrowerReflexive
  <2>7. ASSUME NEW i \in Position
        PROVE  /\ is_scope_narrower_or_equal(c.scope, At(i).scope)
               /\ At(i).from <= c.from /\ c.to <= At(i).to /\ c.maxDepth <= At(i).maxDepth
    <3>1. At(i) \in Contents /\ i <= n
      BY <1>2, <1>5, <1>9
    <3>2. At(i).scope \in Scopes /\ At(i).from \in Nat /\ At(i).to \in Nat /\ At(i).maxDepth \in Nat
      BY <3>1, DelegationAssumption DEF Contents
    <3>3. /\ is_scope_narrower_or_equal(prev.scope, At(i).scope)
          /\ At(i).from <= prev.from /\ prev.to <= At(i).to /\ prev.maxDepth <= At(i).maxDepth
      BY <1>1, <2>2, <3>1 DEF NarrowInv
    <3>4. /\ is_scope_narrower_or_equal(c.scope, prev.scope)
          /\ prev.from <= c.from /\ c.to <= prev.to /\ c.maxDepth <= prev.maxDepth
      BY <2>1 DEF WithinGrant
    <3>5. is_scope_narrower_or_equal(c.scope, At(i).scope)
      BY <3>2, <3>3, <3>4, <2>5, NarrowerTransitive
    <3> QED BY <3>2, <3>3, <3>4, <3>5, <2>5
  <2>8. NarrowInv'
    <3>1. ASSUME NEW i \in Position', NEW j \in Position', i <= j
          PROVE  /\ is_scope_narrower_or_equal(At(j)'.scope, At(i)'.scope)
                 /\ At(i)'.from <= At(j)'.from /\ At(j)'.to <= At(i)'.to
                 /\ At(j)'.maxDepth <= At(i)'.maxDepth
                 /\ At(j)'.depth = j - 1
                 /\ j > 1 => At(j)'.depth <= At(j)'.maxDepth
      <4>1. CASE j \in Position
        <5>1. i \in Position
          BY <4>1, <3>1, <1>2, <1>5
        <5> QED BY <4>1, <5>1, <3>1, <1>1, <1>6 DEF NarrowInv
      <4>2. CASE j = n + 1
        <5> c.depth = n /\ c.depth <= c.maxDepth
          BY <2>1 DEF WithinGrant
        <5>1. At(j)' = c /\ c.depth = j - 1 /\ c.depth <= c.maxDepth
          BY <4>2, <1>7
        <5>2. CASE i \in Position
          BY <5>1, <5>2, <2>7, <1>6
        <5>3. CASE i = n + 1
          BY <5>1, <5>3, <4>2, <2>5, <2>6
        <5> QED BY <2>3, <5>2, <5>3
      <4> QED BY <2>3, <4>1, <4>2
    <3> QED BY <3>1 DEF NarrowInv
  <2> QED BY <1>8, <2>4, <2>8
<1> QED BY <1>2, <1>10, <1>11

-----------------------------------------------------------------------------
(* Every step keeps the invariant *)

\* The signing actions: an honest key signs what it issues or delegates.
LEMMA SigningStep ==
  ASSUME IInv, NEW r \in Receipts, NEW content \in Contents, SignReceipt(r, content),
         \/ source' = source /\ (content.signer \in OffProtocol \/ content.parent = None)
         \/ content.parent \in Receipts /\ source' = [source EXCEPT ![r] = content.parent]
  PROVE  IInv'
<1>1. TypeInv /\ CustodyInv /\ NarrowInv /\ SignedInv /\ ReceivedIsAuthorized
  BY DEF IInv
<1>2. CustodyInv' /\ NarrowInv' /\ ReceivedIsAuthorized'
  BY <1>1, SigningKeeps
<1>3. /\ receipt \in [Receipts -> Contents \cup {None}] /\ source \in [Receipts -> Receipts \cup {None}]
      /\ receipt' = [receipt EXCEPT ![r] = content] /\ receipt[r] = None
      /\ verifier' = verifier /\ propagated' = propagated
  BY <1>1 DEF TypeInv, TypeOK, SignReceipt
<1>4. TypeInv'
  BY <1>1, <1>3 DEF TypeInv, TypeOK
<1>5. SignedInv'
  <2> SUFFICES ASSUME NEW q \in Receipts, receipt'[q] # None, receipt'[q].signer \in Honest
               PROVE  receipt'[q].parent = None \/ source'[q] = receipt'[q].parent
    BY DEF SignedInv
  <2>1. CASE q = r
    BY <1>3, <2>1 DEF Honest
  <2>2. CASE q # r
    BY <1>1, <1>3, <2>2 DEF SignedInv
  <2> QED BY <2>1, <2>2
<1> QED BY <1>2, <1>4, <1>5 DEF IInv

\* What is received: the chain, the mandate and the child fit together.
LEMMA ReceiveKeeps ==
  ASSUME IInv, NEW k \in Keys, NEW m \in Capabilities, NEW child \in propagated \cup ForgedChildren,
         receive_delegation(k, m, child)
  PROVE  IInv'
<1> DEFINE leaf == At(Len(verifier.chain))
<1>1. TypeInv /\ CustodyInv /\ NarrowInv /\ SignedInv
  BY DEF IInv
<1>2. /\ verifier.pc = "verifying" /\ verifier.chain # <<>> /\ Accepts(k, m, child)
      /\ verifier' = [pc |-> "received", chain |-> verifier.chain, at |-> verifier.at,
                      receiver |-> k, mandate |-> m, child |-> child]
      /\ receipt' = receipt /\ source' = source /\ propagated' = propagated
  BY DEF receive_delegation
<1>3. Busy /\ Busy' /\ Position' = Position /\ verifier'.chain = verifier.chain
  BY <1>2 DEF Busy, Idle, Position
<1>4. /\ verifier.chain \in Seq(Receipts) /\ verifier.at \in Times
      /\ Len(verifier.chain) \in Position /\ 1 \in Position /\ 1 <= Len(verifier.chain)
  BY <1>1, <1>2, <1>3, ChainTyped DEF Position
<1>5. child \in Children(Keys)
  BY <1>1, DelegationAssumption DEF TypeInv, TypeOK, Children, Honest
<1>6. TypeInv'
  BY <1>1, <1>2, <1>4, <1>5 DEF TypeInv, TypeOK
<1>7. CustodyInv' /\ NarrowInv' /\ SignedInv'
  <2>1. \A i \in Position : At(i)' = At(i)
    BY <1>2 DEF At
  <2>2. CustodyInv'
    BY <1>1, <1>2, <1>3, <1>4, <2>1 DEF CustodyInv
  <2>3. NarrowInv'
    BY <1>1, <1>3, <2>1 DEF NarrowInv
  <2>4. SignedInv'
    BY <1>1, <1>2 DEF SignedInv
  <2> QED BY <2>2, <2>3, <2>4
<1>8. ReceivedIsAuthorized'
  <2>1. /\ CapabilityOf[m].issuer \in Trusted /\ child.effect = CapabilityOf[m].effect
        /\ child.signer = leaf.delegator
        /\ scope_allows(leaf.scope, Verb[child.effect], Target[child.effect])
    BY <1>2 DEF Accepts, MintedFrom, At
  <2>2. At(1) \in Contents /\ leaf \in Contents /\ At(1).signer \in Trusted
    BY <1>1, <1>3, <1>4, ChainTyped DEF CustodyInv
  <2>3. is_scope_narrower_or_equal(leaf.scope, At(1).scope)
    BY <1>1, <1>3, <1>4 DEF NarrowInv
  <2>4. child.effect \in Effects /\ leaf.scope \in Scopes /\ At(1).scope \in Scopes
    BY <1>5, <2>2 DEF Children, Contents
  <2>5. scope_allows(At(1).scope, Verb[child.effect], Target[child.effect])
    BY <2>1, <2>3, <2>4, NarrowerAllowsLess
  <2>6. leaf.delegator \in Honest => child \in propagated
    <3>1. child \in ForgedChildren => child.signer \in OffProtocol
      BY DelegationAssumption DEF Children
    <3> QED BY <2>1, <3>1 DEF Honest
  <2>7. /\ At(1)' = At(1) /\ At(Len(verifier.chain))' = leaf
        /\ verifier'.child = child /\ verifier'.mandate = m
    BY <1>2 DEF At
  <2> QED BY <1>2, <2>1, <2>2, <2>5, <2>6, <2>7 DEF ReceivedIsAuthorized
<1> QED BY <1>6, <1>7, <1>8 DEF IInv

\* IInv holds of every reachable state.
LEMMA Invariance == Spec => []IInv
<1>1. Init => IInv
  <2> SUFFICES ASSUME Init PROVE IInv
    OBVIOUS
  <2>1. TypeOK /\ ~Busy /\ verifier.pc # "received"
    BY DEF Init, TypeOK, Busy, Idle
  <2>2. SignedInv
    BY DEF Init, SignedInv
  <2> QED BY <2>1, <2>2, DelegationAssumption DEF IInv, TypeInv, CustodyInv, NarrowInv, ReceivedIsAuthorized
<1>2. IInv /\ [Next]_vars => IInv'
  <2> SUFFICES ASSUME IInv, [Next]_vars PROVE IInv'
    OBVIOUS
  <2>1. TypeInv /\ CustodyInv /\ NarrowInv /\ SignedInv /\ ReceivedIsAuthorized
    BY DEF IInv
  <2>2. ASSUME NEW r \in Receipts, NEW id \in Receipts, NEW a \in Trusted, NEW w \in Terms,
               NEW g \in Grants, issue_root(r, id, a, w, g)
        PROVE  IInv'
    <3> DEFINE content == Granting(id, a, w, 0, None, g)
    <3>1. a \in Keys /\ g.maxDepth \in Depths /\ g.maxDepth \in Nat /\ 0 .. g.maxDepth \subseteq Depths
      BY DelegationAssumption
    <3> 0 \in Depths
      BY <3>1
    <3>2. content \in Contents /\ content.parent = None
      BY <3>1, GrantingTyped, DelegationAssumption DEF Granting
    <3>3. SignReceipt(r, content) /\ source' = source
      BY <2>2 DEF issue_root, new_receipt
    <3> QED BY <3>2, <3>3, SigningStep
  <2>3. ASSUME NEW r \in Receipts, NEW id \in Receipts, NEW p \in Receipts, NEW g \in Grants,
               delegate(r, id, p, g)
        PROVE  IInv'
    <3> DEFINE parent == receipt[p]
    <3> DEFINE content == Granting(id, parent.delegatee, parent.terms, parent.depth + 1, p, g)
    <3>1. /\ parent # None /\ parent.depth + 1 <= parent.maxDepth
          /\ SignReceipt(r, content) /\ source' = [source EXCEPT ![r] = p]
      BY <2>3 DEF delegate, new_receipt
    <3>2. parent \in Contents
      BY <2>1, <3>1 DEF TypeInv, TypeOK
    <3>3. parent.depth \in Nat /\ parent.maxDepth \in Nat /\ 0 .. parent.maxDepth \subseteq Depths
      BY <3>2, DelegationAssumption DEF Contents
    <3>4. parent.depth + 1 \in Depths /\ parent.delegatee \in Keys /\ parent.terms \in Terms
      BY <3>1, <3>2, <3>3 DEF Contents
    <3>5. content \in Contents
      BY <3>4, GrantingTyped, DelegationAssumption
    <3>6. content.parent \in Receipts /\ source' = [source EXCEPT ![r] = content.parent]
      BY <3>1 DEF Granting
    <3> HIDE DEF content
    <3> QED BY <3>1, <3>5, <3>6, SigningStep
  <2>4. ASSUME NEW r \in Receipts, NEW content \in Forgeries, SignOffProtocol(r, content)
        PROVE  IInv'
    <3>1. content \in Contents /\ content.signer \in OffProtocol
      BY DelegationAssumption
    <3>2. SignReceipt(r, content) /\ source' = source
      BY <2>4 DEF SignOffProtocol
    <3> QED BY <3>1, <3>2, SigningStep
  <2>5. ASSUME NEW m \in Capabilities, NEW k \in Keys, NEW until \in Times,
               propagate_delegation(m, k, until)
        PROVE  IInv'
    <3> DEFINE child == [signer |-> CapabilityOf[m].holder, kind |-> "execution", parent |-> m,
                         effect |-> CapabilityOf[m].effect, holder |-> k, until |-> until]
    <3>1. /\ propagated' = propagated \cup {child} /\ CapabilityOf[m].holder \in Honest
          /\ UNCHANGED <<receipt, source, verifier>>
      BY <2>5 DEF propagate_delegation
    <3>2. child \in Children(Honest)
      BY <3>1, DelegationAssumption DEF Children
    <3>3. TypeInv'
      BY <2>1, <3>1, <3>2 DEF TypeInv, TypeOK
    <3>4. CustodyInv' /\ NarrowInv' /\ SignedInv'
      BY <2>1, <3>1 DEF CustodyInv, NarrowInv, SignedInv, Busy, Position, At
    <3>5. ReceivedIsAuthorized'
      BY <2>1, <3>1 DEF ReceivedIsAuthorized, At
    <3> QED BY <3>3, <3>4, <3>5 DEF IInv
  <2>6. ASSUME NEW moment \in Times, VerifyStarts(moment) PROVE IInv'
    <3>1. /\ verifier' = [pc |-> "verifying", chain |-> <<>>, at |-> moment]
          /\ UNCHANGED <<receipt, source, propagated>>
      BY <2>6 DEF VerifyStarts
    <3>2. TypeInv' /\ SignedInv' /\ ReceivedIsAuthorized'
      BY <2>1, <3>1 DEF TypeInv, TypeOK, SignedInv, ReceivedIsAuthorized
    <3>3. Position' = {} /\ verifier'.pc # "received"
      BY <3>1 DEF Position
    <3> QED BY <3>2, <3>3 DEF IInv, CustodyInv, NarrowInv
  <2>7. ASSUME NEW r \in Receipts, VerifyReceipt(r) PROVE IInv'
    <3>1. TypeOK' /\ CustodyInv' /\ NarrowInv'
      BY <2>1, <2>7, VerifyReceiptKeeps
    <3>2. verifier'.pc # "received" /\ UNCHANGED <<receipt, source>>
      BY <2>1, <2>7 DEF VerifyReceipt, TypeInv, TypeOK, Idle
    <3> QED BY <2>1, <3>1, <3>2 DEF IInv, TypeInv, SignedInv, ReceivedIsAuthorized
  <2>8. CASE VerifyEnds
    <3>1. verifier' = Idle /\ UNCHANGED <<receipt, source, propagated>>
      BY <2>8 DEF VerifyEnds
    <3>2. ~Busy' /\ verifier'.pc # "received"
      BY <3>1 DEF Busy, Idle
    <3>3. TypeInv' /\ SignedInv'
      BY <2>1, <3>1 DEF TypeInv, TypeOK, SignedInv, Idle
    <3> QED BY <3>2, <3>3 DEF IInv, CustodyInv, NarrowInv, ReceivedIsAuthorized
  <2>9. ASSUME NEW k \in Keys, NEW m \in Capabilities, NEW child \in propagated \cup ForgedChildren,
               receive_delegation(k, m, child)
        PROVE  IInv'
    BY <2>9, ReceiveKeeps
  <2>10. CASE UNCHANGED vars
    <3>1. UNCHANGED <<receipt, source, propagated, verifier>>
      BY <2>10 DEF vars
    <3>2. TypeInv' /\ SignedInv'
      BY <2>1, <3>1 DEF TypeInv, TypeOK, SignedInv
    <3>3. CustodyInv' /\ NarrowInv'
      BY <2>1, <3>1 DEF CustodyInv, NarrowInv, Busy, Position, At
    <3>4. ReceivedIsAuthorized'
      BY <2>1, <3>1 DEF ReceivedIsAuthorized, At
    <3> QED BY <3>2, <3>3, <3>4 DEF IInv
  <2> QED BY <2>2, <2>3, <2>4, <2>5, <2>6, <2>7, <2>8, <2>9, <2>10 DEF Next
<1> QED BY <1>1, <1>2, PTL DEF Spec

-----------------------------------------------------------------------------
(* What is delegated verifies *)

\* A receipt of the grant that p holds, under p.
GrantedFrom(c, prev, p) ==
  /\ LinkedTo(c, prev, p)
  /\ c.depth = prev.depth + 1 /\ c.terms = prev.terms /\ c.maxDepth <= prev.maxDepth
  /\ is_scope_narrower_or_equal(c.scope, prev.scope)
  /\ prev.from <= c.from /\ c.to <= prev.to

\* What delegate signed, of a parent that was signed.
SourceInv ==
  \A r \in Receipts : source[r] # None =>
    /\ receipt[r] # None /\ receipt[source[r]] # None
    /\ GrantedFrom(receipt[r], receipt[source[r]], source[r])

\* Receipts are signed after their parents.
ParentInv ==
  \A r \in Receipts : receipt[r] # None /\ receipt[r].parent # None =>
    receipt[receipt[r].parent] # None

\* A sequence of receipts, each under the one before it, as verify_chain reads it.
Path(s) ==
  \A i \in 1 .. Len(s) : receipt[s[i]] # None /\ (i > 1 => receipt[s[i]].parent = s[i - 1])

\* No receipt above a delegated one is that one, or bears its delegation id if that
\* was drawn afresh: they were all signed before it was.
AncestryInv ==
  \A r \in Receipts, s \in Seq(Receipts) :
    s # <<>> /\ source[r] = s[Len(s)] /\ Path(s) =>
      \A i \in 1 .. Len(s) : s[i] # r /\ (receipt[r].id = r => receipt[s[i]].id # r)

DelegatedInv == SourceInv /\ ParentInv /\ AncestryInv

\* A receipt that delegate did not return leaves what it returned alone; one that
\* it did return has no id of a signed receipt, if its id was drawn afresh, and is
\* under a receipt signed before.
LEMMA SigningKeepsDelegated ==
  ASSUME TypeInv, DelegatedInv, NEW r \in Receipts, NEW content \in Contents,
         SignReceipt(r, content),
         \/ source' = source
         \/ /\ content.parent \in Receipts /\ source' = [source EXCEPT ![r] = content.parent]
            /\ content.id = r => \A q \in Receipts : receipt[q] # None => receipt[q].id # r
            /\ GrantedFrom(content, receipt[content.parent], content.parent)
  PROVE  DelegatedInv'
<1>1. /\ receipt \in [Receipts -> Contents \cup {None}] /\ source \in [Receipts -> Receipts \cup {None}]
      /\ receipt' = [receipt EXCEPT ![r] = content] /\ receipt[r] = None
      /\ content.parent # None => receipt[content.parent] # None
      /\ None \notin Receipts /\ None \notin Contents
  BY DelegationAssumption DEF TypeInv, TypeOK, SignReceipt
<1>2. /\ receipt'[r] = content /\ content # None
      /\ \A q \in Receipts : q # r => receipt'[q] = receipt[q]
  BY <1>1
<1>3. content.parent \in Receipts \cup {None} /\ content.parent # r
  BY <1>1 DEF Contents
<1>4. SourceInv /\ ParentInv /\ AncestryInv
  BY DEF DelegatedInv
<1>5. ASSUME NEW q \in Receipts, source'[q] # None
      PROVE  \/ /\ q = r /\ source'[q] = content.parent /\ content.parent \in Receipts
                /\ content.id = r => \A x \in Receipts : receipt[x] # None => receipt[x].id # r
                /\ GrantedFrom(content, receipt[content.parent], content.parent)
             \/ q # r /\ source'[q] = source[q] /\ source[q] \in Receipts /\ source[q] # r
  <2>1. ASSUME source[q] # None PROVE q # r /\ source[q] \in Receipts /\ source[q] # r
    BY <1>1, <1>4, <2>1 DEF SourceInv
  <2>2. CASE source' = source
    BY <1>5, <2>1, <2>2
  <2>3. CASE source' = [source EXCEPT ![r] = content.parent]
    BY <1>1, <1>4, <1>5, <2>1, <2>2, <2>3
  <2> QED BY <2>2, <2>3
<1>6. SourceInv'
  <2> SUFFICES ASSUME NEW q \in Receipts, source'[q] # None
               PROVE  /\ receipt'[q] # None /\ receipt'[source'[q]] # None
                      /\ GrantedFrom(receipt'[q], receipt'[source'[q]], source'[q])
    BY DEF SourceInv, GrantedFrom
  <2>1. CASE q = r
    BY <1>1, <1>2, <1>3, <1>5, <2>1
  <2>2. CASE q # r
    BY <1>2, <1>4, <1>5, <2>2 DEF SourceInv
  <2> QED BY <2>1, <2>2
<1>7. ParentInv'
  <2> SUFFICES ASSUME NEW q \in Receipts, receipt'[q] # None, receipt'[q].parent # None
               PROVE  receipt'[receipt'[q].parent] # None
    BY DEF ParentInv
  <2>1. CASE q = r
    BY <1>1, <1>2, <1>3, <2>1
  <2>2. CASE q # r
    <3>1. receipt[q].parent \in Receipts /\ receipt[receipt[q].parent] # None
      BY <1>1, <1>2, <1>4, <2>2 DEF ParentInv, Contents
    <3> QED BY <1>1, <1>2, <2>2, <3>1
  <2> QED BY <2>1, <2>2
<1>8. AncestryInv'
  <2> SUFFICES ASSUME NEW q \in Receipts, NEW s \in Seq(Receipts), s # <<>>,
                      source'[q] = s[Len(s)],
                      \A i \in 1 .. Len(s) :
                        receipt'[s[i]] # None /\ (i > 1 => receipt'[s[i]].parent = s[i - 1])
               PROVE  \A i \in 1 .. Len(s) :
                        s[i] # q /\ (receipt'[q].id = q => receipt'[s[i]].id # q)
    BY DEF AncestryInv, Path
  <2>1. Len(s) \in Nat /\ Len(s) >= 1 /\ \A i \in 1 .. Len(s) : s[i] \in Receipts
    OBVIOUS
  <2>2. s[Len(s)] # r
    BY <1>1, <1>3, <1>5, <2>1
  <2>3. ASSUME NEW i \in 1 .. Len(s), s[i] = r PROVE FALSE
    <3>1. i + 1 \in 1 .. Len(s) /\ i + 1 > 1 /\ (i + 1) - 1 = i
      BY <2>1, <2>2, <2>3
    <3>2. receipt'[s[i + 1]].parent = r /\ receipt'[s[i + 1]] # None /\ s[i + 1] \in Receipts
      BY <2>1, <2>3, <3>1
    <3>3. s[i + 1] # r
      BY <1>2, <1>3, <3>2
    <3> QED BY <1>1, <1>2, <1>4, <3>2, <3>3 DEF ParentInv
  <2>4. \A i \in 1 .. Len(s) : receipt'[s[i]] = receipt[s[i]]
    BY <1>2, <2>1, <2>3
  <2>5. Path(s)
    BY <2>4 DEF Path
  <2>6. CASE q = r
    <3>1. content.id = r => \A x \in Receipts : receipt[x] # None => receipt[x].id # r
      BY <1>1, <1>5, <2>1, <2>6
    <3> QED BY <1>2, <2>1, <2>3, <2>4, <2>5, <2>6, <3>1 DEF Path
  <2>7. CASE q # r
    <3>1. source[q] = s[Len(s)]
      BY <1>1, <1>5, <2>1, <2>7
    <3>2. \A i \in 1 .. Len(s) : s[i] # q /\ (receipt[q].id = q => receipt[s[i]].id # q)
      BY <1>4, <2>5, <3>1 DEF AncestryInv
    <3> QED BY <1>2, <2>4, <2>7, <3>2
  <2> QED BY <2>6, <2>7
<1> QED BY <1>6, <1>7, <1>8 DEF DelegatedInv

\* DelegatedInv holds of every reachable state.
LEMMA DelegatedInvariance == Spec => []DelegatedInv
<1>1. ASSUME Init PROVE DelegatedInv
  BY <1>1, DelegationAssumption DEF Init, DelegatedInv, SourceInv, ParentInv, AncestryInv
<1>2. IInv /\ DelegatedInv /\ [Next]_vars => DelegatedInv'
  <2> SUFFICES ASSUME IInv, DelegatedInv, [Next]_vars PROVE DelegatedInv'
    OBVIOUS
  <2>0. TypeInv
    BY DEF IInv
  <2>1. ASSUME NEW r \in Receipts, NEW id \in Receipts, NEW a \in Trusted, NEW w \in Terms,
               NEW g \in Grants, issue_root(r, id, a, w, g)
        PROVE  DelegatedInv'
    <3> DEFINE content == Granting(id, a, w, 0, None, g)
    <3>1. a \in Keys /\ g.maxDepth \in Depths /\ g.maxDepth \in Nat /\ 0 .. g.maxDepth \subseteq Depths
      BY DelegationAssumption
    <3>2. 0 \in Depths
      BY <3>1
    <3>3. content \in Contents
      BY <3>1, <3>2, GrantingTyped, DelegationAssumption
    <3>4. SignReceipt(r, content) /\ source' = source
      BY <2>1 DEF issue_root, new_receipt
    <3> HIDE DEF content
    <3> QED BY <2>0, <3>3, <3>4, SigningKeepsDelegated
  <2>2. ASSUME NEW r \in Receipts, NEW id \in Receipts, NEW p \in Receipts, NEW g \in Grants,
               delegate(r, id, p, g)
        PROVE  DelegatedInv'
    <3> DEFINE parent == receipt[p]
    <3> DEFINE content == Granting(id, parent.delegatee, parent.terms, parent.depth + 1, p, g)
    <3>1. /\ parent # None /\ parent.depth + 1 <= parent.maxDepth
          /\ SignReceipt(r, content) /\ source' = [source EXCEPT ![r] = p]
          /\ content.id = r => \A q \in Receipts : receipt[q] # None => receipt[q].id # r
          /\ is_scope_narrower_or_equal(g.scope, parent.scope)
          /\ parent.from <= g.from /\ g.to <= parent.to /\ g.maxDepth <= parent.maxDepth
      BY <2>2 DEF delegate, new_receipt
    <3>2. parent \in Contents
      BY <2>0, <3>1 DEF TypeInv, TypeOK
    <3>3. parent.depth \in Nat /\ parent.maxDepth \in Nat /\ 0 .. parent.maxDepth \subseteq Depths
      BY <3>2, DelegationAssumption DEF Contents
    <3>4. parent.depth + 1 \in Depths /\ parent.delegatee \in Keys /\ parent.terms \in Terms
      BY <3>1, <3>2, <3>3 DEF Contents
    <3>5. content \in Contents
      BY <3>4, GrantingTyped, DelegationAssumption
    <3>6. content.parent = p /\ GrantedFrom(content, parent, p)
      BY <3>1 DEF Granting, GrantedFrom, LinkedTo
    <3>7. /\ content.parent \in Receipts /\ source' = [source EXCEPT ![r] = content.parent]
          /\ GrantedFrom(content, receipt[content.parent], content.parent)
      BY <3>1, <3>6
    <3> HIDE DEF content
    <3> QED BY <2>0, <3>1, <3>5, <3>6, <3>7, SigningKeepsDelegated
  <2>3. ASSUME NEW r \in Receipts, NEW content \in Forgeries, SignOffProtocol(r, content)
        PROVE  DelegatedInv'
    <3>1. content \in Contents
      BY DelegationAssumption
    <3>2. SignReceipt(r, content) /\ source' = source
      BY <2>3 DEF SignOffProtocol
    <3> QED BY <2>0, <3>1, <3>2, SigningKeepsDelegated
  <2>4. CASE UNCHANGED <<receipt, source>>
    <3>1. SourceInv'
      BY <2>4 DEF DelegatedInv, SourceInv, GrantedFrom
    <3>2. ParentInv' /\ AncestryInv'
      BY <2>4 DEF DelegatedInv, ParentInv, AncestryInv, Path
    <3> QED BY <3>1, <3>2 DEF DelegatedInv
  <2> QED BY <2>1, <2>2, <2>3, <2>4 DEF Next, vars, propagate_delegation, VerifyStarts,
       VerifyReceipt, VerifyEnds, receive_delegation
<1> QED BY Invariance, <1>1, <1>2, PTL DEF Spec

-----------------------------------------------------------------------------
(* Theorems *)

\* Every variable stays in its range.
THEOREM TypeCorrect == Spec => []TypeOK
<1>1. IInv => TypeOK
  BY DEF IInv, TypeInv
<1> QED BY <1>1, Invariance, PTL

\* A chain that verify_chain accepts never widens, however long it is: not in the
\* effects it allows, its caveats, its window or its depth.
THEOREM NarrowsHolds == Spec => []AuthorityOnlyNarrows
<1>1. ASSUME IInv PROVE AuthorityOnlyNarrows
  <2> SUFFICES ASSUME Busy, NEW i \in Position, NEW j \in Position, i < j
               PROVE  /\ \A e \in Effects : scope_allows(At(j).scope, Verb[e], Target[e])
                                             => scope_allows(At(i).scope, Verb[e], Target[e])
                      /\ At(i).scope.caveats \subseteq At(j).scope.caveats
                      /\ At(i).from <= At(j).from /\ At(j).to <= At(i).to
                      /\ j - 1 <= At(i).maxDepth
    BY DEF AuthorityOnlyNarrows
  <2>1. TypeInv /\ CustodyInv /\ NarrowInv
    BY <1>1 DEF IInv
  <2>2. At(i) \in Contents /\ At(j) \in Contents
    BY <2>1, ChainTyped DEF CustodyInv
  <2>3. /\ i \in Nat /\ j \in Nat /\ i <= j /\ j > 1
    BY <2>1, ChainTyped DEF Position
  <2>4. /\ is_scope_narrower_or_equal(At(j).scope, At(i).scope)
        /\ At(i).from <= At(j).from /\ At(j).to <= At(i).to
        /\ At(j).maxDepth <= At(i).maxDepth
        /\ At(j).depth = j - 1 /\ At(j).depth <= At(j).maxDepth
    BY <2>1, <2>3 DEF NarrowInv
  <2>5. /\ At(i).scope \in Scopes /\ At(j).scope \in Scopes
        /\ At(i).maxDepth \in Nat /\ At(j).maxDepth \in Nat
    BY <2>2, DelegationAssumption DEF Contents
  <2>6. ASSUME NEW e \in Effects, scope_allows(At(j).scope, Verb[e], Target[e])
        PROVE  scope_allows(At(i).scope, Verb[e], Target[e])
    BY <2>4, <2>5, <2>6, NarrowerAllowsLess
  <2>7. j - 1 <= At(i).maxDepth
    BY <2>3, <2>4, <2>5
  <2> QED BY <2>4, <2>6, <2>7 DEF is_scope_narrower_or_equal
<1> QED BY <1>1, Invariance, PTL

\* In a chain that verify_chain accepts an honest holder delegated from exactly the
\* receipt above its own.
THEOREM CustodyHolds == Spec => []HonestCustody
<1>1. ASSUME IInv PROVE HonestCustody
  <2> SUFFICES ASSUME Busy, NEW i \in Position, At(i).delegator \in Honest
               PROVE  IF i = 1 THEN At(i).delegator \in Trusted
                      ELSE source[verifier.chain[i]] = verifier.chain[i - 1]
    BY DEF HonestCustody
  <2>1. TypeInv /\ CustodyInv /\ SignedInv
    BY <1>1 DEF IInv
  <2>2. CASE i = 1
    BY <2>1, <2>2 DEF CustodyInv
  <2>3. CASE i # 1
    <3>1. i > 1 /\ i - 1 \in Position
      BY <2>3, <2>1, ChainTyped DEF Position
    <3>2. verifier.chain[i] \in Receipts /\ verifier.chain[i - 1] \in Receipts
      BY <2>1, <3>1, ChainTyped
    <3>3. At(i) # None /\ At(i).signer = At(i).delegator /\ At(i).parent = verifier.chain[i - 1]
      BY <2>1, <3>1 DEF CustodyInv
    <3>4. At(i).parent # None
      BY <3>2, <3>3, DelegationAssumption
    <3> QED BY <2>1, <2>3, <3>2, <3>3, <3>4 DEF SignedInv, At
  <2> QED BY <2>2, <2>3
<1> QED BY <1>1, Invariance, PTL

\* What receive_delegation accepts was authorized at the root of its chain.
THEOREM ReceivedHolds == Spec => []ReceivedIsAuthorized
<1>1. IInv => ReceivedIsAuthorized
  BY DEF IInv
<1> QED BY <1>1, Invariance, PTL
\* What an honest holder delegates from a receipt at the end of a verified chain
\* passes verify_chain there: nothing above it has its id unless the caller asked for
\* that one, and delegate compared with the parent all that the verifier compares
\* but the depth with the bound asked for.
THEOREM DelegatedHolds == Spec => []DelegatedVerifies
<1>1. ASSUME IInv, DelegatedInv PROVE DelegatedVerifies
  <2> SUFFICES ASSUME verifier.pc = "verifying", verifier.chain # <<>>, NEW r \in Receipts,
                      source[r] = verifier.chain[Len(verifier.chain)],
                      receipt[r].from <= verifier.at, verifier.at <= receipt[r].to,
                      receipt[r].depth <= receipt[r].maxDepth,
                      receipt[r].id = r \/ \A i \in Position : At(i).id # receipt[r].id
               PROVE  Verifies(r)
    BY DEF DelegatedVerifies
  <2>1. TypeInv /\ CustodyInv /\ NarrowInv /\ SourceInv /\ AncestryInv
    BY <1>1 DEF IInv, DelegatedInv
  <2>2. Busy
    BY DEF Busy, Idle
  <2>0. PICK s \in Seq(Receipts) : s = verifier.chain
    BY <2>1, <2>2, ChainTyped
  <2>3. PICK n \in Nat : n = Len(s) /\ n >= 1
    BY <2>0
  <2>4. n \in Position /\ s[n] \in Receipts /\ Position = 1 .. n
    BY <2>0, <2>3 DEF Position
  <2>5. \A i \in 1 .. n : receipt[s[i]] # None /\ (i > 1 => receipt[s[i]].parent = s[i - 1])
    BY <2>0, <2>1, <2>2, <2>4 DEF CustodyInv, At
  <2>6. Path(s)
    BY <2>3, <2>5 DEF Path
  <2>7. source[r] = s[n] /\ source[r] # None
    BY <2>0, <2>3, <2>4, DelegationAssumption
  <2>8. /\ receipt[r] # None
        /\ GrantedFrom(receipt[r], receipt[s[n]], s[n])
    BY <2>1, <2>7 DEF SourceInv
  <2>9. \A i \in 1 .. n : s[i] # r /\ receipt[s[i]].id # receipt[r].id
    <3>1. \A i \in 1 .. n : s[i] # r /\ (receipt[r].id = r => receipt[s[i]].id # r)
      BY <2>1, <2>0, <2>3, <2>6, <2>7 DEF AncestryInv
    <3> QED BY <2>0, <2>4, <3>1 DEF At
  <2>10. Fresh(r)
    BY <2>0, <2>3, <2>8, <2>9 DEF Fresh
  <2>11. receipt[s[n]].depth = n - 1
    BY <2>0, <2>1, <2>2, <2>4 DEF NarrowInv, At
  <2>12. LinkedTo(receipt[r], receipt[s[n]], s[n]) /\ WithinGrant(receipt[r], receipt[s[n]], n)
    BY <2>3, <2>8, <2>11 DEF GrantedFrom, WithinGrant
  <2> QED BY <2>0, <2>3, <2>8, <2>10, <2>12 DEF Verifies
<1> QED BY <1>1, Invariance, DelegatedInvariance, PTL
=============================================================================
