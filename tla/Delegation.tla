----------------------------- MODULE Delegation -----------------------------
(***************************************************************************)
(* Delegation chains (delegation_chains.py) and their acceptance by        *)
(* another agent (a2a.py).                                                 *)
(*                                                                         *)
(* Receipts and capabilities are documents: an honest holder signs only    *)
(* what issue_root, delegate and propagate_delegation return, another one  *)
(* signs whatever it likes, and anyone puts any documents together into a  *)
(* chain or a package.  verify_chain reads the chain receipt by receipt;   *)
(* a step of the verifier is one round of its loop, which looks at nothing *)
(* further down the chain, so the next receipt is chosen as it goes.       *)
(*                                                                         *)
(* A receipt is identified by its hash, a signature is the signer's name;  *)
(* a delegation id drawn afresh is named by its receipt, one that a caller *)
(* asks for by another receipt: any id may be asked for, so any may recur. *)
(* The moment of a verification and the view of revocations are arguments  *)
(* of the caller; what is revoked, or malformed, is only ever refused.     *)
(***************************************************************************)
EXTENDS Naturals, Sequences

CONSTANTS
  Keys, Trusted,        \* key ids, and those of the authority
  OffProtocol,          \* keys whose holders sign what they like
  Receipts,             \* hashes of receipt envelopes
  Scopes,               \* what a receipt may grant
  Terms,                \* root mandate and constitution of a chain
  Depths, Times,        \* what a receipt may say of depths and times
  Grants,               \* what an honest delegator may be asked for
  Forgeries,            \* receipts that are signed off the protocol
  Capabilities, CapabilityOf, \* capabilities that can be presented as mandates
  ForgedChildren,       \* child capabilities minted off the protocol
  Effects, Verb, Target, \* action envelopes, by digest
  None

Contents ==
  [id: Receipts, signer: Keys, delegator: Keys, delegatee: Keys, scope: Scopes, terms: Terms,
   depth: Depths, maxDepth: Depths, from: Times, to: Times, parent: Receipts \cup {None}]

Children(signers) ==
  [signer: signers, kind: {"execution", "mandate"}, parent: Capabilities, effect: Effects,
   holder: Keys, until: Times]

ASSUME DelegationAssumption ==
  /\ Trusted \subseteq Keys /\ OffProtocol \subseteq Keys \ Trusted
  /\ Depths \subseteq Nat /\ Times \subseteq Nat
  /\ \A n \in Depths : 0 .. n \subseteq Depths
  /\ Grants \subseteq [delegatee: Keys, scope: Scopes, maxDepth: Depths, from: Times, to: Times]
  /\ Forgeries \subseteq {x \in Contents : x.signer \in OffProtocol}
  /\ ForgedChildren \subseteq Children(OffProtocol)
  /\ \A s \in Scopes : \A p \in s.prefixes : p \in Seq(STRING)
  /\ CapabilityOf \in [Capabilities -> [issuer: Keys, kind: {"execution", "mandate"}, holder: Keys,
                                       effect: Effects, until: Times]]
  /\ Target \in [Effects -> Seq(STRING)]
  /\ None \notin Receipts /\ None \notin Contents

Honest == Keys \ OffProtocol

VARIABLES
  receipt,      \* the content of each receipt that has been signed
  source,       \* history: the receipt an honest holder delegated from
  propagated,   \* children that honest holders have minted
  verifier      \* the receiving agent

vars == <<receipt, source, propagated, verifier>>

Idle == [pc |-> "idle"]

Init ==
  /\ receipt = [r \in Receipts |-> None]
  /\ source = [r \in Receipts |-> None]
  /\ propagated = {}
  /\ verifier = Idle

-----------------------------------------------------------------------------
(* Scopes: a prefix is the sequence of its segments, <<>> the empty string *)

is_sub_prefix(child, parent) ==
  /\ Len(parent) <= Len(child)
  /\ \A i \in 1 .. Len(parent) : child[i] = parent[i]

\* Mutant of is_scope_narrower_or_equal: a child may drop its parent's caveats.
NarrowerButForCaveats(child, parent) ==
  /\ child.actions \subseteq parent.actions
  /\ \A p \in child.prefixes : \E q \in parent.prefixes : is_sub_prefix(p, q)

is_scope_narrower_or_equal(child, parent) ==
  /\ child.actions \subseteq parent.actions
  /\ \A p \in child.prefixes : \E q \in parent.prefixes : is_sub_prefix(p, q)
  /\ parent.caveats \subseteq child.caveats

scope_allows(scope, verb, target) ==
  verb \in scope.actions /\ \E p \in scope.prefixes : is_sub_prefix(target, p)

-----------------------------------------------------------------------------
(* Signing *)

SignReceipt(r, content) ==
  /\ receipt[r] = None
  /\ content.parent # None => receipt[content.parent] # None
  /\ receipt' = [receipt EXCEPT ![r] = content]
  /\ UNCHANGED <<propagated, verifier>>

\* A receipt of the given place in a chain, with what was asked for.
Granting(id, signer, terms, depth, parent, grant) ==
  [id |-> id, signer |-> signer, delegator |-> signer, delegatee |-> grant.delegatee,
   scope |-> grant.scope, terms |-> terms, depth |-> depth, maxDepth |-> grant.maxDepth,
   from |-> grant.from, to |-> grant.to, parent |-> parent]

\* The id is r's own when it is drawn afresh, else the delegation_id asked for.
new_receipt(r, content) ==
  /\ content.from < content.to
  /\ content.id = r => \A q \in Receipts : receipt[q] # None => receipt[q].id # r
  /\ SignReceipt(r, content)

issue_root(r, id, authority, terms, grant) ==
  /\ new_receipt(r, Granting(id, authority, terms, 0, None, grant))
  /\ UNCHANGED source

\* Mutant of delegate: a child may be granted more depth than its parent.
DelegateDeeper(r, id, p, grant) ==
  /\ receipt[p] # None
  /\ LET parent == receipt[p] IN
     /\ parent.delegatee \in Honest
     /\ is_scope_narrower_or_equal(grant.scope, parent.scope)
     /\ parent.from <= grant.from /\ grant.to <= parent.to
     /\ parent.depth + 1 <= parent.maxDepth
     /\ new_receipt(r, Granting(id, parent.delegatee, parent.terms, parent.depth + 1, p, grant))
  /\ source' = [source EXCEPT ![r] = p]

\* Mutant of delegate: the parent's own depth is not compared with its bound.
DelegateBelow(r, id, p, grant) ==
  /\ receipt[p] # None
  /\ LET parent == receipt[p] IN
     /\ parent.delegatee \in Honest
     /\ is_scope_narrower_or_equal(grant.scope, parent.scope)
     /\ parent.from <= grant.from /\ grant.to <= parent.to
     /\ grant.maxDepth <= parent.maxDepth
     /\ new_receipt(r, Granting(id, parent.delegatee, parent.terms, parent.depth + 1, p, grant))
  /\ source' = [source EXCEPT ![r] = p]

\* An honest holder delegates onward from p, of which it verifies nothing.
delegate(r, id, p, grant) ==
  /\ receipt[p] # None
  /\ LET parent == receipt[p] IN
     /\ parent.delegatee \in Honest
     /\ is_scope_narrower_or_equal(grant.scope, parent.scope)
     /\ parent.from <= grant.from /\ grant.to <= parent.to
     /\ parent.depth + 1 <= parent.maxDepth /\ grant.maxDepth <= parent.maxDepth
     /\ new_receipt(r, Granting(id, parent.delegatee, parent.terms, parent.depth + 1, p, grant))
  /\ source' = [source EXCEPT ![r] = p]

\* "a hostile delegator may have minted off-protocol"
SignOffProtocol(r, content) == SignReceipt(r, content) /\ UNCHANGED source

\* An honest holder of a mandate mints a child for another agent.
propagate_delegation(m, delegatee, until) ==
  LET mandate == CapabilityOf[m] IN
  /\ mandate.issuer \in Trusted /\ mandate.kind = "mandate"
  /\ mandate.holder \in Honest
  /\ until <= mandate.until
  /\ propagated' = propagated \cup
       {[signer |-> mandate.holder, kind |-> "execution", parent |-> m,
         effect |-> mandate.effect, holder |-> delegatee, until |-> until]}
  /\ UNCHANGED <<receipt, source, verifier>>

-----------------------------------------------------------------------------
(* verify_chain *)

VerifyStarts(moment) ==
  /\ verifier = Idle
  /\ verifier' = [pc |-> "verifying", chain |-> <<>>, at |-> moment]
  /\ UNCHANGED <<receipt, source, propagated>>

Fresh(r) == \A i \in 1 .. Len(verifier.chain) :
  verifier.chain[i] # r /\ receipt[verifier.chain[i]].id # receipt[r].id

IsRoot(c) ==
  c.signer \in Trusted /\ c.delegator = c.signer /\ c.depth = 0 /\ c.parent = None

\* Mutant of LinkedTo: the hash of the previous receipt is not compared.
InCustodyOf(c, prev, p) == c.signer = prev.delegatee /\ c.delegator = prev.delegatee

LinkedTo(c, prev, p) ==
  c.signer = prev.delegatee /\ c.delegator = prev.delegatee /\ c.parent = p

WithinGrant(c, prev, index) ==
  /\ c.depth = index /\ c.depth = prev.depth + 1
  /\ is_scope_narrower_or_equal(c.scope, prev.scope)
  /\ c.terms = prev.terms
  /\ c.maxDepth <= prev.maxDepth /\ c.depth <= c.maxDepth
  /\ prev.from <= c.from /\ c.to <= prev.to

Verifies(r) ==
  LET c == receipt[r] n == Len(verifier.chain) IN
  /\ c # None
  /\ Fresh(r)
  /\ n = 0 => IsRoot(c)
  /\ n > 0 => LET p == verifier.chain[n] IN
                LinkedTo(c, receipt[p], p) /\ WithinGrant(c, receipt[p], n)
  /\ c.from <= verifier.at /\ verifier.at <= c.to

VerifyReceipt(r) ==
  /\ verifier.pc = "verifying"
  /\ Verifies(r)
  /\ verifier' = [verifier EXCEPT !.chain = Append(@, r)]
  /\ UNCHANGED <<receipt, source, propagated>>

\* A round fails, the chain ends, or the delegation has been received.
VerifyEnds ==
  /\ verifier # Idle
  /\ verifier' = Idle
  /\ UNCHANGED <<receipt, source, propagated>>

-----------------------------------------------------------------------------
(* receive_delegation *)

\* Mutant of MintedFrom: the child's effect is not compared with the mandate's.
HeldFrom(child, m) == child.kind = "execution" /\ child.parent = m

MintedFrom(child, m) ==
  child.kind = "execution" /\ child.parent = m /\ child.effect = CapabilityOf[m].effect

\* Everything but the chain: the mandate is the authority's and the leaf
\* delegator's, the child is that delegator's and for this receiver, and the
\* chain's scope covers the effect.
Accepts(receiver, m, child) ==
  LET mandate == CapabilityOf[m] leaf == receipt[verifier.chain[Len(verifier.chain)]] IN
  /\ leaf.delegatee = receiver
  /\ mandate.issuer \in Trusted /\ verifier.at <= mandate.until /\ mandate.kind = "mandate"
  /\ mandate.holder = leaf.delegator
  /\ child.signer = leaf.delegator /\ verifier.at <= child.until
  /\ MintedFrom(child, m)
  /\ child.holder = receiver
  /\ scope_allows(leaf.scope, Verb[child.effect], Target[child.effect])

receive_delegation(receiver, m, child) ==
  /\ verifier.pc = "verifying" /\ verifier.chain # <<>>
  /\ Accepts(receiver, m, child)
  /\ verifier' = [pc |-> "received", chain |-> verifier.chain, at |-> verifier.at,
                  receiver |-> receiver, mandate |-> m, child |-> child]
  /\ UNCHANGED <<receipt, source, propagated>>

Next ==
  \/ \E r, id \in Receipts, a \in Trusted, w \in Terms, g \in Grants : issue_root(r, id, a, w, g)
  \/ \E r, id, p \in Receipts, g \in Grants : delegate(r, id, p, g)
  \/ \E r \in Receipts, content \in Forgeries : SignOffProtocol(r, content)
  \/ \E m \in Capabilities, k \in Keys, until \in Times : propagate_delegation(m, k, until)
  \/ \E moment \in Times : VerifyStarts(moment)
  \/ \E r \in Receipts : VerifyReceipt(r)
  \/ VerifyEnds
  \/ \E k \in Keys, m \in Capabilities, child \in propagated \cup ForgedChildren :
        receive_delegation(k, m, child)

Spec == Init /\ [][Next]_vars

-----------------------------------------------------------------------------
(* Properties *)

\* Every variable stays in its range, and receipts are signed after their parents.
TypeOK ==
  /\ receipt \in [Receipts -> Contents \cup {None}]
  /\ source \in [Receipts -> Receipts \cup {None}]
  /\ propagated \subseteq Children(Honest)
  /\ \/ verifier = Idle
     \/ /\ verifier.pc = "verifying"
        /\ verifier \in [pc: {"verifying"}, chain: Seq(Receipts), at: Times]
     \/ /\ verifier.pc = "received"
        /\ verifier \in [pc: {"received"}, chain: Seq(Receipts), at: Times, receiver: Keys,
                         mandate: Capabilities, child: Children(Keys)]

Busy == verifier # Idle
Position == 1 .. Len(verifier.chain)
At(i) == receipt[verifier.chain[i]]

\* What a verified receipt grants, every receipt above it grants: the actions on
\* the resources (as scope_allows decides), under no fewer caveats, for no longer
\* and to no greater depth ("authority at any hop MUST be a subset of the granting
\* hop").
AuthorityOnlyNarrows ==
  Busy => \A i, j \in Position : i < j =>
    /\ \A e \in Effects :
         scope_allows(At(j).scope, Verb[e], Target[e])
           => scope_allows(At(i).scope, Verb[e], Target[e])
    /\ At(i).scope.caveats \subseteq At(j).scope.caveats
    /\ At(i).from <= At(j).from /\ At(j).to <= At(i).to
    /\ j - 1 <= At(i).maxDepth

\* An honest holder's part in a verified chain is what it did: it delegated from
\* exactly the receipt above its own, and the root is the authority's.  A receipt
\* cannot be moved under another grant.
HonestCustody ==
  Busy => \A i \in Position : At(i).delegator \in Honest =>
    IF i = 1 THEN At(i).delegator \in Trusted ELSE source[verifier.chain[i]] = verifier.chain[i - 1]

\* What an honest holder delegates from a receipt that verifies, verifies too while
\* it is valid.  With two exceptions, of arguments that delegate takes and
\* verify_chain then refuses: a max_depth below the depth of the receipt returned,
\* and a delegation_id that a receipt above already bears.  An id drawn afresh is
\* never refused.
DelegatedVerifies ==
  verifier.pc = "verifying" /\ verifier.chain # <<>> =>
    \A r \in Receipts :
      (/\ source[r] = verifier.chain[Len(verifier.chain)]
       /\ receipt[r].from <= verifier.at /\ verifier.at <= receipt[r].to
       /\ receipt[r].depth <= receipt[r].maxDepth
       /\ receipt[r].id = r \/ \A i \in Position : At(i).id # receipt[r].id) => Verifies(r)

\* A delegation that is received is of an effect the authority's root scope allows
\* and a mandate of the authority names, and an honest delegator minted it for
\* this receiver.
ReceivedIsAuthorized ==
  verifier.pc = "received" =>
    LET e == verifier.child.effect IN
    /\ At(1).signer \in Trusted
    /\ scope_allows(At(1).scope, Verb[e], Target[e])
    /\ CapabilityOf[verifier.mandate].issuer \in Trusted
    /\ CapabilityOf[verifier.mandate].effect = e
    /\ At(Len(verifier.chain)).delegator \in Honest => verifier.child \in propagated
=============================================================================
