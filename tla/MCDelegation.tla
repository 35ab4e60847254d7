---------------------------- MODULE MCDelegation ----------------------------
(* Delegation with three receipts: the authority and one agent follow the    *)
(* protocol, the other agent signs receipts that differ from what delegate   *)
(* would return in one field.                                                *)
EXTENDS Delegation, FiniteSets, TLC

CONSTANTS authority, honest, hostile

Wide   == [actions |-> {"read", "post"}, prefixes |-> {<<"w">>}, caveats |-> {}]
Narrow == [actions |-> {"read"}, prefixes |-> {<<"w", "x">>}, caveats |-> {"audited"}]
Beside == [actions |-> {"read"}, prefixes |-> {<<"w-evil">>}, caveats |-> {"audited"}]
Loose  == [Narrow EXCEPT !.caveats = {}]
MCScopes == {Wide, Narrow, Beside, Loose}

MCTarget == [e \in Effects |-> IF e = "readX" THEN <<"w", "x", "1">> ELSE <<"w", "y">>]
MCVerb   == [e \in Effects |-> IF e = "readX" THEN "read" ELSE "post"]

MCCapabilityOf ==
  [m \in Capabilities |->
     [issuer |-> IF m = "forged" THEN hostile ELSE authority,
      kind |-> "mandate",
      holder |-> IF m = "m1" THEN honest ELSE hostile,
      effect |-> IF m = "forged" THEN "postY" ELSE "readX",
      until |-> 1]]

MCGrants ==
  [delegatee: {honest, hostile}, scope: {Wide, Narrow}, maxDepth: {2}, from: {0}, to: {1}]
    \cup {[delegatee |-> honest, scope |-> Narrow, maxDepth |-> 1, from |-> 0, to |-> 1],
          [delegatee |-> honest, scope |-> Narrow, maxDepth |-> 2, from |-> 0, to |-> 0]}

\* What the hostile agent would sign if it followed the protocol, and the same
\* with one field changed.
Genuine ==
  [id: Receipts, signer: {hostile}, delegator: {hostile}, delegatee: {honest},
   scope: {Narrow}, terms: {"t"}, depth: {1, 2}, maxDepth: {2}, from: {0}, to: {1},
   parent: Receipts]

Altered ==
  LET OfDepth1 == {x \in Genuine : x.depth = 1 /\ x.id # x.parent} IN
  {[x EXCEPT !.delegator = authority] : x \in OfDepth1}
    \cup {[x EXCEPT !.scope = s] : x \in OfDepth1, s \in {Wide, Beside, Loose}}
    \cup {[x EXCEPT !.maxDepth = 1] : x \in OfDepth1}
    \cup {[x EXCEPT !.parent = None, !.depth = 0] : x \in OfDepth1}

MCForgeries == Genuine \cup Altered

MCForgedChildren ==
  [signer: {hostile}, kind: {"execution"}, parent: Capabilities, effect: Effects,
   holder: {honest}, until: {1}]

\* One receipt at most for which an honest delegator asks an id: one that a receipt
\* signed before it bears.
Asked == {r \in Receipts : source[r] # None /\ receipt[r].id # r}

AskedOnce ==
  /\ Cardinality(Asked) <= 1
  /\ \A r \in Receipts : source[r] = None /\ receipt[r] # None /\ receipt[r].signer \in Honest
       => receipt[r].id = r
  /\ \A r \in Asked : \E q \in Receipts \ {r} : receipt[q] # None /\ receipt[q].id = receipt[r].id

\* Verification only reads, so it may begin when all documents are signed; one
\* child at a time, which is not minted for the authority.
SignedFirst ==
  /\ verifier # Idle \/ propagated # {} => \A r \in Receipts : receipt[r] # None
  /\ Cardinality(propagated) <= 1
  /\ \A c \in propagated : c.holder # authority

Symmetry == Permutations(Receipts)
=============================================================================
