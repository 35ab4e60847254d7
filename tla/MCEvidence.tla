----------------------------- MODULE MCEvidence -----------------------------
(* Two sealers with a rotation, and a thief of the first key.                 *)
EXTENDS Evidence, TLC

First == [id |-> "first", key |-> "k1"]
Second == [id |-> "second", key |-> "k2"]
Usurper == [id |-> "first", key |-> "k2"]

MCDeclared == {None, Second}
MCRegistered == {First, Second, Usurper}
MCRewritings == {<<"b">>, <<"a", "b">>}

Busy == {s \in Sealers : sealer[s].pc # "idle"}

FromTheFirst ==
  {build_merkle_root(Leaves(ledger, 0, n - 1)) :
     <<ledger, n>> \in {x \in (MCRewritings \cup {<<"a", "a", "a">>}) \X (1 .. MaxEvents) : x[2] <= Len(x[1])}}

\* The thief signs with the id of the key.  The ledger grows, signers are registered and the
\* thief acts while nobody is sealing; signers are registered before anything is sealed twice
\* or stolen.  Two seals overlap from where the first has been admitted and before a theft;
\* one anchored root is refused or in flight at a time, one known checkpoint rotates, and
\* checkpoints that start at the first event are of time 0.
Restricted ==
  /\ \A e \in known' : e.signer \in {First, Second}
  /\ Busy # {} => log' = log /\ signers' = signers /\ stolen' = stolen /\ Forged' = Forged
  /\ signers' # signers => stolen = {} /\ Len(chain) <= 1
  /\ \A x \in anchored' : x[2] = 1 => x[1] \notin FromTheFirst
  /\ stolen' # {} => signers'["first"] = "k1"
  /\ Cardinality(anchored' \ {<<e.root, e.timestamp>> : e \in known'}) <= 1
  /\ Cardinality(Busy') = 2 => stolen = {} /\ \E s \in Sealers : sealer'[s].pc \in {"appending", "rotating"}
  /\ Cardinality({e \in known' : e.next # None}) <= 1

Symmetry == Permutations(Sealers)
=============================================================================
