---------------------------- MODULE MCDecisions ----------------------------
(* Tokens of two roots attenuated up to twice, presented at three gates by    *)
(* two threads, while mode changes of either kind arrive in any order.        *)
EXTENDS Decisions, TLC

MCBelow == {<<r, r>> : r \in Resources} \cup {<<"/a/b", "/a">>}

MCUrlOk == {<<u, u>> : u \in Urls} \cup {<<"/u", "/u/x">>}

MCKind == [c \in Caveats |->
  CASE c \in {"spend5", "eur5", "eur3"} -> "spend_limit"
    [] c = "inB" -> "resource_prefix"
    [] c \in {"toH", "toU", "toHUV", "toHU"} -> "http_allowlist"
    [] c \in {"once", "thrice"} -> "uses"
    [] c = "soon" -> "expiry"]

MCBound == [c \in Caveats |->
  CASE c = "spend5" -> [amount |-> 5, currency |-> None]
    [] c = "eur5" -> [amount |-> 5, currency |-> "EUR"]
    [] c = "eur3" -> [amount |-> 3, currency |-> "EUR"]
    [] c = "inB" -> "/a/b"
    [] c = "toH" -> [hosts |-> {"h"}, urls |-> None]
    [] c = "toU" -> [hosts |-> None, urls |-> {"/u"}]
    [] c = "toHUV" -> [hosts |-> {"h"}, urls |-> {"/u", "/v"}]
    [] c = "toHU" -> [hosts |-> {"h"}, urls |-> {"/u"}]
    [] c = "once" -> 1
    [] c = "thrice" -> 3
    [] c = "soon" -> 1]

Root(action, resource, constitution, caveats) ==
  [audience |-> "mcp", action |-> action, resource |-> resource, constitution |-> constitution,
   caveats |-> caveats, not_before |-> 0, expires_at |-> 2, parent |-> None]

MCRoots == {Root("read", "/a", "now", {"eur5", "toHUV"}), Root("wire", "/a/b", "now", {"thrice"})}

\* The second to the fourth widen what the root's caveats say.
MCStrays ==
  {Root("read", "/a/b", "now", cs) :
     cs \in {{}, {"spend5", "toHU"}, {"eur3", "toH"}, {"eur3", "toU"}, {"inB", "eur5", "toHUV"}}}
    \cup {Root("wire", "/a/b", "now", {"once"})}

MCRequests ==
  {[caveats |-> {"eur3"}, resource |-> "/a", from |-> 0, to |-> 3],
   [caveats |-> {"inB", "toHU"}, resource |-> "/a", from |-> 0, to |-> 3],
   [caveats |-> {}, resource |-> "/a/b", from |-> 1, to |-> 2],
   [caveats |-> {"soon"}, resource |-> "/a/b", from |-> 0, to |-> 0]}

MCContexts ==
  {[resource |-> None, host |-> "h", url |-> "/u/x", spend |-> 3, currency |-> "EUR", uses |-> 0],
   [resource |-> "/a/b", host |-> "h", url |-> "/u", spend |-> 4, currency |-> None, uses |-> 3],
   [resource |-> None, host |-> None, url |-> "/u", spend |-> 3, currency |-> "EUR", uses |-> 0],
   [resource |-> "/a/b", host |-> "h", url |-> None, spend |-> 3, currency |-> "EUR", uses |-> 3]}

MCGovernance == [a \in Actions |-> IF a = "read" THEN "ALLOW" ELSE "APPROVAL_REQUIRED"]

MCCommands ==
  {[mode |-> "SHADOW", sequence |-> 0, issued_at |-> 0, expires_at |-> 3],
   [mode |-> "ENFORCE", sequence |-> 1, issued_at |-> 1, expires_at |-> 3],
   [mode |-> "SHADOW", sequence |-> 2, issued_at |-> 0, expires_at |-> 1]}

Stray(t) == \E p \in Strays : token'[t] = [p EXCEPT !.parent = token'[t].parent]

\* A root and two descendants, one of them a stray at the most, are signed first, and
\* of these the chains whose middle inherits its parent's resource are presented.
Chain ==
  \E r, m, l \in Tokens :
    /\ token[l] # None /\ token[l].parent = m
    /\ token[m].parent = r /\ token[m].resource = token[r].resource
    /\ ~Stray(m) /\ token[m].not_before = 0

SignedFirst ==
  IF token' = token THEN Chain \/ Signed = {}
  ELSE /\ now = 0 /\ records = <<>> /\ \A th \in Threads : thread[th] = Idle
       /\ Cardinality({t \in Tokens : token'[t] \in Roots}) <= 1
       /\ \A t, u \in Tokens : {token'[t], token'[u]} \subseteq Payload /\ Stray(t) /\ Stray(u) => t = u

\* The verdict on a token does not depend on the mode: where the mode changes, what is
\* evaluated are actions without a token.
ModeWithoutTokens == Signed # {} => applied = {} /\ ~Switching

\* One nonce consumed at one gate, then another step.
FewConsumed == Cardinality({<<g, t>> \in Gates \X Tokens : t \in used[g]}) <= 1

Symmetry == Permutations(Threads) \cup Permutations(Tokens)
=============================================================================
