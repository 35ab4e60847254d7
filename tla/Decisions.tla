------------------------------ MODULE Decisions ------------------------------
(***************************************************************************)
(* Attenuated capability tokens (attenuated_tokens.py) and those who        *)
(* decide by them: the DecisionGovernor of the planes (planes.py), the      *)
(* ShadowGovernor (shadow_mode.py), and a relying party that verifies a     *)
(* token together with its chain.                                           *)
(*                                                                          *)
(* A token's name stands for its hash, its capability_id and its nonce: each *)
(* signed document has its own.  Documents with a bad signature, an unknown *)
(* issuer or a wrong holder proof are refused and change nothing; they are  *)
(* not modelled.  The governors have no lock: between the check of a nonce  *)
(* and its consumption, between the reading of the log's head and the       *)
(* appending of a record, and between the check of a mode change and its     *)
(* writes, other threads take steps.                                        *)
(***************************************************************************)
EXTENDS Integers, Sequences, FiniteSets

CONSTANTS
  Threads,
  Tokens,
  Planes, Actions,        \* an action stands for its parameters too
  Resources, Below,       \* Below: the pairs <<r, s>> with r inside s at a segment boundary
  Constitutions, Current, \* Current: the one the governors decide under
  Caveats, Kind, Bound,
  Hosts, Urls, UrlOk,     \* UrlOk: the pairs <<u, v>> with v under the allowed u
  Currencies, Contexts,
  Roots, Requests,        \* what issuers are asked to issue, and to attenuate a token to
  Strays,                 \* children an issuer's key signs without attenuate
  Governance,             \* governance_check of each action under Current
  NeverShadow, InitialMode, Commands,
  MaxChainDepth, MaxTime, MaxRecords,
  None

Kinds == {"expiry", "uses", "spend_limit", "resource_prefix", "http_allowlist"}
Verdicts == {"ALLOW", "APPROVAL_REQUIRED", "DENY"}
Modes == {"ENFORCE", "SHADOW"}

Payload == [audience: Planes, action: Actions, resource: Resources, constitution: Constitutions,
            caveats: SUBSET Caveats, not_before: Nat, expires_at: Nat, parent: Tokens \cup {None}]
\* What an invocation says of itself; all but the count of uses it may leave out.
Context == [resource: Resources \cup {None}, host: Hosts \cup {None}, url: Urls \cup {None},
            spend: Nat \cup {None}, currency: Currencies \cup {None}, uses: Nat]
\* An allowlist names hosts, URLs or both; a limit may be in one currency or in any.
Allowlist == [hosts: {None} \cup SUBSET Hosts, urls: {None} \cup SUBSET Urls]
Limit == [amount: Nat, currency: Currencies \cup {None}]
Request == [caveats: SUBSET Caveats, resource: Resources, from: Nat, to: Nat]
Command == [mode: Modes, sequence: Nat, issued_at: Nat, expires_at: Nat]

ASSUME DocumentAssumption ==
  /\ Kind \in [Caveats -> Kinds]
  /\ \A c \in Caveats :
       /\ Kind[c] = "expiry" => Bound[c] \in Nat
       /\ Kind[c] = "spend_limit" => Bound[c] \in Limit
       /\ Kind[c] = "uses" => Bound[c] \in Nat \ {0}
       /\ Kind[c] = "resource_prefix" => Bound[c] \in Resources
       /\ Kind[c] = "http_allowlist" => Bound[c] \in Allowlist
  /\ Roots \cup Strays \subseteq {p \in Payload : p.parent = None /\ p.not_before <= p.expires_at}
  /\ Requests \subseteq Request /\ Contexts \subseteq Context
  /\ Commands \subseteq Command
  /\ None \notin Tokens \cup Payload \cup Resources \cup Hosts \cup Urls \cup Currencies \cup Commands \cup Nat

\* Prefixes at segment boundaries order the resources.
ASSUME BelowAssumption ==
  /\ \A r \in Resources : <<r, r>> \in Below
  /\ \A r, s, t \in Resources : <<r, s>> \in Below /\ <<s, t>> \in Below => <<r, t>> \in Below

ASSUME GovernorAssumption ==
  /\ Governance \in [Actions -> Verdicts] /\ NeverShadow \subseteq Actions /\ InitialMode \in Modes

VARIABLES
  now,
  token,     \* the payload under each name, None before it is signed
  used,      \* used_nonces of the two governors and of the relying party
  mode, last_sequence,  \* of the ShadowGovernor
  records,   \* the shadow log; a record's hash is its position, writer is history
  thread,
  passed,    \* history: how often each thread let each token pass at each gate
  applied,   \* history: the mode changes that took effect
  overlapped \* history: whether two calls of apply_mode_change have overlapped

vars == <<now, token, used, mode, last_sequence, records, thread, passed, applied, overlapped>>
gateVars == <<used, passed>>
shadowVars == <<mode, last_sequence, records, applied, overlapped>>

Gates == {"planes", "shadow", "party"}
Idle == [pc |-> "idle", token |-> None, action |-> None, verdict |-> "DENY", enforced |-> "DENY",
         previous |-> 0, command |-> None]

Init ==
  /\ now = 0
  /\ token = [t \in Tokens |-> None]
  /\ used = [g \in Gates |-> {}]
  /\ mode = InitialMode /\ last_sequence = -1
  /\ records = <<>>
  /\ thread = [th \in Threads |-> Idle]
  /\ passed = [g \in Gates |-> [th \in Threads |-> [t \in Tokens |-> 0]]]
  /\ applied = {} /\ overlapped = FALSE

Signed == {t \in Tokens : token[t] # None}

-----------------------------------------------------------------------------
(* Issuing and attenuating *)

Issue(t, p) ==
  /\ token[t] = None
  /\ token' = [token EXCEPT ![t] = p]
  /\ UNCHANGED <<now, gateVars, shadowVars, thread>>

\* A key of a trusted issuer signs a child that attenuate did not build.
SignStray(parent, t, p) ==
  /\ parent \in Signed /\ token[t] = None
  /\ token' = [token EXCEPT ![t] = [p EXCEPT !.parent = parent]]
  /\ UNCHANGED <<now, gateVars, shadowVars, thread>>

\* A child's list under its parent's; a parent without one constrains nothing.
NoWider(new, old) == old # None => new # None /\ new \subseteq old

\* Mutant of Tighter: the URLs of an allowlist are not compared.
TighterButForUrls(c, d) ==
  CASE Kind[d] \in {"expiry", "uses"} -> Bound[c] <= Bound[d]
    [] Kind[d] = "spend_limit" ->
         /\ Bound[d].currency \in {None, Bound[c].currency}
         /\ Bound[c].amount <= Bound[d].amount
    [] Kind[d] = "resource_prefix" -> <<Bound[c], Bound[d]>> \in Below
    [] Kind[d] = "http_allowlist" -> NoWider(Bound[c].hosts, Bound[d].hosts)

\* _check_caveat_subsumed: a caveat is as tight as another of its kind.
Tighter(c, d) ==
  CASE Kind[d] \in {"expiry", "uses"} -> Bound[c] <= Bound[d]
    [] Kind[d] = "spend_limit" ->
         /\ Bound[d].currency \in {None, Bound[c].currency}
         /\ Bound[c].amount <= Bound[d].amount
    [] Kind[d] = "resource_prefix" -> <<Bound[c], Bound[d]>> \in Below
    [] Kind[d] = "http_allowlist" ->
         NoWider(Bound[c].hosts, Bound[d].hosts) /\ NoWider(Bound[c].urls, Bound[d].urls)

Matched(d, child) ==
  LET matches == {c \in child.caveats : Kind[c] = Kind[d]} IN
  matches # {} /\ \A c \in matches : Tighter(c, d)

Subsumes(child, parent) ==
  /\ <<child.action, child.audience, child.constitution>> =
       <<parent.action, parent.audience, parent.constitution>>
  /\ <<child.resource, parent.resource>> \in Below
  /\ child.expires_at <= parent.expires_at /\ child.not_before >= parent.not_before
  /\ \A d \in parent.caveats : Matched(d, child)

\* The child that attenuate builds: the window is clamped into the parent's.
Narrowed(t, q) ==
  [token[t] EXCEPT !.resource = q.resource, !.caveats = @ \cup q.caveats, !.parent = t,
     !.not_before = IF q.from > @ THEN q.from ELSE @, !.expires_at = IF q.to < @ THEN q.to ELSE @]

\* Mutant of HasWindow: an empty window is let through.
AnyWindow(p) == TRUE

HasWindow(p) == p.not_before <= p.expires_at

attenuate(parent, t, q) ==
  LET child == Narrowed(parent, q) IN
  /\ parent \in Signed /\ token[t] = None
  /\ <<q.resource, token[parent].resource>> \in Below
  /\ HasWindow(child)
  /\ Subsumes(child, token[parent])
  /\ token' = [token EXCEPT ![t] = child]
  /\ UNCHANGED <<now, gateVars, shadowVars, thread>>

-----------------------------------------------------------------------------
(* Verification *)

\* An invocation that leaves out the resource is taken to be on the token's.
Named(context, p) == IF context.resource = None THEN [context EXCEPT !.resource = p.resource] ELSE context

\* _evaluate_caveat; single use is left to the nonces, which every gate keeps.
Holds(c, p, context, when) ==
  CASE Kind[c] = "expiry" -> when <= Bound[c]
    [] Kind[c] = "uses" -> Bound[c] = 1 \/ context.uses < Bound[c]
    [] Kind[c] = "http_allowlist" ->
         /\ Bound[c].hosts # None => context.host \in Bound[c].hosts
         /\ Bound[c].urls # None => \E u \in Bound[c].urls : <<u, context.url>> \in UrlOk
    [] Kind[c] = "resource_prefix" -> <<Named(context, p).resource, Bound[c]>> \in Below
    [] Kind[c] = "spend_limit" ->
         /\ context.spend # None /\ context.spend <= Bound[c].amount
         /\ Bound[c].currency \in {None, context.currency}

Authorizes(p, context, when) ==
  /\ p.not_before <= when /\ when <= p.expires_at
  /\ \A c \in p.caveats : Holds(c, p, context, when)

Parents(ts) == {token[a].parent : a \in ts} \ {None}

\* A token with its parent, the parent's parent and so on, as far as verify goes.
Lineage(t) ==
  LET Up[n \in Nat] == IF n = 0 THEN Parents({t}) ELSE Up[n - 1] \cup Parents(Up[n - 1])
  IN {t} \cup Up[MaxChainDepth]

\* Mutant of Fresh: a nonce that was consumed is accepted.
FreshOrNot(t, nonces) == TRUE

Fresh(t, nonces) == t \notin nonces

\* verify, with the envelopes of chain at hand
verify(t, nonces, action, context, chain) ==
  /\ t \in Signed
  /\ \A a \in Lineage(t) :
       /\ Fresh(a, nonces)
       /\ token[a].action = action
       /\ Authorizes(token[a], context, now)
       /\ token[a].parent # None =>
            token[a].parent \in chain /\ Subsumes(token[a], token[token[a].parent])
  /\ Cardinality(Lineage(t)) <= MaxChainDepth + 1

Consumes(th, g, t) ==
  /\ used' = [used EXCEPT ![g] = @ \cup {t}]
  /\ passed' = [passed EXCEPT ![g][th][t] = @ + 1]

-----------------------------------------------------------------------------
(* DecisionGovernor *)

\* decide, up to the point where only ALLOW is left; the other verdicts change nothing.
Decide(th, t, plane, action, resource, context) ==
  /\ thread[th].pc = "idle"
  /\ Governance[action] = "ALLOW"
  /\ t \in Signed
  /\ <<token[t].audience, token[t].action, token[t].resource, token[t].constitution>> =
       <<plane, action, resource, Current>>
  /\ verify(t, used["planes"], action, context, {})
  /\ thread' = [thread EXCEPT ![th] = [Idle EXCEPT !.pc = "allowing", !.token = t]]
  /\ UNCHANGED <<now, token, gateVars, shadowVars>>

Allow(th) ==
  /\ thread[th].pc = "allowing"
  /\ Consumes(th, "planes", thread[th].token)
  /\ thread' = [thread EXCEPT ![th] = Idle]
  /\ UNCHANGED <<now, token, shadowVars>>

-----------------------------------------------------------------------------
(* A relying party that verifies with the chain, and tracks the nonces it is shown *)

VerifyWithChain(th, t, action, context) ==
  /\ thread[th].pc = "idle"
  /\ verify(t, used["party"], action, context, Signed)
  /\ thread' = [thread EXCEPT ![th] = [Idle EXCEPT !.pc = "accepting", !.token = t]]
  /\ UNCHANGED <<now, token, gateVars, shadowVars>>

Accept(th) ==
  /\ thread[th].pc = "accepting"
  /\ Consumes(th, "party", thread[th].token)
  /\ thread' = [thread EXCEPT ![th] = Idle]
  /\ UNCHANGED <<now, token, shadowVars>>

-----------------------------------------------------------------------------
(* ShadowGovernor *)

\* _combine: DENY before APPROVAL_REQUIRED before ALLOW
Combine(v, w) ==
  CASE "DENY" \in {v, w} -> "DENY"
    [] "APPROVAL_REQUIRED" \in {v, w} /\ "DENY" \notin {v, w} -> "APPROVAL_REQUIRED"
    [] OTHER -> "ALLOW"

\* evaluate, up to the verdict of the pipeline: with a token, its nonce is consumed
\* next if it verifies and binds, whatever the constitution says.
Evaluate(th, t, action, resource, context) ==
  LET binds == t \in Signed /\ <<token[t].action, token[t].resource>> = <<action, resource>>
                 /\ verify(t, used["shadow"], action, context, {})
      verdict == IF t = None \/ binds THEN Combine(Governance[action], "ALLOW") ELSE "DENY"
  IN
  /\ thread[th].pc = "idle"
  /\ Len(records) < MaxRecords
  /\ thread' = [thread EXCEPT ![th] =
       [Idle EXCEPT !.pc = IF binds THEN "consuming" ELSE "judging",
                    !.token = IF binds THEN t ELSE None, !.action = action, !.verdict = verdict]]
  /\ UNCHANGED <<now, token, gateVars, shadowVars>>

ConsumeToken(th) ==
  /\ thread[th].pc = "consuming"
  /\ Consumes(th, "shadow", thread[th].token)
  /\ thread' = [thread EXCEPT ![th].pc = "judging", ![th].token = None]
  /\ UNCHANGED <<now, token, shadowVars>>

Enforced(action, verdict) ==
  IF mode = "ENFORCE" \/ action \in NeverShadow THEN verdict ELSE "ALLOW"

\* The mode is read, and then the head of the log.
Judge(th) ==
  /\ thread[th].pc = "judging"
  /\ thread' = [thread EXCEPT ![th].pc = "appending", ![th].previous = Len(records),
                              ![th].enforced = Enforced(thread[th].action, thread[th].verdict)]
  /\ UNCHANGED <<now, token, gateVars, shadowVars>>

AppendRecord(th) ==
  LET r == thread[th] IN
  /\ r.pc = "appending"
  /\ records' = Append(records, [previous |-> r.previous, writer |-> th])
  /\ thread' = [thread EXCEPT ![th] = Idle]
  /\ UNCHANGED <<now, token, gateVars, mode, last_sequence, applied, overlapped>>

\* Mutant of Newer: the sequence is not compared.
AnySequence(c) == TRUE

Newer(c) == c.sequence > last_sequence

Switching == \E th \in Threads : thread[th].pc \in {"switching", "sequencing"}

\* apply_mode_change, up to its writes: the clock and the sequence are read.
apply_mode_change(th, c) ==
  /\ thread[th].pc = "idle"
  /\ Newer(c) /\ c.issued_at <= now /\ now < c.expires_at
  /\ thread' = [thread EXCEPT ![th] = [Idle EXCEPT !.pc = "switching", !.command = c]]
  /\ overlapped' = (overlapped \/ Switching)
  /\ UNCHANGED <<now, token, gateVars, mode, last_sequence, records, applied>>

SetMode(th) ==
  /\ thread[th].pc = "switching"
  /\ mode' = thread[th].command.mode
  /\ applied' = applied \cup {thread[th].command}
  /\ thread' = [thread EXCEPT ![th].pc = "sequencing"]
  /\ UNCHANGED <<now, token, gateVars, last_sequence, records, overlapped>>

SetSequence(th) ==
  /\ thread[th].pc = "sequencing"
  /\ last_sequence' = thread[th].command.sequence
  /\ thread' = [thread EXCEPT ![th] = Idle]
  /\ UNCHANGED <<now, token, gateVars, mode, records, applied, overlapped>>

verify_log == \A i \in 1 .. Len(records) : records[i].previous = i - 1

Tick ==
  /\ now < MaxTime
  /\ now' = now + 1
  /\ UNCHANGED <<token, gateVars, shadowVars, thread>>

-----------------------------------------------------------------------------

Next ==
  \/ \E t \in Tokens, p \in Roots : Issue(t, p)
  \/ \E parent, t \in Tokens, p \in Strays : SignStray(parent, t, p)
  \/ \E parent, t \in Tokens, q \in Requests : attenuate(parent, t, q)
  \/ \E th \in Threads, t \in Tokens, action \in Actions, context \in Contexts :
       VerifyWithChain(th, t, action, context)
  \/ \E th \in Threads, t \in Tokens, plane \in Planes, action \in Actions, resource \in Resources,
          context \in Contexts :
       Decide(th, t, plane, action, resource, context)
  \/ \E th \in Threads, t \in Tokens \cup {None}, action \in Actions, resource \in Resources,
          context \in Contexts :
       Evaluate(th, t, action, resource, context)
  \/ \E th \in Threads : Allow(th) \/ Accept(th) \/ ConsumeToken(th) \/ Judge(th) \/ AppendRecord(th)
  \/ \E th \in Threads, c \in Commands : apply_mode_change(th, c)
  \/ \E th \in Threads : SetMode(th) \/ SetSequence(th)
  \/ Tick

Spec == Init /\ [][Next]_vars

-----------------------------------------------------------------------------
(* Properties *)

ThreadState ==
  [pc: {"idle", "allowing", "accepting", "consuming", "judging", "appending",
        "switching", "sequencing"},
   token: Tokens \cup {None}, action: Actions \cup {None}, verdict: Verdicts, enforced: Verdicts,
   previous: Nat, command: Commands \cup {None}]

\* Type invariant: what the tokens, the nonces, the shadow log and the threads hold.  A
\* token's parent was signed before it, and its window is not empty.
TypeOK ==
  /\ now \in Nat
  /\ token \in [Tokens -> Payload \cup {None}]
  /\ \A t \in Signed : /\ token[t].not_before <= token[t].expires_at
                       /\ token[t].parent \in Signed \cup {None}
  /\ used \in [Gates -> SUBSET Signed]
  /\ mode \in Modes /\ last_sequence \in Nat \cup {-1}
  /\ records \in Seq([previous: Nat, writer: Threads])
  /\ thread \in [Threads -> ThreadState]
  /\ \A th \in Threads :
       /\ thread[th].pc \in {"allowing", "accepting", "consuming"} => thread[th].token \in Signed
       /\ thread[th].pc \in {"consuming", "judging"} => thread[th].action \in Actions
       /\ thread[th].pc \in {"switching", "sequencing"} => thread[th].command \in Commands
  /\ passed \in [Gates -> [Threads -> [Tokens -> Nat]]]
  /\ applied \subseteq Commands /\ overlapped \in BOOLEAN

\* A caveat of single use is left to the nonces and does not read the count of uses.
OnlyOnce(p) == \A c \in p.caveats : Kind[c] = "uses" => Bound[c] = 1

\* The comment on subsumption, "child authority is within parent authority (normative)":
\* at any time and in any context in which a child that passes _check_subsumption
\* authorizes an action, its parent's window is open and its parent's caveats hold;
\* whether attenuate built the child, which always passes, or someone else.  An
\* invocation that leaves out the resource means the child's.  With one exception: the
\* caller's count of uses, which a child whose uses are down to one does not read; such
\* a child may authorize where the count exhausts its parent, but only once at a gate
\* that keeps nonces.
SubsumptionNarrows ==
  \A t \in Signed : token[t].parent # None =>
    LET child == token[t]
        parent == token[token[t].parent] IN
    Subsumes(child, parent) =>
      \A context \in Contexts, when \in 0 .. MaxTime :
        Authorizes(child, context, when) =>
          /\ parent.not_before <= when /\ when <= parent.expires_at
          /\ \A d \in parent.caveats :
               Holds(d, parent, Named(context, child), when) \/ (Kind[d] = "uses" /\ OnlyOnce(child))

\* What the missing locks of decide, of evaluate and of _append_record can cost: a token
\* passes a gate once per thread at the most, and two records of one thread never follow
\* the same record.  With a single thread every token is used once and the log verifies.
RacesAreBounded ==
  /\ \A g \in Gates, th \in Threads, t \in Tokens : passed[g][th][t] <= 1
  /\ \A i, j \in DOMAIN records :
       i # j /\ records[i].writer = records[j].writer => records[i].previous # records[j].previous
  /\ \A th \in Threads : Threads = {th} => verify_log

\* The mode that rules: of the applied change with the highest sequence.
Rules(m) ==
  IF applied = {} THEN m = InitialMode
  ELSE \E c \in applied : c.mode = m /\ \A d \in applied \ {c} : d.sequence < c.sequence

\* evaluate lets an action proceed against its verdict never for an action of
\* never_shadow, and only while the newest mode change that took effect says SHADOW,
\* whatever order the changes arrive in: as long as no two calls of apply_mode_change
\* overlap, which nothing in the code prevents.  When they do, both may find their
\* sequence newer, and the older change may be written last.
SparedOnlyInShadow ==
  [][\A th \in Threads :
       thread[th].pc = "judging" /\ thread'[th].pc = "appending"
         /\ thread'[th].enforced # thread'[th].verdict
       => /\ thread[th].action \notin NeverShadow
          /\ overlapped \/ Rules("SHADOW")]_vars

=============================================================================
