--------------------------- MODULE DecisionsProofs ---------------------------
(* Theorems about Decisions, for any tokens, caveats, threads and commands.  *)
EXTENDS Decisions, SequenceTheorems, TLAPS

-----------------------------------------------------------------------------
(* Types *)

LEMMA ThreadIsRecord ==
  ASSUME TypeOK, NEW th \in Threads
  PROVE  thread[th] \in ThreadState
BY DEF TypeOK

\* Verified tokens are signed.
LEMMA VerifiedIsSigned ==
  ASSUME NEW t, NEW nonces, NEW action, NEW context, NEW chain, verify(t, nonces, action, context, chain)
  PROVE  t \in Signed /\ t \notin nonces
<1>1. t \in Signed
  BY DEF verify
<1>2. t \in Lineage(t)
  BY DEF Lineage
<1> QED BY <1>1, <1>2 DEF verify, Fresh

\* A new token is the only difference between the tokens before and after.
LEMMA SigningKeepsTypes ==
  ASSUME TypeOK, NEW t \in Tokens, token[t] = None, NEW p \in Payload,
         p.not_before <= p.expires_at, p.parent \in Signed \cup {None},
         token' = [token EXCEPT ![t] = p],
         UNCHANGED <<now, gateVars, shadowVars, thread>>
  PROVE  TypeOK'
<1> USE DEF TypeOK, gateVars, shadowVars
<1>1. p # None
  BY DocumentAssumption
<1>2. token' \in [Tokens -> Payload \cup {None}]
  OBVIOUS
<1>3. Signed' = Signed \cup {t}
  BY <1>1 DEF Signed
<1>4. ASSUME NEW u \in Signed'
      PROVE  token'[u].not_before <= token'[u].expires_at /\ token'[u].parent \in Signed' \cup {None}
  <2>1. CASE u = t
    BY <1>3, <2>1
  <2>2. CASE u # t
    BY <1>3, <2>2
  <2> QED BY <2>1, <2>2
<1>5. used' \in [Gates -> SUBSET Signed']
  BY <1>3
<1>6. \A th \in Threads :
        /\ thread'[th].pc \in {"allowing", "accepting", "consuming"} => thread'[th].token \in Signed'
        /\ thread'[th].pc \in {"consuming", "judging"} => thread'[th].action \in Actions
        /\ thread'[th].pc \in {"switching", "sequencing"} => thread'[th].command \in Commands
  BY <1>3
<1> QED BY <1>2, <1>4, <1>5, <1>6

\* What TypeOK says of the threads.
ThreadsOK ==
  /\ thread \in [Threads -> ThreadState]
  /\ \A th \in Threads :
       /\ thread[th].pc \in {"allowing", "accepting", "consuming"} => thread[th].token \in Signed
       /\ thread[th].pc \in {"consuming", "judging"} => thread[th].action \in Actions
       /\ thread[th].pc \in {"switching", "sequencing"} => thread[th].command \in Commands

\* A thread's step keeps the types if the thread's new state is well-formed.
LEMMA ThreadKeepsTypes ==
  ASSUME TypeOK, NEW th \in Threads, NEW r \in ThreadState,
         thread' = [thread EXCEPT ![th] = r],
         r.pc \in {"allowing", "accepting", "consuming"} => r.token \in Signed,
         r.pc \in {"consuming", "judging"} => r.action \in Actions,
         r.pc \in {"switching", "sequencing"} => r.command \in Commands,
         UNCHANGED token
  PROVE  ThreadsOK'
BY DEF TypeOK, Signed, ThreadsOK

LEMMA IdleIsRecord == Idle \in ThreadState
BY DEF Idle, ThreadState, Verdicts

\* Consuming the nonce of a signed token keeps the gates' types.
LEMMA ConsumingKeepsTypes ==
  ASSUME TypeOK, NEW th \in Threads, NEW g \in Gates, NEW t \in Signed, Consumes(th, g, t), UNCHANGED token
  PROVE  used' \in [Gates -> SUBSET Signed'] /\ passed' \in [Gates -> [Threads -> [Tokens -> Nat]]]
<1>1. Signed' = Signed
  BY DEF Signed
<1>2. passed[g][th][t] \in Nat
  BY DEF TypeOK, Signed
<1>3. [passed[g][th] EXCEPT ![t] = @ + 1] \in [Tokens -> Nat]
  BY <1>2 DEF TypeOK, Signed
<1>4. [passed[g] EXCEPT ![th] = [passed[g][th] EXCEPT ![t] = @ + 1]] \in [Threads -> [Tokens -> Nat]]
  BY <1>3 DEF TypeOK
<1>5. passed' = [passed EXCEPT ![g] = [passed[g] EXCEPT ![th] = [passed[g][th] EXCEPT ![t] = @ + 1]]]
  BY <1>2 DEF Consumes, TypeOK
<1> QED BY <1>1, <1>4, <1>5 DEF Consumes, TypeOK

\* What attenuate builds is a token.
LEMMA NarrowedIsPayload ==
  ASSUME TypeOK, NEW parent \in Signed, NEW q \in Requests
  PROVE  Narrowed(parent, q) \in Payload /\ Narrowed(parent, q).parent = parent
<1>1. token[parent] \in Payload
  BY DEF TypeOK, Signed
<1>2. q.resource \in Resources /\ q.caveats \subseteq Caveats /\ q.from \in Nat /\ q.to \in Nat
  BY DocumentAssumption DEF Request
<1>3. parent \in Tokens
  BY DEF Signed
<1> QED BY <1>1, <1>2, <1>3 DEF Narrowed, Payload
LEMMA InitTypes == Init => TypeOK
<1> SUFFICES ASSUME Init PROVE TypeOK
  OBVIOUS
<1> USE DEF Init
<1>1. Signed = {}
  BY DEF Signed
<1>2. thread \in [Threads -> ThreadState] /\ \A th \in Threads : thread[th].pc = "idle"
  BY IdleIsRecord DEF Idle
<1>3. passed \in [Gates -> [Threads -> [Tokens -> Nat]]]
  OBVIOUS
<1>4. records \in Seq([previous: Nat, writer: Threads])
  BY EmptySeq
<1>5. now \in Nat /\ token \in [Tokens -> Payload \cup {None}] /\ used \in [Gates -> SUBSET Signed]
      /\ mode \in Modes /\ last_sequence \in Nat \cup {-1} /\ applied \subseteq Commands
      /\ overlapped \in BOOLEAN
  BY <1>1, GovernorAssumption
<1> QED BY <1>1, <1>2, <1>3, <1>4, <1>5 DEF TypeOK

LEMMA NextTypes == TypeOK /\ [Next]_vars => TypeOK'
<1> SUFFICES ASSUME TypeOK, [Next]_vars PROVE TypeOK'
  OBVIOUS
<1> USE DEF gateVars, shadowVars
<1>1. CASE UNCHANGED vars
  BY <1>1 DEF vars, TypeOK, Signed
<1>2. ASSUME NEW t \in Tokens, NEW p \in Roots, Issue(t, p) PROVE TypeOK'
  <2>1. p \in Payload /\ p.parent = None /\ p.not_before <= p.expires_at
    BY DocumentAssumption
  <2> QED BY <1>2, <2>1, SigningKeepsTypes DEF Issue
<1>3. ASSUME NEW parent \in Tokens, NEW t \in Tokens, NEW p \in Strays, SignStray(parent, t, p) PROVE TypeOK'
  <2>1. p \in Payload /\ p.not_before <= p.expires_at
    BY DocumentAssumption
  <2> DEFINE child == [p EXCEPT !.parent = parent]
  <2>2. child \in Payload /\ child.not_before <= child.expires_at /\ child.parent \in Signed
    BY <1>3, <2>1 DEF SignStray, Payload
  <2>3. token[t] = None /\ token' = [token EXCEPT ![t] = child]
        /\ UNCHANGED <<now, gateVars, shadowVars, thread>>
    BY <1>3 DEF SignStray
  <2> HIDE DEF child
  <2> QED BY <2>2, <2>3, SigningKeepsTypes
<1>4. ASSUME NEW parent \in Tokens, NEW t \in Tokens, NEW q \in Requests, attenuate(parent, t, q) PROVE TypeOK'
  <2> DEFINE child == Narrowed(parent, q)
  <2>1. parent \in Signed /\ token[t] = None /\ HasWindow(child)
        /\ token' = [token EXCEPT ![t] = child] /\ UNCHANGED <<now, gateVars, shadowVars, thread>>
    BY <1>4 DEF attenuate
  <2>2. child \in Payload /\ child.parent = parent
    BY <2>1, NarrowedIsPayload
  <2> HIDE DEF child
  <2> QED BY <2>1, <2>2, SigningKeepsTypes DEF HasWindow
<1>5. ASSUME NEW th \in Threads, NEW t \in Tokens, NEW action \in Actions, NEW context \in Contexts,
             VerifyWithChain(th, t, action, context)
      PROVE TypeOK'
  <2> DEFINE r == [Idle EXCEPT !.pc = "accepting", !.token = t]
  <2>1. t \in Signed /\ thread' = [thread EXCEPT ![th] = r] /\ UNCHANGED <<now, token, gateVars, shadowVars>>
    BY <1>5, VerifiedIsSigned DEF VerifyWithChain
  <2>2. r \in ThreadState /\ r.token = t /\ r.pc = "accepting"
    BY IdleIsRecord DEF Idle, ThreadState
  <2> HIDE DEF r
  <2> QED BY <2>1, <2>2, ThreadKeepsTypes DEF TypeOK, Signed, ThreadsOK
<1>6. ASSUME NEW th \in Threads, NEW t \in Tokens, NEW plane \in Planes, NEW action \in Actions,
             NEW resource \in Resources, NEW context \in Contexts,
             Decide(th, t, plane, action, resource, context)
      PROVE TypeOK'
  <2> DEFINE r == [Idle EXCEPT !.pc = "allowing", !.token = t]
  <2>1. t \in Signed /\ thread' = [thread EXCEPT ![th] = r] /\ UNCHANGED <<now, token, gateVars, shadowVars>>
    BY <1>6 DEF Decide
  <2>2. r \in ThreadState /\ r.token = t /\ r.pc = "allowing"
    BY IdleIsRecord DEF Idle, ThreadState
  <2> HIDE DEF r
  <2> QED BY <2>1, <2>2, ThreadKeepsTypes DEF TypeOK, Signed, ThreadsOK
<1>7. ASSUME NEW th \in Threads, NEW t \in Tokens \cup {None}, NEW action \in Actions,
             NEW resource \in Resources, NEW context \in Contexts,
             Evaluate(th, t, action, resource, context)
      PROVE TypeOK'
  <2>1. PICK pc \in {"consuming", "judging"}, u \in Tokens \cup {None}, v \in Verdicts :
          /\ pc = "consuming" => u \in Signed
          /\ thread' = [thread EXCEPT ![th] =
               [Idle EXCEPT !.pc = pc, !.token = u, !.action = action, !.verdict = v]]
          /\ UNCHANGED <<now, token, gateVars, shadowVars>>
    <3>1. Combine(Governance[action], "ALLOW") \in Verdicts
      BY GovernorAssumption DEF Combine, Verdicts
    <3>2. "DENY" \in Verdicts
      BY DEF Verdicts
    <3> QED BY <1>7, <3>1, <3>2 DEF Evaluate, Signed
  <2> DEFINE r == [Idle EXCEPT !.pc = pc, !.token = u, !.action = action, !.verdict = v]
  <2>2. r \in ThreadState /\ r.token = u /\ r.pc = pc /\ r.action = action
    BY IdleIsRecord DEF Idle, ThreadState
  <2>3. thread' = [thread EXCEPT ![th] = r]
    BY <2>1
  <2> HIDE DEF r
  <2>4. ThreadsOK'
    BY <2>1, <2>2, <2>3, ThreadKeepsTypes
  <2> QED BY <2>1, <2>4 DEF TypeOK, Signed, ThreadsOK
<1>8. ASSUME NEW th \in Threads, Allow(th) PROVE TypeOK'
  <2>1. thread[th].token \in Signed /\ Consumes(th, "planes", thread[th].token) /\ "planes" \in Gates
    BY <1>8 DEF Allow, TypeOK, Gates
  <2>2. thread' = [thread EXCEPT ![th] = Idle] /\ UNCHANGED <<now, token, shadowVars>>
    BY <1>8 DEF Allow
  <2>3. used' \in [Gates -> SUBSET Signed'] /\ passed' \in [Gates -> [Threads -> [Tokens -> Nat]]]
    BY <2>1, <2>2, ConsumingKeepsTypes
  <2>4. ThreadsOK'
    BY <2>2, IdleIsRecord, ThreadKeepsTypes DEF Idle
  <2> QED BY <2>2, <2>3, <2>4 DEF TypeOK, Signed, ThreadsOK
<1>9. ASSUME NEW th \in Threads, Accept(th) PROVE TypeOK'
  <2>1. thread[th].token \in Signed /\ Consumes(th, "party", thread[th].token) /\ "party" \in Gates
    BY <1>9 DEF Accept, TypeOK, Gates
  <2>2. thread' = [thread EXCEPT ![th] = Idle] /\ UNCHANGED <<now, token, shadowVars>>
    BY <1>9 DEF Accept
  <2>3. used' \in [Gates -> SUBSET Signed'] /\ passed' \in [Gates -> [Threads -> [Tokens -> Nat]]]
    BY <2>1, <2>2, ConsumingKeepsTypes
  <2>4. ThreadsOK'
    BY <2>2, IdleIsRecord, ThreadKeepsTypes DEF Idle
  <2> QED BY <2>2, <2>3, <2>4 DEF TypeOK, Signed, ThreadsOK
<1>10. ASSUME NEW th \in Threads, ConsumeToken(th) PROVE TypeOK'
  <2>1. thread[th].token \in Signed /\ Consumes(th, "shadow", thread[th].token) /\ "shadow" \in Gates
    BY <1>10 DEF ConsumeToken, TypeOK, Gates
  <2> DEFINE r == [thread[th] EXCEPT !.pc = "judging", !.token = None]
  <2>2. thread[th] \in ThreadState
    BY ThreadIsRecord
  <2>3. r \in ThreadState /\ r.pc = "judging" /\ r.action = thread[th].action
    BY <2>2 DEF ThreadState
  <2>4. thread' = [thread EXCEPT ![th] = r] /\ UNCHANGED <<now, token, shadowVars>>
    BY <1>10, <2>2 DEF ConsumeToken, TypeOK, ThreadState
  <2> HIDE DEF r
  <2>5. used' \in [Gates -> SUBSET Signed'] /\ passed' \in [Gates -> [Threads -> [Tokens -> Nat]]]
    BY <2>1, <2>4, ConsumingKeepsTypes
  <2>6. r.action \in Actions
    BY <2>3, <1>10 DEF ConsumeToken, TypeOK
  <2>7. ThreadsOK'
    BY <2>3, <2>4, <2>6, ThreadKeepsTypes
  <2> QED BY <2>4, <2>5, <2>7 DEF TypeOK, Signed, ThreadsOK
<1>11. ASSUME NEW th \in Threads, Judge(th) PROVE TypeOK'
  <2> DEFINE e == Enforced(thread[th].action, thread[th].verdict)
             r == [thread[th] EXCEPT !.pc = "appending", !.previous = Len(records), !.enforced = e]
  <2>1. thread[th] \in ThreadState
    BY ThreadIsRecord
  <2>2. e \in Verdicts
    BY <2>1 DEF Enforced, ThreadState, Verdicts
  <2>3. thread' = [thread EXCEPT ![th] = r] /\ UNCHANGED <<now, token, gateVars, shadowVars>>
    BY <1>11, <2>1 DEF Judge, TypeOK, ThreadState
  <2>4. Len(records) \in Nat
    BY DEF TypeOK
  <2> HIDE DEF e
  <2>5. r \in ThreadState /\ r.pc = "appending"
    BY <2>1, <2>2, <2>4 DEF ThreadState
  <2> HIDE DEF r
  <2>6. ThreadsOK'
    BY <2>3, <2>5, ThreadKeepsTypes
  <2> QED BY <2>3, <2>6 DEF TypeOK, Signed, ThreadsOK
<1>12. ASSUME NEW th \in Threads, AppendRecord(th) PROVE TypeOK'
  <2> DEFINE r == [previous |-> thread[th].previous, writer |-> th]
  <2>1. records' = Append(records, r) /\ thread' = [thread EXCEPT ![th] = Idle]
        /\ UNCHANGED <<now, token, gateVars, mode, last_sequence, applied, overlapped>>
    BY <1>12 DEF AppendRecord
  <2>2. r \in [previous: Nat, writer: Threads]
    BY ThreadIsRecord DEF ThreadState
  <2> HIDE DEF r
  <2>3. records' \in Seq([previous: Nat, writer: Threads])
    BY <2>1, <2>2 DEF TypeOK
  <2>4. ThreadsOK'
    BY <2>1, IdleIsRecord, ThreadKeepsTypes DEF Idle
  <2> QED BY <2>1, <2>3, <2>4 DEF TypeOK, Signed, ThreadsOK
<1>13. ASSUME NEW th \in Threads, NEW c \in Commands, apply_mode_change(th, c) PROVE TypeOK'
  <2> DEFINE r == [Idle EXCEPT !.pc = "switching", !.command = c]
  <2>1. /\ thread' = [thread EXCEPT ![th] = r] /\ overlapped' = (overlapped \/ Switching)
        /\ UNCHANGED <<now, token, gateVars, mode, last_sequence, records, applied>>
    BY <1>13 DEF apply_mode_change
  <2>2. r \in ThreadState /\ r.pc = "switching" /\ r.command = c
    BY IdleIsRecord DEF Idle, ThreadState
  <2> HIDE DEF r
  <2>3. ThreadsOK'
    BY <2>1, <2>2, ThreadKeepsTypes
  <2>4. overlapped' \in BOOLEAN
    BY <2>1 DEF Switching
  <2> QED BY <2>1, <2>3, <2>4 DEF TypeOK, Signed, ThreadsOK
<1>15. ASSUME NEW th \in Threads, SetMode(th) PROVE TypeOK'
  <2> DEFINE r == [thread[th] EXCEPT !.pc = "sequencing"]
             c == thread[th].command
  <2>1. /\ thread' = [thread EXCEPT ![th] = r] /\ mode' = c.mode /\ applied' = applied \cup {c}
        /\ UNCHANGED <<now, token, gateVars, last_sequence, records, overlapped>>
    BY <1>15, ThreadIsRecord DEF SetMode, TypeOK, ThreadState
  <2>2. c \in Commands /\ c.mode \in Modes
    BY <1>15, DocumentAssumption DEF SetMode, TypeOK, Command
  <2>3. r \in ThreadState /\ r.pc = "sequencing" /\ r.command = c
    BY ThreadIsRecord DEF ThreadState
  <2> HIDE DEF r, c
  <2>4. ThreadsOK'
    BY <2>1, <2>2, <2>3, ThreadKeepsTypes
  <2> QED BY <2>1, <2>2, <2>4 DEF TypeOK, Signed, ThreadsOK
<1>16. ASSUME NEW th \in Threads, SetSequence(th) PROVE TypeOK'
  <2>1. /\ thread' = [thread EXCEPT ![th] = Idle] /\ last_sequence' = thread[th].command.sequence
        /\ UNCHANGED <<now, token, gateVars, mode, records, applied, overlapped>>
    BY <1>16 DEF SetSequence
  <2>2. thread[th].command.sequence \in Nat
    BY <1>16, DocumentAssumption DEF SetSequence, TypeOK, Command
  <2>3. ThreadsOK'
    BY <2>1, IdleIsRecord, ThreadKeepsTypes DEF Idle
  <2> QED BY <2>1, <2>2, <2>3 DEF TypeOK, Signed, ThreadsOK
<1>14. CASE Tick
  BY <1>14 DEF Tick, TypeOK, Signed
<1> QED BY <1>1, <1>2, <1>3, <1>4, <1>5, <1>6, <1>7, <1>8, <1>9, <1>10, <1>11, <1>12, <1>13, <1>14,
       <1>15, <1>16 DEF Next

\* Every variable stays in its range; a token's parent is signed before it and its window
\* is not empty, whatever is issued, attenuated or signed by hand.
THEOREM TypeCorrect == Spec => []TypeOK
<1>1. Init => TypeOK
  BY InitTypes
<1>2. TypeOK /\ [Next]_vars => TypeOK'
  BY NextTypes
<1> QED BY <1>1, <1>2, PTL DEF Spec

-----------------------------------------------------------------------------
(* Subsumption *)

\* An invocation spelled out for a child's parent: on the child's resource.
LEMMA SpelledOut ==
  ASSUME NEW child \in Payload, NEW context \in Contexts
  PROVE  LET inv == Named(context, child) IN
         /\ inv.resource \in Resources /\ inv.resource # None
         /\ inv.host = context.host /\ inv.url = context.url /\ inv.uses = context.uses
         /\ inv.spend = context.spend /\ inv.currency = context.currency
<1>1. context \in Context /\ child.resource \in Resources /\ None \notin Resources
  BY DocumentAssumption DEF Payload
<1> QED BY <1>1 DEF Named, Context

\* What holds for a caveat holds for a looser one of its kind, the count of uses excepted
\* where the tighter one is of single use.
LEMMA TighterHolds ==
  ASSUME NEW child \in Payload, NEW parent \in Payload, NEW context \in Contexts, NEW when \in Nat,
         NEW c \in child.caveats, NEW d \in parent.caveats, Kind[c] = Kind[d], Tighter(c, d),
         Holds(c, child, context, when)
  PROVE  Holds(d, parent, Named(context, child), when) \/ (Kind[d] = "uses" /\ Bound[c] = 1)
<1> DEFINE inv == Named(context, child)
<1>1. /\ inv.resource \in Resources /\ inv.resource # None
      /\ inv.host = context.host /\ inv.url = context.url /\ inv.uses = context.uses
      /\ inv.spend = context.spend /\ inv.currency = context.currency
  BY SpelledOut
<1>2. Named(inv, parent) = inv
  BY <1>1 DEF Named
<1>3. c \in Caveats /\ d \in Caveats /\ context \in Context
  BY DocumentAssumption DEF Payload
<1>4. Kind[c] \in Kinds
  BY <1>3, DocumentAssumption
<1>5. CASE Kind[c] = "expiry"
  <2>1. when <= Bound[c] /\ Bound[c] <= Bound[d]
    BY <1>5 DEF Holds, Tighter
  <2>2. Bound[c] \in Nat /\ Bound[d] \in Nat
    BY <1>3, <1>5, DocumentAssumption
  <2>3. when <= Bound[d]
    BY <2>1, <2>2
  <2> QED BY <1>5, <2>3 DEF Holds
<1>6. CASE Kind[c] = "uses"
  <2>1. Bound[c] \in Nat \ {0} /\ Bound[d] \in Nat \ {0} /\ context.uses \in Nat
    BY <1>3, <1>6, DocumentAssumption DEF Context
  <2>2. (Bound[c] = 1 \/ context.uses < Bound[c]) /\ Bound[c] <= Bound[d]
    BY <1>6 DEF Holds, Tighter
  <2> HIDE DEF inv
  <2>3. Bound[c] = 1 \/ inv.uses < Bound[d]
    BY <1>1, <2>1, <2>2
  <2> QED BY <1>6, <2>3 DEF Holds, inv
<1>7. CASE Kind[c] = "spend_limit"
  <2>1. /\ context.spend # None /\ context.spend <= Bound[c].amount
        /\ Bound[c].amount <= Bound[d].amount
        /\ Bound[c].currency \in {None, context.currency}
        /\ Bound[d].currency \in {None, Bound[c].currency}
    BY <1>7 DEF Holds, Tighter
  <2>2. context.spend \in Nat /\ Bound[c].amount \in Nat /\ Bound[d].amount \in Nat
    BY <1>3, <1>7, <2>1, DocumentAssumption DEF Context, Limit
  <2> HIDE DEF inv
  <2>3. inv.spend # None /\ inv.spend <= Bound[d].amount
    BY <1>1, <2>1, <2>2
  <2>4. Bound[d].currency \in {None, inv.currency}
    BY <1>1, <2>1
  <2> QED BY <1>7, <2>3, <2>4 DEF Holds, inv
<1>8. CASE Kind[c] = "resource_prefix"
  <2>1. <<inv.resource, Bound[c]>> \in Below /\ <<Bound[c], Bound[d]>> \in Below
    BY <1>8 DEF Holds, Tighter
  <2>2. Bound[c] \in Resources /\ Bound[d] \in Resources
    BY <1>3, <1>8, DocumentAssumption
  <2> HIDE DEF inv
  <2>3. <<Named(inv, parent).resource, Bound[d]>> \in Below
    BY <1>1, <1>2, <2>1, <2>2, BelowAssumption
  <2> QED BY <1>8, <2>3 DEF Holds, inv
<1>9. CASE Kind[c] = "http_allowlist"
  <2>1. /\ Bound[c].hosts # None => context.host \in Bound[c].hosts
        /\ Bound[c].urls # None => \E u \in Bound[c].urls : <<u, context.url>> \in UrlOk
        /\ NoWider(Bound[c].hosts, Bound[d].hosts) /\ NoWider(Bound[c].urls, Bound[d].urls)
    BY <1>9 DEF Holds, Tighter
  <2> HIDE DEF inv
  <2>2. Bound[d].hosts # None => inv.host \in Bound[d].hosts
    BY <1>1, <2>1 DEF NoWider
  <2>3. Bound[d].urls # None => \E u \in Bound[d].urls : <<u, inv.url>> \in UrlOk
    BY <1>1, <2>1 DEF NoWider
  <2> QED BY <1>9, <2>2, <2>3 DEF Holds, inv
<1> QED BY <1>4, <1>5, <1>6, <1>7, <1>8, <1>9 DEF Kinds

\* Where a child that passes _check_subsumption authorizes, its parent's window is open and
\* its caveats hold.
LEMMA SubsumedAuthorizesLess ==
  ASSUME NEW child \in Payload, NEW parent \in Payload, Subsumes(child, parent),
         NEW context \in Contexts, NEW when \in Nat, Authorizes(child, context, when)
  PROVE  /\ parent.not_before <= when /\ when <= parent.expires_at
         /\ \A d \in parent.caveats :
              Holds(d, parent, Named(context, child), when) \/ (Kind[d] = "uses" /\ OnlyOnce(child))
<1>1. parent.not_before <= when /\ when <= parent.expires_at
  <2>1. /\ child.not_before \in Nat /\ child.expires_at \in Nat
        /\ parent.not_before \in Nat /\ parent.expires_at \in Nat
    BY DEF Payload
  <2> QED BY <2>1 DEF Subsumes, Authorizes
<1>2. ASSUME NEW d \in parent.caveats, ~ Holds(d, parent, Named(context, child), when)
      PROVE Kind[d] = "uses" /\ OnlyOnce(child)
  <2>1. /\ \E c \in child.caveats : Kind[c] = Kind[d]
        /\ \A c \in child.caveats : Kind[c] = Kind[d] => Tighter(c, d) /\ Holds(c, child, context, when)
    BY DEF Subsumes, Matched, Authorizes
  <2>2. \A c \in child.caveats : Kind[c] = Kind[d] => Kind[d] = "uses" /\ Bound[c] = 1
    BY <1>2, <2>1, TighterHolds
  <2> QED BY <2>1, <2>2 DEF OnlyOnce
<1> QED BY <1>1, <1>2

\* _check_subsumption is sound for any caveats, hosts, URLs and currencies: where the child
\* authorizes, the parent's window and caveats hold, but for a count the child does not read.
THEOREM SubsumptionHolds == Spec => []SubsumptionNarrows
<1>1. TypeOK => SubsumptionNarrows
  <2> SUFFICES ASSUME TypeOK, NEW t \in Signed, token[t].parent # None,
                      Subsumes(token[t], token[token[t].parent]),
                      NEW context \in Contexts, NEW when \in 0 .. MaxTime,
                      Authorizes(token[t], context, when)
               PROVE  /\ token[token[t].parent].not_before <= when
                      /\ when <= token[token[t].parent].expires_at
                      /\ \A d \in token[token[t].parent].caveats :
                           \/ Holds(d, token[token[t].parent], Named(context, token[t]), when)
                           \/ Kind[d] = "uses" /\ OnlyOnce(token[t])
    BY DEF SubsumptionNarrows
  <2>1. token[t] \in Payload /\ token[t].parent \in Signed
    BY DEF TypeOK, Signed
  <2>2. token[token[t].parent] \in Payload
    BY <2>1 DEF TypeOK, Signed
  <2>3. when \in Nat
    OBVIOUS
  <2> QED BY <2>1, <2>2, <2>3, SubsumedAuthorizesLess
<1> QED BY <1>1, TypeCorrect, PTL

-----------------------------------------------------------------------------
(* What the missing locks can cost *)

\* A step of apply_mode_change: it touches neither tokens, nonces nor records.
LEMMA SwitchingSteps ==
  ASSUME TypeOK, NEW th \in Threads,
         (\E c \in Commands : apply_mode_change(th, c)) \/ SetMode(th) \/ SetSequence(th)
  PROVE  /\ UNCHANGED <<gateVars, records>>
         /\ thread[th].pc \in {"idle", "switching", "sequencing"}
         /\ \E r : thread' = [thread EXCEPT ![th] = r] /\ r.pc \in {"idle", "switching", "sequencing"}
<1>1. ASSUME NEW c \in Commands, apply_mode_change(th, c)
      PROVE \E r : thread' = [thread EXCEPT ![th] = r] /\ r.pc \in {"idle", "switching", "sequencing"}
  <2> DEFINE r == [Idle EXCEPT !.pc = "switching", !.command = c]
  <2>1. thread' = [thread EXCEPT ![th] = r] /\ r.pc = "switching"
    BY <1>1 DEF apply_mode_change, Idle
  <2> HIDE DEF r
  <2> QED BY <2>1
<1>2. ASSUME SetMode(th)
      PROVE \E r : thread' = [thread EXCEPT ![th] = r] /\ r.pc \in {"idle", "switching", "sequencing"}
  <2> DEFINE r == [thread[th] EXCEPT !.pc = "sequencing"]
  <2>1. thread' = [thread EXCEPT ![th] = r] /\ r.pc = "sequencing"
    BY <1>2, ThreadIsRecord DEF SetMode, TypeOK, ThreadState
  <2> HIDE DEF r
  <2> QED BY <2>1
<1>3. ASSUME SetSequence(th)
      PROVE \E r : thread' = [thread EXCEPT ![th] = r] /\ r.pc \in {"idle", "switching", "sequencing"}
  <2>1. thread' = [thread EXCEPT ![th] = Idle] /\ Idle.pc = "idle"
    BY <1>3 DEF SetSequence, Idle
  <2> QED BY <2>1
<1>4. UNCHANGED <<gateVars, records>> /\ thread[th].pc \in {"idle", "switching", "sequencing"}
  BY DEF apply_mode_change, SetMode, SetSequence
<1> QED BY <1>1, <1>2, <1>3, <1>4

\* What Evaluate leaves a thread with: a verdict, or a token that is fresh at the gate.
LEMMA EvaluateSets ==
  ASSUME NEW th \in Threads, NEW t, NEW action, NEW resource, NEW context,
         Evaluate(th, t, action, resource, context)
  PROVE  \E r : /\ thread' = [thread EXCEPT ![th] = r]
                /\ r.pc = "judging" \/ (r.pc = "consuming" /\ r.token = t
                                        /\ t \in Signed /\ t \notin used["shadow"])
<1> DEFINE binds == t \in Signed /\ <<token[t].action, token[t].resource>> = <<action, resource>>
                      /\ verify(t, used["shadow"], action, context, {})
           v == IF t = None \/ binds THEN Combine(Governance[action], "ALLOW") ELSE "DENY"
           r == [Idle EXCEPT !.pc = IF binds THEN "consuming" ELSE "judging",
                             !.token = IF binds THEN t ELSE None, !.action = action, !.verdict = v]
<1>1. thread' = [thread EXCEPT ![th] = r]
  BY DEF Evaluate
<1>2. binds => t \in Signed /\ t \notin used["shadow"]
  BY VerifiedIsSigned
<1> HIDE DEF binds, v
<1>3. r.pc = IF binds THEN "consuming" ELSE "judging"
  BY DEF Idle
<1>4. r.token = IF binds THEN t ELSE None
  BY DEF Idle
<1> HIDE DEF r
<1> QED BY <1>1, <1>2, <1>3, <1>4

\* The gate at which a thread is about to consume a token's nonce.
GateOf == [pc \in {"allowing", "accepting", "consuming"} |->
             IF pc = "allowing" THEN "planes" ELSE IF pc = "accepting" THEN "party" ELSE "shadow"]

\* A thread that passed a token sees its nonce: it is not about to consume one of those.
NonceInv ==
  /\ \A g \in Gates, th \in Threads, t \in Tokens :
       passed[g][th][t] <= 1 /\ (passed[g][th][t] # 0 => t \in used[g])
  /\ \A th \in Threads : thread[th].pc \in {"allowing", "accepting", "consuming"} =>
       passed[GateOf[thread[th].pc]][th][thread[th].token] = 0

\* A record follows an earlier one, and its writer's earlier records are not after that one.
RecordInv ==
  /\ \A i \in 1 .. Len(records) :
       /\ records[i].previous < i
       /\ \A j \in 1 .. i - 1 : records[j].writer = records[i].writer => j <= records[i].previous
  /\ \A th \in Threads : thread[th].pc = "appending" =>
       /\ thread[th].previous <= Len(records)
       /\ \A j \in 1 .. Len(records) : records[j].writer = th => j <= thread[th].previous

\* Consuming a nonce at a gate that never let the thread pass with the token.
LEMMA ConsumingKeepsNonces ==
  ASSUME TypeOK, NonceInv, NEW th \in Threads, NEW g \in Gates, NEW t \in Tokens, passed[g][th][t] = 0,
         Consumes(th, g, t), NEW r, thread' = [thread EXCEPT ![th] = r],
         r.pc \notin {"allowing", "accepting", "consuming"}
  PROVE  NonceInv'
<1>1. \A h \in Gates, x \in Threads, u \in Tokens :
        passed'[h][x][u] = IF h = g /\ x = th /\ u = t THEN 1 ELSE passed[h][x][u]
  BY DEF Consumes, TypeOK
<1>2. used' = [used EXCEPT ![g] = used[g] \cup {t}] /\ used \in [Gates -> SUBSET Signed]
  BY DEF Consumes, TypeOK
<1>3. \A h \in Gates, x \in Threads, u \in Tokens :
        passed'[h][x][u] <= 1 /\ (passed'[h][x][u] # 0 => u \in used'[h])
  BY <1>1, <1>2 DEF NonceInv
<1>4. ASSUME NEW x \in Threads, thread'[x].pc \in {"allowing", "accepting", "consuming"}
      PROVE passed'[GateOf[thread'[x].pc]][x][thread'[x].token] = 0
  <2>1. x # th /\ thread'[x] = thread[x]
    BY <1>4 DEF TypeOK
  <2>2. GateOf[thread[x].pc] \in Gates /\ thread[x].token \in Tokens
    BY <1>4, <2>1 DEF GateOf, Gates, TypeOK, Signed
  <2>3. passed[GateOf[thread[x].pc]][x][thread[x].token] = 0
    BY <1>4, <2>1 DEF NonceInv
  <2> QED BY <1>1, <2>1, <2>2, <2>3
<1> QED BY <1>3, <1>4 DEF NonceInv

\* A step of a thread that consumes nothing.
LEMMA ReadingKeepsNonces ==
  ASSUME TypeOK, NonceInv, NEW th \in Threads, NEW r, thread' = [thread EXCEPT ![th] = r],
         UNCHANGED gateVars,
         r.pc \in {"allowing", "accepting", "consuming"} =>
           r.token \in Tokens /\ r.token \notin used[GateOf[r.pc]]
  PROVE  NonceInv'
<1>1. ASSUME NEW x \in Threads, thread'[x].pc \in {"allowing", "accepting", "consuming"}
      PROVE passed'[GateOf[thread'[x].pc]][x][thread'[x].token] = 0
  <2>1. CASE x = th
    <3>1. thread'[x] = r
      BY <2>1 DEF TypeOK
    <3>2. GateOf[r.pc] \in Gates /\ r.token \in Tokens /\ r.token \notin used[GateOf[r.pc]]
      BY <1>1, <3>1 DEF GateOf, Gates
    <3> QED BY <2>1, <3>1, <3>2 DEF NonceInv, gateVars
  <2>2. CASE x # th
    <3>1. thread'[x] = thread[x]
      BY <2>2 DEF TypeOK
    <3> QED BY <1>1, <3>1 DEF NonceInv, gateVars
  <2> QED BY <2>1, <2>2
<1> QED BY <1>1 DEF NonceInv, gateVars

LEMMA InitNonces == Init => NonceInv
BY DEF Init, NonceInv, Idle, Gates

LEMMA NextNonces == TypeOK /\ NonceInv /\ [Next]_vars => NonceInv'
<1> SUFFICES ASSUME TypeOK, NonceInv, [Next]_vars PROVE NonceInv'
  OBVIOUS
<1>1. CASE UNCHANGED <<gateVars, thread>>
  BY <1>1 DEF NonceInv, gateVars
<1>2. ASSUME NEW th \in Threads, NEW t \in Tokens, NEW action \in Actions, NEW context \in Contexts,
             VerifyWithChain(th, t, action, context)
      PROVE NonceInv'
  <2> DEFINE r == [Idle EXCEPT !.pc = "accepting", !.token = t]
  <2>1. t \notin used["party"] /\ thread' = [thread EXCEPT ![th] = r] /\ UNCHANGED gateVars
    BY <1>2, VerifiedIsSigned DEF VerifyWithChain
  <2>2. r.pc = "accepting" /\ r.token = t /\ GateOf["accepting"] = "party"
    BY DEF Idle, GateOf
  <2> HIDE DEF r
  <2> QED BY <2>1, <2>2, ReadingKeepsNonces
<1>3. ASSUME NEW th \in Threads, NEW t \in Tokens, NEW plane \in Planes, NEW action \in Actions,
             NEW resource \in Resources, NEW context \in Contexts,
             Decide(th, t, plane, action, resource, context)
      PROVE NonceInv'
  <2> DEFINE r == [Idle EXCEPT !.pc = "allowing", !.token = t]
  <2>1. t \notin used["planes"] /\ thread' = [thread EXCEPT ![th] = r] /\ UNCHANGED gateVars
    BY <1>3, VerifiedIsSigned DEF Decide
  <2>2. r.pc = "allowing" /\ r.token = t /\ GateOf["allowing"] = "planes"
    BY DEF Idle, GateOf
  <2> HIDE DEF r
  <2> QED BY <2>1, <2>2, ReadingKeepsNonces
<1>4. ASSUME NEW th \in Threads, NEW t \in Tokens \cup {None}, NEW action \in Actions,
             NEW resource \in Resources, NEW context \in Contexts,
             Evaluate(th, t, action, resource, context)
      PROVE NonceInv'
  <2>1. UNCHANGED gateVars
    BY <1>4 DEF Evaluate
  <2>2. PICK r : /\ thread' = [thread EXCEPT ![th] = r]
                 /\ r.pc = "judging" \/ (r.pc = "consuming" /\ r.token = t
                                         /\ t \in Signed /\ t \notin used["shadow"])
    BY <1>4, EvaluateSets
  <2>3. GateOf["consuming"] = "shadow"
    BY DEF GateOf
  <2> QED BY <2>1, <2>2, <2>3, ReadingKeepsNonces DEF Signed
<1>5. ASSUME NEW th \in Threads, Allow(th) PROVE NonceInv'
  <2>1. thread[th].token \in Tokens /\ passed["planes"][th][thread[th].token] = 0
    BY <1>5 DEF Allow, TypeOK, Signed, NonceInv, GateOf
  <2>2. "planes" \in Gates /\ Idle.pc = "idle"
    BY DEF Gates, Idle
  <2> QED BY <1>5, <2>1, <2>2, ConsumingKeepsNonces DEF Allow
<1>6. ASSUME NEW th \in Threads, Accept(th) PROVE NonceInv'
  <2>1. thread[th].token \in Tokens /\ passed["party"][th][thread[th].token] = 0
    BY <1>6 DEF Accept, TypeOK, Signed, NonceInv, GateOf
  <2>2. "party" \in Gates /\ Idle.pc = "idle"
    BY DEF Gates, Idle
  <2> QED BY <1>6, <2>1, <2>2, ConsumingKeepsNonces DEF Accept
<1>7. ASSUME NEW th \in Threads, ConsumeToken(th) PROVE NonceInv'
  <2>1. thread[th].token \in Tokens /\ passed["shadow"][th][thread[th].token] = 0
    BY <1>7 DEF ConsumeToken, TypeOK, Signed, NonceInv, GateOf
  <2> DEFINE r == [thread[th] EXCEPT !.pc = "judging", !.token = None]
  <2>2. r.pc = "judging" /\ thread' = [thread EXCEPT ![th] = r] /\ "shadow" \in Gates
    BY <1>7, ThreadIsRecord DEF ConsumeToken, TypeOK, ThreadState, Gates
  <2> HIDE DEF r
  <2> QED BY <1>7, <2>1, <2>2, ConsumingKeepsNonces DEF ConsumeToken
<1>8. ASSUME NEW th \in Threads, Judge(th) PROVE NonceInv'
  <2> DEFINE r == [thread[th] EXCEPT !.pc = "appending", !.previous = Len(records),
                                     !.enforced = Enforced(thread[th].action, thread[th].verdict)]
  <2>1. r.pc = "appending" /\ thread' = [thread EXCEPT ![th] = r] /\ UNCHANGED gateVars
    BY <1>8, ThreadIsRecord DEF Judge, TypeOK, ThreadState
  <2> HIDE DEF r
  <2> QED BY <2>1, ReadingKeepsNonces
<1>9. ASSUME NEW th \in Threads, AppendRecord(th) PROVE NonceInv'
  <2>1. Idle.pc = "idle" /\ thread' = [thread EXCEPT ![th] = Idle] /\ UNCHANGED gateVars
    BY <1>9 DEF Idle, AppendRecord
  <2> QED BY <2>1, ReadingKeepsNonces
<1>10. CASE UNCHANGED vars
  BY <1>1, <1>10 DEF vars, gateVars
<1>11. ASSUME NEW t \in Tokens, NEW p \in Roots, Issue(t, p) PROVE NonceInv'
  BY <1>1, <1>11 DEF Issue
<1>12. ASSUME NEW parent \in Tokens, NEW t \in Tokens, NEW p \in Strays, SignStray(parent, t, p) PROVE NonceInv'
  BY <1>1, <1>12 DEF SignStray
<1>13. ASSUME NEW parent \in Tokens, NEW t \in Tokens, NEW q \in Requests, attenuate(parent, t, q) PROVE NonceInv'
  BY <1>1, <1>13 DEF attenuate
<1>14. ASSUME NEW th \in Threads,
              (\E c \in Commands : apply_mode_change(th, c)) \/ SetMode(th) \/ SetSequence(th)
       PROVE NonceInv'
  <2>1. PICK r : thread' = [thread EXCEPT ![th] = r] /\ r.pc \in {"idle", "switching", "sequencing"}
    BY <1>14, SwitchingSteps
  <2>2. UNCHANGED gateVars
    BY <1>14, SwitchingSteps
  <2> QED BY <2>1, <2>2, ReadingKeepsNonces
<1>15. CASE Tick
  BY <1>1, <1>15 DEF Tick
<1> QED BY <1>2, <1>3, <1>4, <1>5, <1>6, <1>7, <1>8, <1>9, <1>10, <1>11, <1>12, <1>13, <1>14, <1>15
        DEF Next

LEMMA RecordsAreRecords ==
  ASSUME TypeOK
  PROVE  /\ Len(records) \in Nat /\ DOMAIN records = 1 .. Len(records)
         /\ \A i \in 1 .. Len(records) : records[i].previous \in Nat /\ records[i].writer \in Threads
         /\ \A th \in Threads : thread[th].previous \in Nat
<1> DEFINE R == [previous: Nat, writer: Threads]
<1>1. records \in Seq(R)
  BY DEF TypeOK
<1>2. \A th \in Threads : thread[th].previous \in Nat
  BY ThreadIsRecord DEF ThreadState
<1>3. Len(records) \in Nat /\ DOMAIN records = 1 .. Len(records)
  BY <1>1
<1>4. \A i \in 1 .. Len(records) : records[i] \in R
  <2> HIDE DEF R
  <2> QED BY <1>1, ElementOfSeq
<1>5. \A i \in 1 .. Len(records) : records[i].previous \in Nat /\ records[i].writer \in Threads
  BY <1>4
<1> QED BY <1>2, <1>3, <1>5

\* A step after which no other thread is appending than before.
LEMMA IdlingKeepsRecords ==
  ASSUME TypeOK, RecordInv, UNCHANGED records,
         \A x \in Threads : thread'[x].pc = "appending" =>
           thread[x].pc = "appending" /\ thread'[x].previous = thread[x].previous
  PROVE  RecordInv'
<1>1. Len(records') = Len(records)
  OBVIOUS
<1>2. \A x \in Threads : thread'[x].pc = "appending" =>
        /\ thread'[x].previous <= Len(records')
        /\ \A j \in 1 .. Len(records') : records'[j].writer = x => j <= thread'[x].previous
  BY DEF RecordInv
<1> QED BY <1>2 DEF RecordInv

LEMMA InitRecords == Init => RecordInv
BY DEF Init, RecordInv, Idle

LEMMA NextRecords == TypeOK /\ RecordInv /\ [Next]_vars => RecordInv'
<1> SUFFICES ASSUME TypeOK, RecordInv, [Next]_vars PROVE RecordInv'
  OBVIOUS
<1>1. CASE UNCHANGED <<records, thread>>
  BY <1>1, IdlingKeepsRecords
<1>2. ASSUME NEW th \in Threads, NEW r, thread' = [thread EXCEPT ![th] = r], r.pc # "appending", UNCHANGED records
      PROVE RecordInv'
  <2>1. \A x \in Threads : thread'[x] = IF x = th THEN r ELSE thread[x]
    BY <1>2 DEF TypeOK
  <2> QED BY <1>2, <2>1, IdlingKeepsRecords
<1>3. ASSUME NEW th \in Threads, Judge(th) PROVE RecordInv'
  <2>1. /\ thread'[th].pc = "appending" /\ thread'[th].previous = Len(records)
        /\ \A x \in Threads \ {th} : thread'[x] = thread[x]
    BY <1>3, ThreadIsRecord DEF Judge, TypeOK, ThreadState
  <2>2. UNCHANGED records
    BY <1>3 DEF Judge, shadowVars
  <2>3. Len(records) \in Nat
    BY RecordsAreRecords
  <2>4. \A i \in 1 .. Len(records') :
          /\ records'[i].previous < i
          /\ \A j \in 1 .. i - 1 : records'[j].writer = records'[i].writer => j <= records'[i].previous
    BY <2>2 DEF RecordInv
  <2>5. ASSUME NEW x \in Threads, thread'[x].pc = "appending"
        PROVE /\ thread'[x].previous <= Len(records')
              /\ \A j \in 1 .. Len(records') : records'[j].writer = x => j <= thread'[x].previous
    <3>1. CASE x = th
      BY <2>1, <2>2, <2>3, <3>1
    <3>2. CASE x # th
      <4>1. thread'[x] = thread[x]
        BY <2>1, <3>2
      <4> QED BY <2>2, <2>5, <4>1 DEF RecordInv
    <3> QED BY <3>1, <3>2
  <2> QED BY <2>4, <2>5 DEF RecordInv
<1>4. ASSUME NEW th \in Threads, AppendRecord(th) PROVE RecordInv'
  <2> DEFINE r == [previous |-> thread[th].previous, writer |-> th]
             n == Len(records)
  <2>1. records' = Append(records, r) /\ thread[th].pc = "appending" /\ thread' = [thread EXCEPT ![th] = Idle]
    BY <1>4 DEF AppendRecord
  <2>2. n \in Nat /\ records \in Seq([previous: Nat, writer: Threads])
    BY RecordsAreRecords DEF TypeOK
  <2>3. r.previous \in Nat /\ r.previous = thread[th].previous /\ r.writer = th
    BY RecordsAreRecords
  <2> HIDE DEF r
  <2>4. Len(records') = n + 1 /\ records'[n + 1] = r /\ \A i \in 1 .. n : records'[i] = records[i]
    BY <2>1, <2>2
  <2>5. r.previous <= n /\ \A j \in 1 .. n : records[j].writer = th => j <= r.previous
    BY <2>1, <2>3 DEF RecordInv
  <2>6. ASSUME NEW i \in 1 .. n + 1
        PROVE /\ records'[i].previous < i
              /\ \A j \in 1 .. i - 1 : records'[j].writer = records'[i].writer => j <= records'[i].previous
    <3>1. CASE i = n + 1
      BY <2>2, <2>3, <2>4, <2>5, <3>1
    <3>2. CASE i # n + 1
      <4>1. i \in 1 .. n /\ \A j \in 1 .. i - 1 : j \in 1 .. n
        BY <2>2, <3>2
      <4> HIDE DEF n
      <4>2. /\ records[i].previous < i
            /\ \A j \in 1 .. i - 1 : records[j].writer = records[i].writer => j <= records[i].previous
        BY <4>1 DEF RecordInv, n
      <4> QED BY <2>4, <4>1, <4>2
    <3> QED BY <3>1, <3>2
  <2>7. ASSUME NEW x \in Threads, thread'[x].pc = "appending"
        PROVE /\ thread'[x].previous <= n + 1
              /\ \A j \in 1 .. n + 1 : records'[j].writer = x => j <= thread'[x].previous
    <3>1. x # th /\ thread'[x] = thread[x]
      BY <2>1, <2>7 DEF TypeOK, Idle
    <3>2. thread[x].previous \in Nat
      BY RecordsAreRecords
    <3>3. thread[x].previous <= n /\ \A j \in 1 .. n : records[j].writer = x => j <= thread[x].previous
      BY <2>7, <3>1 DEF RecordInv
    <3>4. thread'[x].previous <= n + 1
      BY <2>2, <3>1, <3>2, <3>3
    <3>5. ASSUME NEW j \in 1 .. n + 1, records'[j].writer = x PROVE j <= thread'[x].previous
      <4>1. j # n + 1
        BY <2>3, <2>4, <3>1, <3>5
      <4>2. j \in 1 .. n
        BY <2>2, <4>1
      <4> QED BY <2>4, <3>1, <3>3, <3>5, <4>2
    <3> QED BY <3>4, <3>5
  <2> QED BY <2>4, <2>6, <2>7 DEF RecordInv
<1>5. CASE UNCHANGED vars
  BY <1>1, <1>5 DEF vars
<1>6. ASSUME NEW t \in Tokens, NEW p \in Roots, Issue(t, p) PROVE RecordInv'
  BY <1>1, <1>6 DEF Issue, shadowVars
<1>7. ASSUME NEW parent \in Tokens, NEW t \in Tokens, NEW p \in Strays, SignStray(parent, t, p) PROVE RecordInv'
  BY <1>1, <1>7 DEF SignStray, shadowVars
<1>8. ASSUME NEW parent \in Tokens, NEW t \in Tokens, NEW q \in Requests, attenuate(parent, t, q) PROVE RecordInv'
  BY <1>1, <1>8 DEF attenuate, shadowVars
<1>9. ASSUME NEW th \in Threads, NEW t \in Tokens, NEW action \in Actions, NEW context \in Contexts,
             VerifyWithChain(th, t, action, context)
      PROVE RecordInv'
  <2> DEFINE r == [Idle EXCEPT !.pc = "accepting", !.token = t]
  <2>1. thread' = [thread EXCEPT ![th] = r] /\ r.pc = "accepting" /\ UNCHANGED records
    BY <1>9 DEF VerifyWithChain, shadowVars, Idle
  <2> HIDE DEF r
  <2> QED BY <1>2, <2>1
<1>10. ASSUME NEW th \in Threads, NEW t \in Tokens, NEW plane \in Planes, NEW action \in Actions,
              NEW resource \in Resources, NEW context \in Contexts,
              Decide(th, t, plane, action, resource, context)
       PROVE RecordInv'
  <2> DEFINE r == [Idle EXCEPT !.pc = "allowing", !.token = t]
  <2>1. thread' = [thread EXCEPT ![th] = r] /\ r.pc = "allowing" /\ UNCHANGED records
    BY <1>10 DEF Decide, shadowVars, Idle
  <2> HIDE DEF r
  <2> QED BY <1>2, <2>1
<1>11. ASSUME NEW th \in Threads, NEW t \in Tokens \cup {None}, NEW action \in Actions,
              NEW resource \in Resources, NEW context \in Contexts,
              Evaluate(th, t, action, resource, context)
       PROVE RecordInv'
  <2>1. PICK r : thread' = [thread EXCEPT ![th] = r] /\ (r.pc = "judging" \/ r.pc = "consuming")
    BY <1>11, EvaluateSets
  <2>2. UNCHANGED records
    BY <1>11 DEF Evaluate, shadowVars
  <2> QED BY <1>2, <2>1, <2>2
<1>12. ASSUME NEW th \in Threads, Allow(th) \/ Accept(th) PROVE RecordInv'
  BY <1>2, <1>12 DEF Allow, Accept, shadowVars, Idle
<1>13. ASSUME NEW th \in Threads, ConsumeToken(th) PROVE RecordInv'
  <2> DEFINE r == [thread[th] EXCEPT !.pc = "judging", !.token = None]
  <2>1. r.pc = "judging" /\ thread' = [thread EXCEPT ![th] = r] /\ UNCHANGED records
    BY <1>13, ThreadIsRecord DEF ConsumeToken, TypeOK, ThreadState, shadowVars
  <2> HIDE DEF r
  <2> QED BY <1>2, <2>1
<1>14. ASSUME NEW th \in Threads,
              (\E c \in Commands : apply_mode_change(th, c)) \/ SetMode(th) \/ SetSequence(th)
       PROVE RecordInv'
  <2>1. PICK r : thread' = [thread EXCEPT ![th] = r] /\ r.pc \in {"idle", "switching", "sequencing"}
    BY <1>14, SwitchingSteps
  <2>2. UNCHANGED records
    BY <1>14, SwitchingSteps
  <2> QED BY <1>2, <2>1, <2>2
<1>15. CASE Tick
  BY <1>1, <1>15 DEF Tick, shadowVars
<1> QED BY <1>3, <1>4, <1>5, <1>6, <1>7, <1>8, <1>9, <1>10, <1>11, <1>12, <1>13, <1>14, <1>15 DEF Next

\* A token passes a gate once per thread at the most, whatever the interleaving, and a log
\* written by one thread verifies.
THEOREM RacesHold == Spec => []RacesAreBounded
<1>1. TypeOK /\ NonceInv /\ RecordInv => RacesAreBounded
  <2> SUFFICES ASSUME TypeOK, NonceInv, RecordInv PROVE RacesAreBounded
    OBVIOUS
  <2>1. \A g \in Gates, th \in Threads, t \in Tokens : passed[g][th][t] <= 1
    BY DEF NonceInv
  <2>2. ASSUME NEW i \in 1 .. Len(records), NEW j \in 1 .. Len(records), i < j,
               records[i].writer = records[j].writer
        PROVE records[i].previous < records[j].previous
    <3>1. records[i].previous \in Nat /\ records[j].previous \in Nat
      BY RecordsAreRecords
    <3>2. i \in 1 .. j - 1
      BY <2>2
    <3>3. records[i].previous < i /\ i <= records[j].previous
      BY <2>2, <3>2 DEF RecordInv
    <3> QED BY <3>1, <3>3
  <2>3. ASSUME NEW i \in DOMAIN records, NEW j \in DOMAIN records, i # j,
               records[i].writer = records[j].writer
        PROVE records[i].previous # records[j].previous
    <3>1. i \in 1 .. Len(records) /\ j \in 1 .. Len(records) /\ i \in Nat /\ j \in Nat
      BY RecordsAreRecords
    <3>2. records[i].previous \in Nat /\ records[j].previous \in Nat
      BY <3>1, RecordsAreRecords
    <3>3. i < j \/ j < i
      BY <2>3, <3>1
    <3>4. CASE i < j
      <4>1. records[i].previous < records[j].previous
        BY <2>2, <2>3, <3>1, <3>4
      <4> QED BY <3>2, <4>1
    <3>5. CASE j < i
      <4>1. records[j].previous < records[i].previous
        BY <2>2, <2>3, <3>1, <3>5
      <4> QED BY <3>2, <4>1
    <3> QED BY <3>3, <3>4, <3>5
  <2>4. ASSUME NEW th \in Threads, Threads = {th}, NEW i \in 1 .. Len(records)
        PROVE records[i].previous = i - 1
    <3>1. records[i].previous \in Nat /\ records[i].writer = th /\ i \in Nat
      BY <2>4, RecordsAreRecords
    <3>2. records[i].previous < i
      BY DEF RecordInv
    <3>3. CASE i = 1
      BY <3>1, <3>2, <3>3
    <3>4. CASE i # 1
      <4>1. i - 1 \in 1 .. i - 1 /\ i - 1 \in 1 .. Len(records)
        BY <3>1, <3>4, RecordsAreRecords
      <4>2. records[i - 1].writer = th
        BY <2>4, <4>1, RecordsAreRecords
      <4>3. i - 1 <= records[i].previous
        BY <3>1, <4>1, <4>2 DEF RecordInv
      <4> QED BY <3>1, <3>2, <4>3
    <3> QED BY <3>3, <3>4
  <2> QED BY <2>1, <2>3, <2>4 DEF RacesAreBounded, verify_log
<1> QED BY <1>1, TypeCorrect, InitNonces, NextNonces, InitRecords, NextRecords, PTL DEF Spec

-----------------------------------------------------------------------------
(* Shadow mode *)

\* Of the changes that took effect, the one with the highest sequence.
Latest(c) == c \in applied /\ \A d \in applied \ {c} : d.sequence < c.sequence

SettledInv ==
  IF applied = {} THEN mode = InitialMode
  ELSE \E c \in applied : Latest(c) /\ c.mode = mode /\ c.sequence = last_sequence

\* While no two calls have overlapped, one thread at the most is changing the mode, to a
\* newer one; between its two writes the mode is ahead of the sequence.
ModeInv ==
  ~ overlapped =>
    /\ \A x, y \in Threads :
         thread[x].pc \in {"switching", "sequencing"} /\ thread[y].pc \in {"switching", "sequencing"} => x = y
    /\ \A x \in Threads : thread[x].pc = "switching" => thread[x].command.sequence > last_sequence
    /\ \A x \in Threads : thread[x].pc = "sequencing" =>
         Latest(thread[x].command) /\ mode = thread[x].command.mode
    /\ (\A x \in Threads : thread[x].pc # "sequencing") => SettledInv

modeVars == <<mode, last_sequence, applied, overlapped>>

LEMMA InitMode == Init => ModeInv
BY DEF Init, ModeInv, SettledInv, Idle

\* A step of a thread that is not changing the mode.
LEMMA OtherStepsKeepMode ==
  ASSUME TypeOK, ModeInv, UNCHANGED modeVars, NEW th \in Threads, NEW r,
         thread' = [thread EXCEPT ![th] = r],
         thread[th].pc \notin {"switching", "sequencing"}, r.pc \notin {"switching", "sequencing"}
  PROVE  ModeInv'
<1>1. ASSUME NEW x \in Threads
      PROVE \/ thread'[x] = thread[x]
            \/ /\ thread[x].pc \notin {"switching", "sequencing"}
               /\ thread'[x].pc \notin {"switching", "sequencing"}
  BY DEF TypeOK
<1>2. SettledInv' = SettledInv /\ \A c : Latest(c)' = Latest(c)
  BY DEF modeVars, SettledInv, Latest
<1> QED BY <1>1, <1>2 DEF ModeInv, modeVars

\* A call passes its checks: with no other call under way, the mode is settled.
LEMMA ChangeChecked ==
  ASSUME TypeOK, ModeInv, NEW th \in Threads, NEW c \in Commands, apply_mode_change(th, c)
  PROVE  ModeInv'
<1> DEFINE r == [Idle EXCEPT !.pc = "switching", !.command = c]
<1>1. /\ thread' = [thread EXCEPT ![th] = r] /\ thread[th].pc = "idle" /\ c.sequence > last_sequence
      /\ overlapped' = (overlapped \/ Switching) /\ UNCHANGED <<mode, last_sequence, applied>>
  BY DEF apply_mode_change, Newer
<1>2. r.pc = "switching" /\ r.command = c
  BY DEF Idle
<1> HIDE DEF r
<1> SUFFICES ASSUME ~ overlapped' PROVE ModeInv'
  BY DEF ModeInv
<1>3. ~ overlapped /\ \A x \in Threads : thread[x].pc \notin {"switching", "sequencing"}
  BY <1>1 DEF Switching
<1>4. thread'[th] = r /\ \A x \in Threads : x # th => thread'[x] = thread[x]
  BY <1>1 DEF TypeOK
<1>5. SettledInv
  BY <1>3 DEF ModeInv
<1>6. SettledInv'
  BY <1>1, <1>5 DEF SettledInv, Latest
<1> QED BY <1>1, <1>2, <1>3, <1>4, <1>6 DEF ModeInv

\* The first write: the change is newer than any that took effect.
LEMMA ModeWritten ==
  ASSUME TypeOK, ModeInv, NEW th \in Threads, SetMode(th)
  PROVE  ModeInv'
<1>0. PICK c \in Commands : c = thread[th].command
  BY DEF SetMode, TypeOK
<1> DEFINE r == [thread[th] EXCEPT !.pc = "sequencing"]
<1>1. /\ thread[th].pc = "switching" /\ mode' = c.mode /\ applied' = applied \cup {c}
      /\ thread' = [thread EXCEPT ![th] = r] /\ UNCHANGED <<last_sequence, overlapped>>
  BY <1>0, ThreadIsRecord DEF SetMode, TypeOK, ThreadState
<1>2. r.pc = "sequencing" /\ r.command = c
  BY <1>0, ThreadIsRecord DEF ThreadState
<1>3. c.sequence \in Nat /\ last_sequence \in Int /\ \A d \in applied : d.sequence \in Nat
  BY DocumentAssumption DEF Command, TypeOK
<1> HIDE DEF r
<1> SUFFICES ASSUME ~ overlapped' PROVE ModeInv'
  BY DEF ModeInv
<1>4. thread'[th] = r /\ \A x \in Threads : x # th => thread'[x] = thread[x]
  BY <1>1 DEF TypeOK
<1>5. \A x \in Threads : x # th => thread[x].pc \notin {"switching", "sequencing"}
  BY <1>1 DEF ModeInv
<1>6. c.sequence > last_sequence /\ SettledInv
  BY <1>0, <1>1, <1>5 DEF ModeInv
<1>7. \A d \in applied : d.sequence < c.sequence
  <2> SUFFICES ASSUME NEW d \in applied PROVE d.sequence < c.sequence
    OBVIOUS
  <2>1. PICK e \in applied : e.sequence = last_sequence /\ \A x \in applied \ {e} : x.sequence < e.sequence
    BY <1>6 DEF SettledInv, Latest
  <2>2. d.sequence <= last_sequence
    BY <1>3, <2>1
  <2> QED BY <1>3, <1>6, <2>2
<1>8. Latest(c)'
  BY <1>1, <1>7 DEF Latest
<1> QED BY <1>1, <1>2, <1>4, <1>5, <1>8 DEF ModeInv

\* The second write: the sequence catches up, and the mode is settled again.
LEMMA SequenceWritten ==
  ASSUME TypeOK, ModeInv, NEW th \in Threads, SetSequence(th)
  PROVE  ModeInv'
<1> DEFINE c == thread[th].command
<1>1. /\ thread[th].pc = "sequencing" /\ last_sequence' = c.sequence
      /\ thread' = [thread EXCEPT ![th] = Idle] /\ UNCHANGED <<mode, applied, overlapped>>
  BY DEF SetSequence
<1> SUFFICES ASSUME ~ overlapped' PROVE ModeInv'
  BY DEF ModeInv
<1>2. thread'[th] = Idle /\ Idle.pc = "idle" /\ \A x \in Threads : x # th => thread'[x] = thread[x]
  BY <1>1 DEF TypeOK, Idle
<1>3. \A x \in Threads : x # th => thread[x].pc \notin {"switching", "sequencing"}
  BY <1>1 DEF ModeInv
<1>4. Latest(c) /\ mode = c.mode
  BY <1>1 DEF ModeInv
<1> HIDE DEF c
<1>5. SettledInv'
  BY <1>1, <1>4 DEF SettledInv, Latest
<1>6. \A x \in Threads : thread'[x].pc \notin {"switching", "sequencing"}
  BY <1>2, <1>3
<1> QED BY <1>5, <1>6 DEF ModeInv

LEMMA NextMode == TypeOK /\ ModeInv /\ [Next]_vars => ModeInv'
<1> SUFFICES ASSUME TypeOK, ModeInv, [Next]_vars PROVE ModeInv'
  OBVIOUS
<1> USE DEF shadowVars
<1>1. CASE UNCHANGED <<thread, modeVars>>
  BY <1>1 DEF ModeInv, SettledInv, Latest, modeVars
<1>2. CASE UNCHANGED vars
  BY <1>1, <1>2 DEF vars, modeVars
<1>3. ASSUME NEW t \in Tokens, NEW p \in Roots, Issue(t, p) PROVE ModeInv'
  BY <1>1, <1>3 DEF Issue, modeVars
<1>4. ASSUME NEW parent \in Tokens, NEW t \in Tokens, NEW p \in Strays, SignStray(parent, t, p) PROVE ModeInv'
  BY <1>1, <1>4 DEF SignStray, modeVars
<1>5. ASSUME NEW parent \in Tokens, NEW t \in Tokens, NEW q \in Requests, attenuate(parent, t, q) PROVE ModeInv'
  BY <1>1, <1>5 DEF attenuate, modeVars
<1>6. ASSUME NEW th \in Threads, NEW t \in Tokens, NEW action \in Actions, NEW context \in Contexts,
             VerifyWithChain(th, t, action, context)
      PROVE ModeInv'
  <2> DEFINE r == [Idle EXCEPT !.pc = "accepting", !.token = t]
  <2>1. thread' = [thread EXCEPT ![th] = r] /\ r.pc = "accepting" /\ thread[th].pc = "idle" /\ UNCHANGED modeVars
    BY <1>6 DEF VerifyWithChain, Idle, modeVars
  <2> HIDE DEF r
  <2> QED BY <2>1, OtherStepsKeepMode
<1>7. ASSUME NEW th \in Threads, NEW t \in Tokens, NEW plane \in Planes, NEW action \in Actions,
             NEW resource \in Resources, NEW context \in Contexts,
             Decide(th, t, plane, action, resource, context)
      PROVE ModeInv'
  <2> DEFINE r == [Idle EXCEPT !.pc = "allowing", !.token = t]
  <2>1. thread' = [thread EXCEPT ![th] = r] /\ r.pc = "allowing" /\ thread[th].pc = "idle" /\ UNCHANGED modeVars
    BY <1>7 DEF Decide, Idle, modeVars
  <2> HIDE DEF r
  <2> QED BY <2>1, OtherStepsKeepMode
<1>8. ASSUME NEW th \in Threads, NEW t \in Tokens \cup {None}, NEW action \in Actions,
             NEW resource \in Resources, NEW context \in Contexts,
             Evaluate(th, t, action, resource, context)
      PROVE ModeInv'
  <2>1. PICK r : thread' = [thread EXCEPT ![th] = r] /\ (r.pc = "judging" \/ r.pc = "consuming")
    BY <1>8, EvaluateSets
  <2>2. thread[th].pc = "idle" /\ UNCHANGED modeVars
    BY <1>8 DEF Evaluate, modeVars
  <2> QED BY <2>1, <2>2, OtherStepsKeepMode
<1>9. ASSUME NEW th \in Threads, Allow(th) \/ Accept(th) \/ AppendRecord(th) PROVE ModeInv'
  <2>1. /\ thread' = [thread EXCEPT ![th] = Idle] /\ Idle.pc = "idle"
        /\ thread[th].pc \in {"allowing", "accepting", "appending"} /\ UNCHANGED modeVars
    BY <1>9 DEF Allow, Accept, AppendRecord, Idle, modeVars
  <2> QED BY <2>1, OtherStepsKeepMode
<1>10. ASSUME NEW th \in Threads, ConsumeToken(th) PROVE ModeInv'
  <2> DEFINE r == [thread[th] EXCEPT !.pc = "judging", !.token = None]
  <2>1. /\ thread' = [thread EXCEPT ![th] = r] /\ r.pc = "judging" /\ thread[th].pc = "consuming"
        /\ UNCHANGED modeVars
    BY <1>10, ThreadIsRecord DEF ConsumeToken, TypeOK, ThreadState, modeVars
  <2> HIDE DEF r
  <2> QED BY <2>1, OtherStepsKeepMode
<1>11. ASSUME NEW th \in Threads, Judge(th) PROVE ModeInv'
  <2> DEFINE r == [thread[th] EXCEPT !.pc = "appending", !.previous = Len(records),
                                     !.enforced = Enforced(thread[th].action, thread[th].verdict)]
  <2>1. /\ thread' = [thread EXCEPT ![th] = r] /\ r.pc = "appending" /\ thread[th].pc = "judging"
        /\ UNCHANGED modeVars
    BY <1>11, ThreadIsRecord DEF Judge, TypeOK, ThreadState, modeVars
  <2> HIDE DEF r
  <2> QED BY <2>1, OtherStepsKeepMode
<1>12. CASE Tick
  BY <1>1, <1>12 DEF Tick, modeVars
<1> QED BY <1>2, <1>3, <1>4, <1>5, <1>6, <1>7, <1>8, <1>9, <1>10, <1>11, <1>12,
       ChangeChecked, ModeWritten, SequenceWritten DEF Next

\* While no two calls have overlapped, the mode is the one of the newest change.
LEMMA ModeRules ==
  ASSUME TypeOK, ModeInv, ~ overlapped
  PROVE  Rules(mode)
<1>1. CASE \E x \in Threads : thread[x].pc = "sequencing"
  BY <1>1 DEF ModeInv, Latest, Rules
<1>2. CASE \A x \in Threads : thread[x].pc # "sequencing"
  BY <1>2 DEF ModeInv, SettledInv, Latest, Rules
<1> QED BY <1>1, <1>2

\* What a step that takes a thread from judging to appending can be.
LEMMA OnlyJudgeJudges ==
  ASSUME TypeOK, [Next]_vars, NEW th \in Threads, thread[th].pc = "judging", thread'[th].pc = "appending"
  PROVE  Judge(th)
<1> USE DEF TypeOK
<1>1. ASSUME thread' = thread PROVE FALSE
  BY <1>1
<1>2. ASSUME NEW x \in Threads, NEW r, thread' = [thread EXCEPT ![x] = r], r.pc # "appending" PROVE FALSE
  BY <1>2
<1>3. ASSUME NEW x \in Threads, Judge(x), x # th PROVE FALSE
  BY <1>3 DEF Judge
<1>4. ~ UNCHANGED vars /\ ~ Tick
  BY <1>1 DEF vars, Tick
<1>5. ASSUME NEW t \in Tokens, NEW p \in Roots, Issue(t, p) PROVE FALSE
  BY <1>1, <1>5 DEF Issue
<1>6. ASSUME NEW parent \in Tokens, NEW t \in Tokens, NEW p \in Strays, SignStray(parent, t, p) PROVE FALSE
  BY <1>1, <1>6 DEF SignStray
<1>7. ASSUME NEW parent \in Tokens, NEW t \in Tokens, NEW q \in Requests, attenuate(parent, t, q) PROVE FALSE
  BY <1>1, <1>7 DEF attenuate
<1>8. ASSUME NEW x \in Threads, NEW t \in Tokens, NEW action \in Actions, NEW context \in Contexts,
             VerifyWithChain(x, t, action, context)
      PROVE FALSE
  BY <1>2, <1>8 DEF VerifyWithChain, Idle
<1>9. ASSUME NEW x \in Threads, NEW t \in Tokens, NEW plane \in Planes, NEW action \in Actions,
             NEW resource \in Resources, NEW context \in Contexts,
             Decide(x, t, plane, action, resource, context)
      PROVE FALSE
  BY <1>2, <1>9 DEF Decide, Idle
<1>10. ASSUME NEW x \in Threads, NEW t \in Tokens \cup {None}, NEW action \in Actions,
              NEW resource \in Resources, NEW context \in Contexts,
              Evaluate(x, t, action, resource, context)
       PROVE FALSE
  <2>1. PICK r : thread' = [thread EXCEPT ![x] = r] /\ (r.pc = "judging" \/ r.pc = "consuming")
    BY <1>10, EvaluateSets
  <2> QED BY <1>2, <2>1
<1>11. ASSUME NEW x \in Threads, Allow(x) \/ Accept(x) \/ AppendRecord(x) PROVE FALSE
  BY <1>2, <1>11 DEF Allow, Accept, AppendRecord, Idle
<1>12. ASSUME NEW x \in Threads, ConsumeToken(x) PROVE FALSE
  <2> DEFINE r == [thread[x] EXCEPT !.pc = "judging", !.token = None]
  <2>1. r.pc = "judging" /\ thread' = [thread EXCEPT ![x] = r]
    BY <1>12, ThreadIsRecord DEF ConsumeToken, ThreadState
  <2> HIDE DEF r
  <2> QED BY <1>2, <2>1
<1>13. ASSUME NEW x \in Threads,
              (\E c \in Commands : apply_mode_change(x, c)) \/ SetMode(x) \/ SetSequence(x)
       PROVE FALSE
  <2>1. PICK r : thread' = [thread EXCEPT ![x] = r] /\ r.pc \in {"idle", "switching", "sequencing"}
    BY <1>13, SwitchingSteps
  <2> QED BY <1>2, <2>1
<1> QED BY <1>3, <1>4, <1>5, <1>6, <1>7, <1>8, <1>9, <1>10, <1>11, <1>12, <1>13 DEF Next

\* No action of never_shadow is spared its verdict, and another one only while the newest
\* mode change says SHADOW, unless two calls of apply_mode_change have overlapped.
THEOREM SparedHolds == Spec => SparedOnlyInShadow
<1>1. ASSUME TypeOK, ModeInv, [Next]_vars, NEW th \in Threads,
             thread[th].pc = "judging", thread'[th].pc = "appending", thread'[th].enforced # thread'[th].verdict
      PROVE thread[th].action \notin NeverShadow /\ (overlapped \/ Rules("SHADOW"))
  <2>1. Judge(th)
    BY <1>1, OnlyJudgeJudges
  <2>2. /\ thread'[th].verdict = thread[th].verdict
        /\ thread'[th].enforced = Enforced(thread[th].action, thread[th].verdict)
    BY <1>1, <2>1, ThreadIsRecord DEF Judge, TypeOK, ThreadState
  <2>3. mode # "ENFORCE" /\ thread[th].action \notin NeverShadow
    BY <1>1, <2>2 DEF Enforced
  <2>4. mode = "SHADOW"
    BY <1>1, <2>3 DEF TypeOK, Modes
  <2> QED BY <1>1, <2>3, <2>4, ModeRules
<1>2. TypeOK /\ ModeInv /\ [Next]_vars =>
        [\A th \in Threads :
           thread[th].pc = "judging" /\ thread'[th].pc = "appending"
             /\ thread'[th].enforced # thread'[th].verdict
           => /\ thread[th].action \notin NeverShadow
              /\ overlapped \/ Rules("SHADOW")]_vars
  BY <1>1
<1> QED BY <1>2, TypeCorrect, InitMode, NextMode, PTL DEF Spec, SparedOnlyInShadow

=============================================================================
