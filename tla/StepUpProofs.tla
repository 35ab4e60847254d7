---------------------------- MODULE StepUpProofs ----------------------------
(* Proofs about StepUp: for any quorums, credentials, verifiers and challenges. *)
EXTENDS StepUp, FiniteSetTheorems, TLAPS

-----------------------------------------------------------------------------
(* Steps *)

\* Every step of the specification is one of these (the disjuncts of Next).
LEMMA NextIsStep ==
  ASSUME Next
  PROVE  \/ \E k \in Keys, ch \in Challenges, act \in Actions \cup {None} :
              CreateAssertion(k, ch, act)
         \/ \E q \in Quorums, v \in Verifiers, a \in minted, act \in Actions :
              ApproveStart(q, v, a, act)
         \/ \E q \in Quorums : ReadSignCount(q)
         \/ \E q \in Quorums : VerifyAssertion(q)
         \/ \E q \in Quorums : VerifyRefused(q)
         \/ \E q \in Quorums : RecordApproval(q)
         \/ \E q \in Quorums : ApproveRefused(q)
         \/ \E q \in Quorums : Abandon(q)
         \/ \E q \in Quorums : FinalizeBurn(q)
         \/ \E q \in Quorums : FinalizeSeal(q)
BY DEF Next

\* What a thread is doing, by its pc (the shape of Jobs).
LEMMA JobShape ==
  ASSUME TypeOK, NEW q \in Quorums
  PROVE  /\ job[q].pc = "idle" => job[q] = Idle
         /\ job[q].pc = "burned" => job[q] = [pc |-> "burned"]
         /\ job[q].pc \in {"checked", "counted", "verified"} =>
              job[q] \in [pc: {"checked", "counted", "verified"}, verifier: Verifiers,
                          assertion: Assertions, action: Actions, last: Nat]
  <1>1. job[q] \in Jobs
    BY DEF TypeOK
  <1>2. CASE job[q] = Idle
    BY <1>2 DEF Idle
  <1>3. CASE job[q] = [pc |-> "burned"]
    BY <1>3 DEF Idle
  <1>4. CASE job[q] \in [pc: {"checked", "counted", "verified"}, verifier: Verifiers,
                         assertion: Assertions, action: Actions, last: Nat]
    BY <1>4
  <1>. QED
    BY <1>1, <1>2, <1>3, <1>4 DEF Jobs

\* A quorum that can be finalized is bound (is_satisfied implies bound, as
\* finalize asserts).
LEMMA SatisfiedIsBound ==
  ASSUME TypeOK, NEW q \in Quorums, IsSatisfied(q)
  PROVE  quorum[q].challenge \in Challenges /\ quorum[q].action \in Actions
  <1>1. Required[q] \in Nat \ {0}
    BY StepUpAssumption
  <1>2. quorum[q].approvals # {}
    <2>1. SUFFICES ASSUME quorum[q].approvals = {} PROVE FALSE
      OBVIOUS
    <2>2. Cardinality(quorum[q].approvals) = 0
      BY <2>1, FS_EmptySet
    <2>. QED
      BY <1>1, <2>2 DEF IsSatisfied
  <1>3. quorum[q] \in [status: {"open", "finalized", "abandoned"}, action: Actions \cup {None},
                       challenge: Challenges \cup {None}, approvals: SUBSET Approvals]
    BY DEF TypeOK
  <1>. QED
    BY <1>2, <1>3 DEF TypeOK

-----------------------------------------------------------------------------
(* The inductive invariant *)

Approves(q) == job[q].pc \in {"checked", "counted", "verified"}
Done(q)     == job[q].pc = "burned" \/ quorum[q].status = "finalized"

\* A thread inside approve or finalize works on an open quorum; what is being
\* finalized is burned; the registry is exact; a record is its quorum's.
Registry ==
  /\ \A q \in Quorums : Approves(q) => quorum[q].status = "open"
  /\ \A q \in Quorums : job[q].pc = "burned" => quorum[q].status = "open"
  /\ \A q \in Quorums : Done(q) => quorum[q].challenge \in burned
  /\ RegistryIsExact
  /\ \A r \in records : /\ quorum[r.quorum].status = "finalized"
                        /\ quorum[r.quorum].challenge = r.challenge

\* A burned challenge nothing overlapped: no approve is under way over it, the
\* one live quorum that may hold it is being finalized, and one quorum is done
\* with it.
Closed(ch) ==
  /\ \A q \in Quorums : Approves(q) => job[q].assertion.challenge # ch
  /\ \A q \in Quorums : Live(q) /\ quorum[q].challenge = ch => job[q].pc = "burned"
  /\ \A p, q \in Quorums :
       Done(p) /\ Done(q) /\ quorum[p].challenge = ch /\ quorum[q].challenge = ch => p = q

IInv == TypeOK /\ Registry /\ \A ch \in burned \ overlapped : Closed(ch)

-----------------------------------------------------------------------------
(* Types *)

QuorumTypes ==
  [status: {"open", "finalized", "abandoned"}, action: Actions \cup {None},
   challenge: Challenges \cup {None}, approvals: SUBSET Approvals]

WorkTypes ==
  [pc: {"checked", "counted", "verified"}, verifier: Verifiers, assertion: Assertions,
   action: Actions, last: Nat]

LEMMA TypeStep ==
  ASSUME TypeOK, Registry, [Next]_vars
  PROVE  TypeOK'
  <1>q. quorum \in [Quorums -> QuorumTypes] /\ Jobs = {Idle, [pc |-> "burned"]} \cup WorkTypes
    BY DEF TypeOK, QuorumTypes, Jobs, WorkTypes
  <1>1. ASSUME NEW k \in Keys, NEW ch \in Challenges, NEW act \in Actions \cup {None},
               CreateAssertion(k, ch, act)
        PROVE TypeOK'
    <2>1. [key |-> k, challenge |-> ch, action |-> act, count |-> deviceCount[k] + 1] \in Assertions
      BY DEF TypeOK, Assertions
    <2>. QED
      BY <1>1, <2>1 DEF TypeOK, CreateAssertion
  <1>2. ASSUME NEW q \in Quorums, NEW v \in Verifiers, NEW a \in minted, NEW act \in Actions,
               ApproveStart(q, v, a, act)
        PROVE TypeOK'
    <2>1. [pc |-> "checked", verifier |-> v, assertion |-> a, action |-> act, last |-> 0] \in WorkTypes
      BY DEF TypeOK, WorkTypes
    <2>2. job' \in [Quorums -> Jobs]
      BY <1>2, <1>q, <2>1 DEF TypeOK, ApproveStart
    <2>. QED
      BY <1>2, <2>2 DEF TypeOK, ApproveStart, deviceVars
  <1>3. ASSUME NEW q \in Quorums, ReadSignCount(q) PROVE TypeOK'
    <2>1. job[q] \in WorkTypes
      BY <1>3, JobShape DEF ReadSignCount, WorkTypes
    <2>2. lastSeen[job[q].verifier][job[q].assertion.key] \in Nat
      BY <2>1 DEF TypeOK, WorkTypes, Assertions
    <2>3. [job[q] EXCEPT !.pc = "counted", !.last = lastSeen[job[q].verifier][job[q].assertion.key]]
            \in WorkTypes
      BY <2>1, <2>2 DEF WorkTypes
    <2>4. job' \in [Quorums -> Jobs]
      BY <1>3, <1>q, <2>3 DEF TypeOK, ReadSignCount
    <2>. QED
      BY <1>3, <2>4 DEF TypeOK, ReadSignCount, deviceVars
  <1>4. ASSUME NEW q \in Quorums, VerifyAssertion(q) PROVE TypeOK'
    <2>1. job[q] \in WorkTypes
      BY <1>4, JobShape DEF VerifyAssertion, WorkTypes
    <2>2. [job[q] EXCEPT !.pc = "verified"] \in WorkTypes
      BY <2>1 DEF WorkTypes
    <2>3. job' \in [Quorums -> Jobs]
      BY <1>4, <1>q, <2>2 DEF TypeOK, VerifyAssertion
    <2>4. job[q].assertion.count \in Nat /\ job[q].assertion.key \in Keys /\ job[q].verifier \in Verifiers
      BY <2>1 DEF WorkTypes, Assertions
    <2>5. lastSeen' \in [Verifiers -> [Keys -> Nat]]
      BY <1>4, <2>4 DEF TypeOK, VerifyAssertion
    <2>. QED
      BY <1>4, <2>3, <2>5 DEF TypeOK, VerifyAssertion, deviceVars
  <1>5. ASSUME NEW q \in Quorums, VerifyRefused(q) \/ ApproveRefused(q) PROVE TypeOK'
    <2>1. job' \in [Quorums -> Jobs]
      BY <1>5, <1>q DEF TypeOK, VerifyRefused, ApproveRefused
    <2>. QED
      BY <1>5, <2>1 DEF TypeOK, VerifyRefused, ApproveRefused, deviceVars
  <1>6. ASSUME NEW q \in Quorums, RecordApproval(q) PROVE TypeOK'
    <2>1. job[q] \in WorkTypes
      BY <1>6, JobShape DEF RecordApproval, WorkTypes
    <2>2. job[q].assertion \in Assertions /\ job[q].action \in Actions
          /\ job[q].assertion.challenge \in Challenges
      BY <2>1 DEF WorkTypes, Assertions
    <2>3. [assertion |-> job[q].assertion, action |-> job[q].action] \in Approvals
      BY <2>2 DEF Approvals
    <2>4. WithApproval(q, job[q].assertion, job[q].action) \in QuorumTypes
      BY <1>q, <2>2, <2>3 DEF WithApproval, QuorumTypes
    <2>5. quorum' = [quorum EXCEPT ![q] = WithApproval(q, job[q].assertion, job[q].action)]
      BY <1>6 DEF RecordApproval
    <2>6. quorum' \in [Quorums -> QuorumTypes]
      BY <1>q, <2>4, <2>5
    <2>7. job' \in [Quorums -> Jobs] /\ inFlight' \in [Challenges -> Quorums \cup {None}]
      BY <1>6, <1>q, <2>2 DEF TypeOK, RecordApproval
    <2>8. \A p \in Quorums :
            /\ quorum'[p].action = None <=> quorum'[p].challenge = None
            /\ quorum'[p].action = None <=> quorum'[p].approvals = {}
      <3>1. quorum'[q].action # None /\ quorum'[q].challenge # None /\ quorum'[q].approvals # {}
        BY <1>q, <2>2, <2>5, StepUpAssumption DEF WithApproval, QuorumTypes
      <3>2. \A p \in Quorums : p # q => quorum'[p] = quorum[p]
        BY <1>q, <2>5
      <3>. QED
        BY <3>1, <3>2 DEF TypeOK
    <2>9. UNCHANGED <<deviceCount, minted, lastSeen, burned, records, overlapped>>
      BY <1>6 DEF RecordApproval, deviceVars
    <2>. QED
      BY <2>6, <2>7, <2>8, <2>9 DEF TypeOK, QuorumTypes
  <1>7. ASSUME NEW q \in Quorums, Abandon(q) PROVE TypeOK'
    <2>1. inFlight' \in [Challenges -> Quorums \cup {None}]
      BY <1>7 DEF TypeOK, Abandon, Released
    <2>2. quorum' \in [Quorums -> QuorumTypes]
      BY <1>7, <1>q DEF Abandon, QuorumTypes
    <2>3. \A p \in Quorums : /\ quorum'[p].action = quorum[p].action
                             /\ quorum'[p].challenge = quorum[p].challenge
                             /\ quorum'[p].approvals = quorum[p].approvals
      BY <1>7, <1>q DEF Abandon, QuorumTypes
    <2>4. UNCHANGED <<deviceCount, minted, lastSeen, burned, job, records, overlapped>>
      BY <1>7 DEF Abandon, deviceVars
    <2>. QED
      BY <2>1, <2>2, <2>3, <2>4 DEF TypeOK, QuorumTypes
  <1>8. ASSUME NEW q \in Quorums, FinalizeBurn(q) PROVE TypeOK'
    <2>1. quorum[q].challenge \in Challenges
      BY <1>8, SatisfiedIsBound DEF FinalizeBurn
    <2>2. job' \in [Quorums -> Jobs]
      BY <1>8, <1>q DEF TypeOK, FinalizeBurn
    <2>3. burned' \subseteq Challenges /\ overlapped' \subseteq Challenges
      BY <1>8, <2>1 DEF TypeOK, FinalizeBurn
    <2>. QED
      BY <1>8, <2>2, <2>3 DEF TypeOK, FinalizeBurn, deviceVars
  <1>9. ASSUME NEW q \in Quorums, FinalizeSeal(q) PROVE TypeOK'
    <2>1. quorum[q].challenge \in Challenges
      BY <1>9 DEF TypeOK, Registry, Done, FinalizeSeal
    <2>2. quorum[q] \in QuorumTypes /\ quorum[q].action \in Actions
      BY <1>q, <2>1, StepUpAssumption DEF TypeOK, QuorumTypes
    <2>3. records' \subseteq Records
      BY <1>9, <2>1, <2>2 DEF TypeOK, FinalizeSeal, Records, QuorumTypes
    <2>4. inFlight' \in [Challenges -> Quorums \cup {None}]
      BY <1>9 DEF TypeOK, FinalizeSeal, Released
    <2>5. quorum' \in [Quorums -> QuorumTypes]
      BY <1>9, <1>q DEF FinalizeSeal, QuorumTypes
    <2>6. \A p \in Quorums : /\ quorum'[p].action = quorum[p].action
                             /\ quorum'[p].challenge = quorum[p].challenge
                             /\ quorum'[p].approvals = quorum[p].approvals
      BY <1>9, <1>q DEF FinalizeSeal, QuorumTypes
    <2>7. job' \in [Quorums -> Jobs]
      BY <1>9, <1>q DEF TypeOK, FinalizeSeal
    <2>8. UNCHANGED <<deviceCount, minted, lastSeen, burned, overlapped>>
      BY <1>9 DEF FinalizeSeal, deviceVars
    <2>. QED
      BY <2>3, <2>4, <2>5, <2>6, <2>7, <2>8 DEF TypeOK, QuorumTypes
  <1>10. CASE UNCHANGED vars
    BY <1>10 DEF TypeOK, vars, deviceVars
  <1>. QED
    BY <1>1, <1>2, <1>3, <1>4, <1>5, <1>6, <1>7, <1>8, <1>9, <1>10, NextIsStep

-----------------------------------------------------------------------------
(* The registry *)

\* A step that leaves every quorum, the registry and the records alone, burns
\* nothing, and starts no work on a quorum that is not open, keeps Registry.
LEMMA RegistryKept ==
  ASSUME Registry, UNCHANGED <<quorum, inFlight, burned, records>>,
         \A q \in Quorums : Approves(q)' => Approves(q) \/ quorum[q].status = "open",
         \A q \in Quorums : (job[q].pc = "burned")' => job[q].pc = "burned"
  PROVE  Registry'
  <1>1. RegistryIsExact'
    BY DEF Registry, RegistryIsExact, Live
  <1>2. \A q \in Quorums : Approves(q)' => (quorum[q].status = "open")'
    BY DEF Registry
  <1>3. \A q \in Quorums : (job[q].pc = "burned")' => (quorum[q].status = "open")'
    BY DEF Registry
  <1>4. \A q \in Quorums : Done(q)' => Done(q)
    BY DEF Done
  <1>5. \A q \in Quorums : Done(q)' => (quorum[q].challenge \in burned)'
    BY <1>4 DEF Registry
  <1>. QED
    BY <1>1, <1>2, <1>3, <1>5 DEF Registry

\* One step preserves Registry; recording, abandoning, burning and sealing are
\* the steps that touch it.
LEMMA RegistryStep ==
  ASSUME TypeOK, Registry, [Next]_vars
  PROVE  Registry'
  <1>t. quorum \in [Quorums -> QuorumTypes] /\ DOMAIN job = Quorums /\ burned \subseteq Challenges
        /\ None \notin Challenges /\ None \notin Quorums /\ None \notin Actions
    BY StepUpAssumption DEF TypeOK, QuorumTypes
  <1>1. ASSUME NEW k \in Keys, NEW ch \in Challenges, NEW act \in Actions \cup {None},
               CreateAssertion(k, ch, act)
        PROVE Registry'
    BY <1>1, RegistryKept DEF CreateAssertion, Approves
  <1>2. ASSUME NEW q \in Quorums, NEW v \in Verifiers, NEW a \in minted, NEW act \in Actions,
               ApproveStart(q, v, a, act)
        PROVE Registry'
    <2>1. \A p \in Quorums : p # q => job'[p] = job[p]
      BY <1>2 DEF ApproveStart
    <2>2. job'[q].pc = "checked" /\ quorum[q].status = "open"
      BY <1>2, <1>t DEF ApproveStart
    <2>. QED
      BY <1>2, <2>1, <2>2, RegistryKept DEF ApproveStart, Approves
  <1>3. ASSUME NEW q \in Quorums,
               ReadSignCount(q) \/ VerifyAssertion(q) \/ VerifyRefused(q) \/ ApproveRefused(q)
        PROVE Registry'
    <2>1. \A p \in Quorums : p # q => job'[p] = job[p]
      <3>1. CASE ReadSignCount(q)
        BY <3>1, <1>t DEF ReadSignCount
      <3>2. CASE VerifyAssertion(q)
        BY <3>2, <1>t DEF VerifyAssertion
      <3>3. CASE VerifyRefused(q) \/ ApproveRefused(q)
        BY <3>3, <1>t DEF VerifyRefused, ApproveRefused
      <3>. QED
        BY <1>3, <3>1, <3>2, <3>3
    <2>2. Approves(q)
      BY <1>3 DEF ReadSignCount, VerifyAssertion, VerifyRefused, ApproveRefused, Approves
    <2>3. job[q] \in WorkTypes
      BY <2>2, JobShape DEF Approves, WorkTypes
    <2>4. job'[q].pc \in {"counted", "verified", "idle"}
      BY <1>3, <1>t, <2>3
      DEF ReadSignCount, VerifyAssertion, VerifyRefused, ApproveRefused, Idle, WorkTypes
    <2>5. UNCHANGED <<quorum, inFlight, burned, records>>
      BY <1>3 DEF ReadSignCount, VerifyAssertion, VerifyRefused, ApproveRefused
    <2>. QED
      BY <2>1, <2>2, <2>4, <2>5, RegistryKept DEF Approves
  <1>4. ASSUME NEW q \in Quorums, RecordApproval(q) PROVE Registry'
    <2>1. Approves(q) /\ job[q].pc = "verified"
      BY <1>4 DEF RecordApproval, Approves
    <2>2. PICK a \in Assertions, act \in Actions :
            a = job[q].assertion /\ act = job[q].action /\ CanRecord(q, a, act)
      <3>1. job[q] \in WorkTypes
        BY <2>1, JobShape DEF Approves, WorkTypes
      <3>. QED
        BY <1>4, <3>1 DEF RecordApproval, WorkTypes
    <2>3. a.challenge \in Challenges /\ quorum[q].status = "open"
      BY <2>1, <2>2 DEF Assertions, Registry
    <2>4. /\ quorum'[q].status = "open" /\ quorum'[q].challenge = a.challenge
          /\ \A p \in Quorums : p # q => quorum'[p] = quorum[p]
      BY <1>4, <1>t, <2>2, <2>3 DEF RecordApproval, WithApproval, QuorumTypes
    <2>5. /\ job'[q].pc = "idle" /\ \A p \in Quorums : p # q => job'[p] = job[p]
          /\ UNCHANGED <<burned, records>>
      BY <1>4, <1>t DEF RecordApproval, Idle
    <2>6. inFlight' = [inFlight EXCEPT ![a.challenge] = IF quorum[q].action = None THEN q ELSE @]
      BY <1>4, <2>2 DEF RecordApproval
    <2>7. RegistryIsExact'
      <3>1. SUFFICES ASSUME NEW p \in Quorums, NEW ch \in Challenges
                     PROVE  inFlight'[ch] = p <=>
                              /\ quorum'[p].status = "open" /\ quorum'[p].challenge # None
                              /\ quorum'[p].challenge = ch
        BY DEF RegistryIsExact, Live
      <3>2. inFlight[ch] = p <=> Live(p) /\ quorum[p].challenge = ch
        BY DEF Registry, RegistryIsExact
      <3>3. CASE quorum[q].action = None
        <4>1. quorum[q].challenge = None /\ inFlight[a.challenge] \in {None, q}
          BY <2>2, <3>3 DEF TypeOK, CanRecord, MayClaim
        <4>2. inFlight'[ch] = IF ch = a.challenge THEN q ELSE inFlight[ch]
          BY <2>3, <2>6, <3>3 DEF TypeOK
        <4>3. inFlight[a.challenge] = p => p = q
          BY <1>t, <4>1
        <4>4. CASE p = q
          BY <1>t, <2>3, <2>4, <3>2, <4>1, <4>2, <4>4 DEF Live
        <4>5. CASE p # q
          BY <2>4, <3>2, <4>2, <4>3, <4>5 DEF Live
        <4>. QED
          BY <4>4, <4>5
      <3>4. CASE quorum[q].action # None
        <4>1. quorum[q].challenge = a.challenge
          BY <2>2, <3>4 DEF CanRecord, MatchesBinding
        <4>2. inFlight'[ch] = inFlight[ch]
          BY <2>3, <2>6, <3>4 DEF TypeOK
        <4>. QED
          BY <2>3, <2>4, <3>2, <4>1, <4>2 DEF Live
      <3>. QED
        BY <3>3, <3>4
    <2>8. \A r \in records : r.quorum # q
      BY <2>3 DEF Registry
    <2>9. \A r \in records : r.quorum \in Quorums
      BY DEF TypeOK, Records
    <2>10. \A r \in records : quorum'[r.quorum] = quorum[r.quorum]
      BY <2>4, <2>8, <2>9
    <2>11. \A p \in Quorums : p # q => quorum'[p] = quorum[p] /\ job'[p] = job[p]
      BY <2>4, <2>5
    <2>12. \A p \in Quorums : /\ Approves(p)' => quorum'[p].status = "open"
                              /\ job'[p].pc = "burned" => quorum'[p].status = "open"
      BY <2>4, <2>5, <2>11 DEF Registry, Approves
    <2>13. \A p \in Quorums : Done(p)' => quorum'[p].challenge \in burned'
      BY <2>4, <2>5, <2>11 DEF Registry, Done
    <2>. QED
      BY <2>5, <2>7, <2>10, <2>12, <2>13 DEF Registry
  <1>5. ASSUME NEW q \in Quorums, Abandon(q) PROVE Registry'
    <2>1. quorum[q].status = "open" /\ job[q] = Idle
      BY <1>5 DEF Abandon
    <2>2. /\ quorum'[q].status = "abandoned"
          /\ \A p \in Quorums : p # q => quorum'[p] = quorum[p]
          /\ UNCHANGED <<job, burned, records>>
      BY <1>5, <1>t DEF Abandon, QuorumTypes
    <2>3. ~Approves(q) /\ job[q].pc # "burned"
      BY <2>1 DEF Approves, Idle
    <2>4. RegistryIsExact'
      BY <1>5, <1>t, <2>1, <2>2 DEF Registry, RegistryIsExact, Live, Abandon, Released
    <2>5. \A r \in records : quorum'[r.quorum] = quorum[r.quorum]
      BY <2>1, <2>2 DEF Registry, TypeOK, Records
    <2>6. \A p \in Quorums : /\ Approves(p)' => quorum'[p].status = "open"
                             /\ job'[p].pc = "burned" => quorum'[p].status = "open"
                             /\ Done(p)' => quorum'[p].challenge \in burned'
      BY <2>2, <2>3 DEF Registry, Approves, Done
    <2>. QED
      BY <2>2, <2>4, <2>5, <2>6 DEF Registry
  <1>6. ASSUME NEW q \in Quorums, FinalizeBurn(q) PROVE Registry'
    <2>1. /\ quorum[q].status = "open" /\ job'[q].pc = "burned"
          /\ \A p \in Quorums : p # q => job'[p] = job[p]
          /\ UNCHANGED <<quorum, inFlight, records>>
          /\ burned' = burned \cup {quorum[q].challenge}
      BY <1>6, <1>t DEF FinalizeBurn
    <2>2. RegistryIsExact'
      BY <2>1 DEF Registry, RegistryIsExact, Live
    <2>3. \A p \in Quorums : /\ Approves(p)' => quorum'[p].status = "open"
                             /\ job'[p].pc = "burned" => quorum'[p].status = "open"
                             /\ Done(p)' => quorum'[p].challenge \in burned'
      BY <2>1 DEF Registry, Approves, Done
    <2>. QED
      BY <2>1, <2>2, <2>3 DEF Registry
  <1>7. ASSUME NEW q \in Quorums, FinalizeSeal(q) PROVE Registry'
    <2>1. job[q].pc = "burned" /\ quorum[q].status = "open" /\ quorum[q].challenge \in burned
      BY <1>7 DEF FinalizeSeal, Registry, Done
    <2>2. /\ quorum'[q].status = "finalized" /\ quorum'[q].challenge = quorum[q].challenge
          /\ \A p \in Quorums : p # q => quorum'[p] = quorum[p]
          /\ job'[q].pc = "idle" /\ \A p \in Quorums : p # q => job'[p] = job[p]
          /\ UNCHANGED burned
      BY <1>7, <1>t DEF FinalizeSeal, QuorumTypes, Idle
    <2>3. RegistryIsExact'
      BY <1>7, <1>t, <2>1, <2>2 DEF Registry, RegistryIsExact, Live, FinalizeSeal, Released
    <2>4. \A r \in records' : r \in records \/ (r.quorum = q /\ r.challenge = quorum[q].challenge)
      BY <1>7 DEF FinalizeSeal
    <2>5. \A r \in records : r.quorum # q /\ r.quorum \in Quorums
      BY <2>1 DEF Registry, TypeOK, Records
    <2>6. \A r \in records' : /\ quorum'[r.quorum].status = "finalized"
                             /\ quorum'[r.quorum].challenge = r.challenge
      BY <2>2, <2>4, <2>5 DEF Registry
    <2>7. \A p \in Quorums : /\ Approves(p)' => quorum'[p].status = "open"
                             /\ job'[p].pc = "burned" => quorum'[p].status = "open"
                             /\ Done(p)' => quorum'[p].challenge \in burned'
      BY <2>1, <2>2 DEF Registry, Approves, Done
    <2>. QED
      BY <2>3, <2>6, <2>7 DEF Registry
  <1>8. CASE UNCHANGED vars
    BY <1>8, RegistryKept DEF vars, Approves
  <1>. QED
    BY <1>1, <1>2, <1>3, <1>4, <1>5, <1>6, <1>7, <1>8, NextIsStep

-----------------------------------------------------------------------------
(* One quorum per challenge *)

\* A step keeps Closed(ch) when no quorum newly approves over ch, becomes live
\* with it, or is done with it.
LEMMA ClosedKept ==
  ASSUME NEW ch, Closed(ch),
         \A q \in Quorums : Approves(q)' /\ job'[q].assertion.challenge = ch =>
                             Approves(q) /\ job[q].assertion.challenge = ch,
         \A q \in Quorums : Live(q)' /\ quorum'[q].challenge = ch =>
                             /\ Live(q) /\ quorum[q].challenge = ch
                             /\ job[q].pc = "burned" => job'[q].pc = "burned",
         \A q \in Quorums : Done(q)' /\ quorum'[q].challenge = ch =>
                             Done(q) /\ quorum[q].challenge = ch
  PROVE  Closed(ch)'
  <1>1. \A q \in Quorums : Approves(q)' => job'[q].assertion.challenge # ch
    BY DEF Closed
  <1>2. \A q \in Quorums : Live(q)' /\ quorum'[q].challenge = ch => job'[q].pc = "burned"
    BY DEF Closed
  <1>3. \A p, q \in Quorums : Done(p)' /\ Done(q)' /\ quorum'[p].challenge = ch
                                /\ quorum'[q].challenge = ch => p = q
    BY DEF Closed
  <1>. QED
    BY <1>1, <1>2, <1>3 DEF Closed

LEMMA ClosedStep ==
  ASSUME IInv, [Next]_vars, NEW ch \in burned', ch \notin overlapped'
  PROVE  Closed(ch)'
  <1>t. quorum \in [Quorums -> QuorumTypes] /\ DOMAIN job = Quorums /\ TypeOK /\ Registry
    BY DEF IInv, TypeOK, QuorumTypes
  <1>c. ch \in burned /\ ch \notin overlapped => Closed(ch)
    BY DEF IInv
  <1>1. ASSUME NEW k \in Keys, NEW x \in Challenges, NEW act \in Actions \cup {None},
               CreateAssertion(k, x, act)
        PROVE Closed(ch)'
    <2>1. UNCHANGED <<job, quorum, burned, overlapped>>
      BY <1>1 DEF CreateAssertion
    <2>. QED
      BY <1>c, <2>1, ClosedKept DEF Approves, Live, Done
  <1>2. ASSUME NEW q \in Quorums, NEW v \in Verifiers, NEW a \in minted, NEW act \in Actions,
               ApproveStart(q, v, a, act)
        PROVE Closed(ch)'
    <2>1. /\ \A p \in Quorums : p # q => job'[p] = job[p]
          /\ UNCHANGED <<quorum, burned, overlapped>>
      BY <1>2, <1>t DEF ApproveStart
    <2>2. job[q].pc = "idle" /\ job'[q].pc = "checked" /\ job'[q].assertion.challenge # ch
      BY <1>2, <1>t, <2>1 DEF ApproveStart, NotBurned, Idle
    <2>. QED
      BY <1>c, <2>1, <2>2, ClosedKept DEF Approves, Live, Done
  <1>3. ASSUME NEW q \in Quorums,
               ReadSignCount(q) \/ VerifyAssertion(q) \/ VerifyRefused(q) \/ ApproveRefused(q)
        PROVE Closed(ch)'
    <2>1. Approves(q)
      BY <1>3 DEF ReadSignCount, VerifyAssertion, VerifyRefused, ApproveRefused, Approves
    <2>2. job[q] \in WorkTypes
      BY <1>t, <2>1, JobShape DEF Approves, WorkTypes
    <2>3. UNCHANGED <<quorum, burned, overlapped>>
      BY <1>3 DEF ReadSignCount, VerifyAssertion, VerifyRefused, ApproveRefused
    <2>4. /\ \A p \in Quorums : p # q => job'[p] = job[p]
          /\ job'[q].pc = "idle" \/ (/\ job'[q].pc \in {"counted", "verified"}
                                     /\ job'[q].assertion = job[q].assertion)
      <3>1. CASE ReadSignCount(q)
        BY <3>1, <1>t, <2>2 DEF ReadSignCount, WorkTypes
      <3>2. CASE VerifyAssertion(q)
        BY <3>2, <1>t, <2>2 DEF VerifyAssertion, WorkTypes
      <3>3. CASE VerifyRefused(q) \/ ApproveRefused(q)
        BY <3>3, <1>t DEF VerifyRefused, ApproveRefused, Idle
      <3>. QED
        BY <1>3, <3>1, <3>2, <3>3
    <2>. QED
      BY <1>c, <2>1, <2>3, <2>4, ClosedKept DEF Approves, Live, Done
  <1>4. ASSUME NEW q \in Quorums, RecordApproval(q) PROVE Closed(ch)'
    <2>1. Approves(q) /\ quorum[q].status = "open"
      BY <1>4, <1>t DEF RecordApproval, Approves, Registry
    <2>2. /\ \A p \in Quorums : p # q => quorum'[p] = quorum[p] /\ job'[p] = job[p]
          /\ job'[q].pc = "idle" /\ UNCHANGED <<burned, overlapped>>
          /\ quorum'[q].challenge = job[q].assertion.challenge
          /\ quorum'[q].status = "open"
      BY <1>4, <1>t, <2>1 DEF RecordApproval, WithApproval, QuorumTypes, Idle
    <2>3. quorum'[q].challenge # ch
      BY <1>c, <2>1, <2>2 DEF Closed
    <2>. QED
      BY <1>c, <2>2, <2>3, ClosedKept DEF Approves, Live, Done
  <1>5. ASSUME NEW q \in Quorums, Abandon(q) PROVE Closed(ch)'
    <2>1. /\ \A p \in Quorums : p # q => quorum'[p] = quorum[p]
          /\ quorum'[q].status = "abandoned" /\ job[q].pc = "idle"
          /\ UNCHANGED <<job, burned, overlapped>>
      BY <1>5, <1>t DEF Abandon, QuorumTypes, Idle
    <2>. QED
      BY <1>c, <2>1, ClosedKept DEF Approves, Live, Done
  <1>6. ASSUME NEW q \in Quorums, FinalizeBurn(q) PROVE Closed(ch)'
    <2>1. /\ quorum[q].status = "open" /\ job[q].pc = "idle" /\ job'[q].pc = "burned"
          /\ \A p \in Quorums : p # q => job'[p] = job[p]
          /\ UNCHANGED <<quorum, inFlight, records>>
          /\ burned' = burned \cup {quorum[q].challenge}
          /\ overlapped' = overlapped \cup {x \in {quorum[q].challenge} : Approving(x) # {}}
      BY <1>6, <1>t DEF FinalizeBurn, Idle
    <2>2. quorum[q].challenge \in Challenges /\ Live(q)
      BY <1>6, <1>t, <2>1, SatisfiedIsBound, StepUpAssumption DEF FinalizeBurn, Live
    <2>3. CASE ch # quorum[q].challenge
      BY <1>c, <2>1, <2>3, ClosedKept DEF Approves, Live, Done
    <2>4. CASE ch = quorum[q].challenge
      <3>1. \A p \in Quorums : Live(p) /\ quorum[p].challenge = ch => p = q
        BY <1>t, <2>2, <2>4 DEF Registry, RegistryIsExact
      <3>2. \A p \in Quorums : Done(p) /\ quorum[p].challenge = ch => FALSE
        <4>1. SUFFICES ASSUME NEW p \in Quorums, Done(p), quorum[p].challenge = ch PROVE FALSE
          OBVIOUS
        <4>2. ch \in burned
          BY <1>t, <4>1 DEF Registry
        <4>3. Closed(ch)
          BY <1>c, <2>1, <4>2
        <4>. QED
          BY <2>1, <2>2, <2>4, <4>3 DEF Closed
      <3>3. \A p \in Quorums : Done(p)' /\ quorum'[p].challenge = ch => p = q
        BY <2>1, <3>2 DEF Done
      <3>4. Approving(ch) = {}
        BY <2>1, <2>4
      <3>5. \A p \in Quorums : Approves(p)' => job'[p].assertion.challenge # ch
        BY <2>1, <3>4 DEF Approving, Approves
      <3>6. \A p \in Quorums : Live(p)' /\ quorum'[p].challenge = ch => job'[p].pc = "burned"
        BY <2>1, <3>1 DEF Live
      <3>. QED
        BY <3>3, <3>5, <3>6 DEF Closed
    <2>. QED
      BY <2>3, <2>4
  <1>7. ASSUME NEW q \in Quorums, FinalizeSeal(q) PROVE Closed(ch)'
    <2>1. /\ \A p \in Quorums : p # q => quorum'[p] = quorum[p] /\ job'[p] = job[p]
          /\ quorum'[q].status = "finalized" /\ quorum'[q].challenge = quorum[q].challenge
          /\ job[q].pc = "burned" /\ job'[q].pc = "idle" /\ UNCHANGED <<burned, overlapped>>
      BY <1>7, <1>t DEF FinalizeSeal, QuorumTypes, Idle
    <2>. QED
      BY <1>c, <2>1, ClosedKept DEF Approves, Live, Done
  <1>8. CASE UNCHANGED vars
    <2>1. UNCHANGED <<job, quorum, burned, overlapped>>
      BY <1>8 DEF vars
    <2>. QED
      BY <1>c, <2>1, ClosedKept DEF Approves, Live, Done
  <1>. QED
    BY <1>1, <1>2, <1>3, <1>4, <1>5, <1>6, <1>7, <1>8, NextIsStep

-----------------------------------------------------------------------------
(* Records are earned *)

\* Finitely many approvals, of distinct credentials.
Distinct(approvals) ==
  /\ IsFiniteSet(approvals)
  /\ \A x, y \in approvals : x.assertion.key = y.assertion.key => x = y

\* Each approval is an assertion a device created over the challenge and, where
\* its key can sign it, the action.
Signed(approvals, challenge, action) ==
  \A x \in approvals :
    /\ x.assertion \in minted /\ x.assertion.challenge = challenge
    /\ x.assertion.key \in BindingKeys => x.assertion.action = action

\* What a quorum has counted is signed by distinct credentials, what it is
\* verifying was created, and it has its m approvals when it is being finalized.
Earned ==
  /\ \A q \in Quorums : /\ Distinct(quorum[q].approvals)
                        /\ Signed(quorum[q].approvals, quorum[q].challenge, quorum[q].action)
  /\ \A q \in Quorums : Approves(q) => job[q].assertion \in minted
  /\ \A q \in Quorums :
       job[q].pc = "burned" => Cardinality(quorum[q].approvals) >= Required[q]
  /\ RecordsAreEarned

\* Approvals of distinct credentials are as many as their credentials.
LEMMA DistinctCount ==
  ASSUME NEW approvals, Distinct(approvals)
  PROVE  Cardinality({x.assertion.key : x \in approvals}) = Cardinality(approvals)
  <1>. DEFINE signers == {x.assertion.key : x \in approvals}
              f == [x \in approvals |-> x.assertion.key]
  <1>1. f \in Surjection(approvals, signers)
    BY DEF Surjection
  <1>2. f \in Injection(approvals, signers)
    BY DEF Injection, IsInjective, Distinct
  <1>3. IsFiniteSet(approvals)
    BY DEF Distinct
  <1>. HIDE DEF signers, f
  <1>4. Cardinality(signers) = Cardinality(approvals)
    BY <1>1, <1>2, <1>3, FS_Surjection
  <1>. QED
    BY <1>4 DEF signers

\* A step that changes no quorum's approvals or binding, keeps what was created,
\* starts work only on created assertions, finalizes nothing and issues no
\* record keeps Earned.
LEMMA EarnedKept ==
  ASSUME Earned, minted \subseteq minted', records' = records,
         \A q \in Quorums : /\ quorum'[q].approvals = quorum[q].approvals
                            /\ quorum'[q].challenge = quorum[q].challenge
                            /\ quorum'[q].action = quorum[q].action,
         \A q \in Quorums : Approves(q)' => \/ job'[q].assertion \in minted
                                            \/ Approves(q) /\ job'[q].assertion = job[q].assertion,
         \A q \in Quorums : job'[q].pc = "burned" => job[q].pc = "burned"
  PROVE  Earned'
  <1>1. ASSUME NEW q \in Quorums
        PROVE /\ Distinct(quorum'[q].approvals)
              /\ Signed(quorum[q].approvals, quorum[q].challenge, quorum[q].action)'
    BY <1>1 DEF Earned, Distinct, Signed
  <1>2. \A q \in Quorums : Approves(q)' => (job[q].assertion \in minted)'
    BY DEF Earned
  <1>3. \A q \in Quorums :
          job'[q].pc = "burned" => Cardinality(quorum'[q].approvals) >= Required[q]
    BY DEF Earned
  <1>4. RecordsAreEarned'
    BY DEF Earned, RecordsAreEarned
  <1>. QED
    BY <1>1, <1>2, <1>3, <1>4 DEF Earned, Distinct

\* Recording adds one verified assertion of a credential not yet counted.
LEMMA RecordedEarned ==
  ASSUME TypeOK, Earned, NEW q \in Quorums, RecordApproval(q)
  PROVE  Earned'
  <1>. DEFINE a == job[q].assertion
              act == job[q].action
              new == [assertion |-> a, action |-> act]
  <1>t. quorum \in [Quorums -> QuorumTypes] /\ DOMAIN job = Quorums
    BY DEF TypeOK, QuorumTypes
  <1>1. CanRecord(q, a, act) /\ a \in minted
    BY DEF RecordApproval, Earned, Approves
  <1>2. /\ quorum'[q].approvals = quorum[q].approvals \cup {new}
        /\ quorum'[q].challenge = a.challenge /\ quorum'[q].action = act
        /\ \A p \in Quorums : p # q => quorum'[p] = quorum[p]
    BY <1>t DEF RecordApproval, WithApproval, QuorumTypes
  <1>3. /\ job'[q] = Idle /\ \A p \in Quorums : p # q => job'[p] = job[p]
        /\ minted' = minted /\ records' = records
    BY <1>t DEF RecordApproval, deviceVars
  <1>4. Distinct(quorum[q].approvals \cup {new})
    <2>1. IsFiniteSet(quorum[q].approvals \cup {new})
      BY FS_AddElement DEF Earned, Distinct
    <2>2. \A x \in quorum[q].approvals : x.assertion.key # new.assertion.key
      BY <1>1 DEF CanRecord, NotCounted
    <2>3. \A x, y \in quorum[q].approvals : x.assertion.key = y.assertion.key => x = y
      BY DEF Earned, Distinct
    <2>. HIDE DEF new
    <2>. QED
      BY <2>1, <2>2, <2>3 DEF Distinct
  <1>5. Signed(quorum[q].approvals \cup {new}, a.challenge, act)
    <2>1. \A x \in quorum[q].approvals :
            /\ x.assertion \in minted /\ x.assertion.challenge = quorum[q].challenge
            /\ x.assertion.key \in BindingKeys => x.assertion.action = quorum[q].action
      BY DEF Earned, Signed
    <2>2. quorum[q].approvals # {} => act = quorum[q].action /\ a.challenge = quorum[q].challenge
      BY <1>1 DEF TypeOK, CanRecord, MatchesBinding
    <2>3. a.key \in BindingKeys => a.action = act
      BY <1>1 DEF CanRecord, BindsAction
    <2>4. new.assertion = a
      OBVIOUS
    <2>. HIDE DEF new, a, act
    <2>. QED
      BY <1>1, <2>1, <2>2, <2>3, <2>4 DEF Signed
  <1>6. PICK approvals, challenge, action :
          /\ quorum'[q].approvals = approvals
          /\ quorum'[q].challenge = challenge /\ quorum'[q].action = action
          /\ Distinct(approvals) /\ Signed(approvals, challenge, action)
    BY <1>2, <1>4, <1>5
  <1>7. \A p \in Quorums : /\ Distinct(quorum'[p].approvals)
                           /\ Signed(quorum'[p].approvals, quorum'[p].challenge, quorum'[p].action)
    BY <1>2, <1>6 DEF Earned
  <1>8. \A p \in Quorums :
          /\ Distinct(quorum[p].approvals)'
          /\ Signed(quorum[p].approvals, quorum[p].challenge, quorum[p].action)'
    BY <1>3, <1>7 DEF Signed, Distinct
  <1>9. \A p \in Quorums : /\ Approves(p)' => (job[p].assertion \in minted)'
                           /\ (job[p].pc = "burned" =>
                                 Cardinality(quorum[p].approvals) >= Required[p])'
    BY <1>2, <1>3 DEF Earned, Approves, Idle
  <1>10. RecordsAreEarned'
    BY <1>3 DEF Earned, RecordsAreEarned
  <1>. QED
    BY <1>8, <1>9, <1>10 DEF Earned

\* finalize checked m approvals before it burned, and nothing joined since.
LEMMA SealedEarned ==
  ASSUME TypeOK, Earned, NEW q \in Quorums, FinalizeSeal(q)
  PROVE  Earned'
  <1>t. quorum \in [Quorums -> QuorumTypes] /\ DOMAIN job = Quorums
    BY DEF TypeOK, QuorumTypes
  <1>1. /\ \A p \in Quorums : /\ quorum'[p].approvals = quorum[p].approvals
                              /\ quorum'[p].challenge = quorum[p].challenge
                              /\ quorum'[p].action = quorum[p].action
        /\ job'[q] = Idle /\ \A p \in Quorums : p # q => job'[p] = job[p]
        /\ minted' = minted
    BY <1>t DEF FinalizeSeal, QuorumTypes, deviceVars
  <1>2. Cardinality({x.assertion.key : x \in quorum[q].approvals}) >= Required[q]
    <2>1. Cardinality(quorum[q].approvals) >= Required[q] /\ Distinct(quorum[q].approvals)
      BY DEF FinalizeSeal, Earned
    <2>. QED
      BY <2>1, DistinctCount
  <1>3. Signed(quorum[q].approvals, quorum[q].challenge, quorum[q].action)
    BY DEF Earned
  <1>4. ASSUME NEW r \in records'
        PROVE /\ Cardinality({x.assertion.key : x \in r.approvals}) >= Required[r.quorum]
              /\ \A x \in r.approvals :
                   /\ x.assertion \in minted' /\ x.assertion.challenge = r.challenge
                   /\ x.assertion.key \in BindingKeys => x.assertion.action = r.action
    <2>1. CASE r \in records
      BY <1>1, <2>1 DEF Earned, RecordsAreEarned
    <2>2. CASE r = [quorum |-> q, action |-> quorum[q].action, challenge |-> quorum[q].challenge,
                    approvals |-> quorum[q].approvals]
      <3>1. /\ r.quorum = q /\ r.approvals = quorum[q].approvals
            /\ r.challenge = quorum[q].challenge /\ r.action = quorum[q].action
        BY <2>2
      <3>. QED
        BY <1>1, <1>2, <1>3, <3>1 DEF Signed
    <2>. QED
      BY <1>4, <2>1, <2>2 DEF FinalizeSeal
  <1>5. RecordsAreEarned'
    BY <1>4 DEF RecordsAreEarned
  <1>6. \A p \in Quorums :
          /\ Distinct(quorum[p].approvals)'
          /\ Signed(quorum[p].approvals, quorum[p].challenge, quorum[p].action)'
    BY <1>1 DEF Earned, Signed, Distinct
  <1>7. \A p \in Quorums : /\ Approves(p)' => (job[p].assertion \in minted)'
                           /\ (job[p].pc = "burned" =>
                                 Cardinality(quorum[p].approvals) >= Required[p])'
    BY <1>1 DEF Earned, Approves, Idle
  <1>. QED
    BY <1>5, <1>6, <1>7 DEF Earned

LEMMA EarnedStep ==
  ASSUME TypeOK, Earned, [Next]_vars
  PROVE  Earned'
  <1>t. quorum \in [Quorums -> QuorumTypes] /\ DOMAIN job = Quorums
    BY DEF TypeOK, QuorumTypes
  <1>1. ASSUME NEW k \in Keys, NEW ch \in Challenges, NEW act \in Actions \cup {None},
               CreateAssertion(k, ch, act)
        PROVE Earned'
    BY <1>1, EarnedKept DEF CreateAssertion, Approves
  <1>2. ASSUME NEW q \in Quorums, NEW v \in Verifiers, NEW a \in minted, NEW act \in Actions,
               ApproveStart(q, v, a, act)
        PROVE Earned'
    <2>1. /\ job'[q].assertion \in minted /\ job'[q].pc = "checked"
          /\ \A p \in Quorums : p # q => job'[p] = job[p]
          /\ UNCHANGED <<quorum, records, minted>>
      BY <1>2, <1>t DEF ApproveStart, deviceVars
    <2>. QED
      BY <2>1, EarnedKept DEF Approves
  <1>3. ASSUME NEW q \in Quorums,
               ReadSignCount(q) \/ VerifyAssertion(q) \/ VerifyRefused(q) \/ ApproveRefused(q)
        PROVE Earned'
    <2>1. Approves(q)
      BY <1>3 DEF ReadSignCount, VerifyAssertion, VerifyRefused, ApproveRefused, Approves
    <2>2. job[q] \in WorkTypes
      BY <2>1, JobShape DEF Approves, WorkTypes
    <2>3. UNCHANGED <<quorum, records, minted>>
      BY <1>3 DEF ReadSignCount, VerifyAssertion, VerifyRefused, ApproveRefused, deviceVars
    <2>4. /\ \A p \in Quorums : p # q => job'[p] = job[p]
          /\ job'[q].pc = "idle" \/ (/\ job'[q].pc \in {"counted", "verified"}
                                     /\ job'[q].assertion = job[q].assertion)
      <3>1. CASE ReadSignCount(q)
        BY <3>1, <1>t, <2>2 DEF ReadSignCount, WorkTypes
      <3>2. CASE VerifyAssertion(q)
        BY <3>2, <1>t, <2>2 DEF VerifyAssertion, WorkTypes
      <3>3. CASE VerifyRefused(q) \/ ApproveRefused(q)
        BY <3>3, <1>t DEF VerifyRefused, ApproveRefused, Idle
      <3>. QED
        BY <1>3, <3>1, <3>2, <3>3
    <2>. QED
      BY <2>1, <2>3, <2>4, EarnedKept DEF Approves
  <1>4. ASSUME NEW q \in Quorums, Abandon(q) PROVE Earned'
    <2>1. /\ \A p \in Quorums : /\ quorum'[p].approvals = quorum[p].approvals
                                /\ quorum'[p].challenge = quorum[p].challenge
                                /\ quorum'[p].action = quorum[p].action
          /\ UNCHANGED <<job, records, minted>>
      BY <1>4, <1>t DEF Abandon, QuorumTypes, deviceVars
    <2>. QED
      BY <2>1, EarnedKept DEF Approves
  <1>5. ASSUME NEW q \in Quorums, FinalizeBurn(q) PROVE Earned'
    <2>1. /\ job'[q] = [pc |-> "burned"] /\ \A p \in Quorums : p # q => job'[p] = job[p]
          /\ UNCHANGED <<quorum, records, minted>>
          /\ Cardinality(quorum[q].approvals) >= Required[q]
      BY <1>5, <1>t DEF FinalizeBurn, IsSatisfied, deviceVars
    <2>2. \A p \in Quorums :
            /\ Distinct(quorum[p].approvals)'
            /\ Signed(quorum[p].approvals, quorum[p].challenge, quorum[p].action)'
      BY <2>1 DEF Earned, Signed, Distinct
    <2>3. \A p \in Quorums : /\ Approves(p)' => (job[p].assertion \in minted)'
                             /\ (job[p].pc = "burned" =>
                                   Cardinality(quorum[p].approvals) >= Required[p])'
      BY <2>1 DEF Earned, Approves
    <2>4. RecordsAreEarned'
      BY <2>1 DEF Earned, RecordsAreEarned
    <2>. QED
      BY <2>2, <2>3, <2>4 DEF Earned
  <1>6. CASE UNCHANGED vars
    BY <1>6, EarnedKept DEF vars, deviceVars, Approves
  <1>. QED
    BY <1>1, <1>2, <1>3, <1>4, <1>5, <1>6, NextIsStep, RecordedEarned, SealedEarned

-----------------------------------------------------------------------------
(* The theorems *)

LEMMA InitHolds == Init => IInv
  <1>1. SUFFICES ASSUME Init PROVE IInv
    OBVIOUS
  <1>2. TypeOK
    BY <1>1, StepUpAssumption DEF Init, TypeOK, New, Jobs, Idle
  <1>3. Registry
    BY <1>1, StepUpAssumption
    DEF Init, Registry, RegistryIsExact, Live, Done, Approves, New, Idle
  <1>. QED
    BY <1>1, <1>2, <1>3 DEF Init, IInv

\* The inductive invariant of the quorum protocol.
LEMMA QuorumInvariant == Spec => []IInv
  <1>1. IInv /\ [Next]_vars => IInv'
    <2>1. SUFFICES ASSUME IInv, [Next]_vars PROVE IInv'
      OBVIOUS
    <2>2. TypeOK' /\ Registry'
      BY <2>1, TypeStep, RegistryStep DEF IInv
    <2>3. \A ch \in burned' \ overlapped' : Closed(ch)'
      BY <2>1, ClosedStep
    <2>. QED
      BY <2>2, <2>3 DEF IInv
  <1>. QED
    BY InitHolds, <1>1, PTL DEF Spec

\* Every variable stays in the range its code allows, and a quorum is bound to
\* an action and a challenge by its first approval and not before.
THEOREM TypeCorrect == Spec => []TypeOK
  BY QuorumInvariant, PTL DEF IInv

\* At every step the in-flight registry of stepup.py holds exactly the
\* challenges of the live quorums with an approval.
THEOREM RegistryHolds == Spec => []RegistryIsExact
  BY QuorumInvariant, PTL DEF IInv, Registry

\* A challenge that no approve overlapped when finalize burned it serves one
\* quorum only.
THEOREM OneQuorumHolds == Spec => []OneQuorumPerChallenge
  <1>1. IInv => OneQuorumPerChallenge
    <2>1. SUFFICES ASSUME IInv, NEW r \in records, NEW s \in records,
                          r.challenge = s.challenge, r.challenge \notin overlapped
                   PROVE  r.quorum = s.quorum
      BY DEF OneQuorumPerChallenge
    <2>2. /\ Done(r.quorum) /\ quorum[r.quorum].challenge = r.challenge
          /\ Done(s.quorum) /\ quorum[s.quorum].challenge = r.challenge
          /\ r.quorum \in Quorums /\ s.quorum \in Quorums
      BY <2>1 DEF IInv, Registry, Done, TypeOK, Records
    <2>3. r.challenge \in burned
      BY <2>1, <2>2 DEF IInv, Registry
    <2>. QED
      BY <2>1, <2>2, <2>3 DEF IInv, Closed
  <1>. QED
    BY QuorumInvariant, <1>1, PTL

\* A record that finalize issues carries m distinct credentials' assertions over
\* its challenge, each over its action where the credential can sign one,
\* however many quorums shared assertions and verifiers.
THEOREM EarnedHolds == Spec => []RecordsAreEarned
  <1>1. ASSUME Init PROVE Earned
    <2>1. Distinct({})
      BY FS_EmptySet DEF Distinct
    <2>2. \A q \in Quorums : quorum[q].approvals = {} /\ job[q].pc = "idle"
      BY <1>1 DEF Init, New, Idle
    <2>3. RecordsAreEarned
      BY <1>1 DEF Init, RecordsAreEarned
    <2>. QED
      BY <2>1, <2>2, <2>3 DEF Earned, Signed, Approves
  <1>2. IInv /\ Earned /\ [Next]_vars => Earned'
    BY EarnedStep DEF IInv
  <1>3. Earned => RecordsAreEarned
    BY DEF Earned
  <1>. QED
    BY QuorumInvariant, <1>1, <1>2, <1>3, PTL DEF Spec
=============================================================================
