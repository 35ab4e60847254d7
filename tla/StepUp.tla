------------------------------- MODULE StepUp -------------------------------
(***************************************************************************)
(* Quorum step-up approval (stepup.py): authenticators sign assertions over *)
(* a challenge, verifiers check them, and a quorum that m of n of them     *)
(* approve is finalized into an approval record.                           *)
(*                                                                         *)
(* QuorumApproval has no lock, so one thread drives each quorum; quorums   *)
(* run in parallel and meet in three places: the burned ledger and the     *)
(* in-flight registry (one lock, a critical section per call) and the sign *)
(* counts of a verifier (no lock).  A step is a critical section, or the   *)
(* reads or writes of one thread between two of them.                      *)
(*                                                                         *)
(* Signatures, rpIdHash, origin and the UP flag are abstracted: only       *)
(* assertions a device has created verify.                                 *)
(***************************************************************************)
EXTENDS Naturals, FiniteSets

CONSTANTS
  Quorums,          \* QuorumApproval instances
  Required, Capacity, \* their m and n
  Keys,             \* credential key_ids
  BindingKeys,      \* those whose authenticator has binds_action_digest
  Verifiers,        \* verifier instances, each with its own sign counts
  Challenges,       \* challenges the coordinator hands out, possibly twice
  Actions,          \* action digests
  MaxCount,         \* bound on the assertions each device creates
  None

ASSUME StepUpAssumption ==
  /\ Required \in [Quorums -> Nat \ {0}] /\ Capacity \in [Quorums -> Nat]
  /\ \A q \in Quorums : Required[q] <= Capacity[q]
  /\ BindingKeys \subseteq Keys
  /\ MaxCount \in [Keys -> Nat]
  /\ None \notin Quorums \cup Challenges \cup Actions

VARIABLES
  deviceCount,      \* each device's own counter
  minted,           \* the assertions created so far
  lastSeen,         \* each verifier's last sign count per credential
  inFlight,         \* _in_flight_challenges: the live quorum holding each challenge
  burned,           \* _burned_challenges
  quorum,           \* the QuorumApproval instances
  job,              \* what each quorum's thread is in the middle of
  records,          \* the approval records issued
  overlapped        \* history: challenges burned while another approve was under
                    \* way over them

deviceVars == <<deviceCount, minted>>
vars == <<deviceVars, lastSeen, inFlight, burned, quorum, job, records,
          overlapped>>

Assertions ==
  [key: Keys, challenge: Challenges, action: Actions \cup {None}, count: Nat]
Approvals == [assertion: Assertions, action: Actions]
Records   == [quorum: Quorums, action: Actions, challenge: Challenges, approvals: SUBSET Approvals]

Idle == [pc |-> "idle"]
New  == [status |-> "open", action |-> None, challenge |-> None, approvals |-> {}]

Init ==
  /\ deviceCount = [k \in Keys |-> 0]
  /\ minted = {}
  /\ lastSeen = [v \in Verifiers |-> [k \in Keys |-> 0]]
  /\ inFlight = [ch \in Challenges |-> None]
  /\ burned = {}
  /\ quorum = [q \in Quorums |-> New]
  /\ job = [q \in Quorums |-> Idle]
  /\ records = {}
  /\ overlapped = {}

-----------------------------------------------------------------------------
(* The device side *)

\* SoftwareAuthenticator embeds the action it is given; a hardware key cannot.
CreateAssertion(k, ch, act) ==
  /\ k \notin BindingKeys => act = None
  /\ deviceCount[k] < MaxCount[k]
  /\ deviceCount' = [deviceCount EXCEPT ![k] = @ + 1]
  /\ minted' = minted \cup
       {[key |-> k, challenge |-> ch, action |-> act, count |-> deviceCount[k] + 1]}
  /\ UNCHANGED <<lastSeen, inFlight, burned, quorum, job, records, overlapped>>

-----------------------------------------------------------------------------
(* approve *)

\* Mutant of NotBurned: the burned ledger is not consulted.
BurnedOrNot(ch) == TRUE

NotBurned(ch) == ch \notin burned

\* The quorum is open and, under the lock, the challenge is not burned.  No
\* other thread changes the quorum's own flags.
ApproveStart(q, v, a, act) ==
  /\ job[q] = Idle
  /\ a \in minted
  /\ quorum[q].status = "open"
  /\ NotBurned(a.challenge)
  /\ job' = [job EXCEPT ![q] =
       [pc |-> "checked", verifier |-> v, assertion |-> a, action |-> act, last |-> 0]]
  /\ UNCHANGED <<deviceVars, lastSeen, inFlight, burned, quorum, records, overlapped>>

\* verify_assertion passes the stored sign count to the check ...
ReadSignCount(q) ==
  /\ job[q].pc = "checked"
  /\ job' = [job EXCEPT ![q].pc = "counted",
                        ![q].last = lastSeen[job[q].verifier][job[q].assertion.key]]
  /\ UNCHANGED <<deviceVars, lastSeen, inFlight, burned, quorum, records, overlapped>>

\* ... and stores the assertion's own count after it.
VerifyAssertion(q) ==
  LET a == job[q].assertion IN
  /\ job[q].pc = "counted"
  /\ a.count > job[q].last
  /\ lastSeen' = [lastSeen EXCEPT ![job[q].verifier][a.key] = a.count]
  /\ job' = [job EXCEPT ![q].pc = "verified"]
  /\ UNCHANGED <<deviceVars, inFlight, burned, quorum, records, overlapped>>

VerifyRefused(q) ==
  /\ job[q].pc = "counted"
  /\ job[q].assertion.count <= job[q].last
  /\ job' = [job EXCEPT ![q] = Idle]
  /\ UNCHANGED <<deviceVars, lastSeen, inFlight, burned, quorum, records, overlapped>>

\* Mutant of BindsAction: the digest in the signed client data is not compared.
BindsNothing(a, act) == TRUE

BindsAction(a, act) == a.key \in BindingKeys => a.action = act

NotCounted(q, k) == \A x \in quorum[q].approvals : x.assertion.key # k

\* _claim_challenge_in_flight: by the first approval that gets this far
MayClaim(q, ch) == quorum[q].action = None => inFlight[ch] \in {None, q}

\* Every later approval is for the bound action and challenge.
MatchesBinding(q, a, act) ==
  quorum[q].action # None => act = quorum[q].action /\ a.challenge = quorum[q].challenge

CanRecord(q, a, act) ==
  /\ BindsAction(a, act)
  /\ NotCounted(q, a.key)
  /\ MayClaim(q, a.challenge)
  /\ MatchesBinding(q, a, act)
  /\ Cardinality(quorum[q].approvals) < Capacity[q]

\* Mutant of WithApproval: the approval is counted, its challenge not kept.
Counted(q, a, act) ==
  [quorum[q] EXCEPT !.action = act, !.approvals = @ \cup {[assertion |-> a, action |-> act]}]

WithApproval(q, a, act) ==
  [quorum[q] EXCEPT !.action = act, !.challenge = a.challenge,
                    !.approvals = @ \cup {[assertion |-> a, action |-> act]}]

\* The rest of approve: one critical section and the quorum's own fields.
RecordApproval(q) ==
  LET a == job[q].assertion act == job[q].action IN
  /\ job[q].pc = "verified"
  /\ CanRecord(q, a, act)
  /\ inFlight' = [inFlight EXCEPT ![a.challenge] = IF quorum[q].action = None THEN q ELSE @]
  /\ quorum' = [quorum EXCEPT ![q] = WithApproval(q, a, act)]
  /\ job' = [job EXCEPT ![q] = Idle]
  /\ UNCHANGED <<deviceVars, lastSeen, burned, records, overlapped>>

\* QuorumError after verification: the sign count stays used.
ApproveRefused(q) ==
  /\ job[q].pc = "verified"
  /\ ~CanRecord(q, job[q].assertion, job[q].action)
  /\ job' = [job EXCEPT ![q] = Idle]
  /\ UNCHANGED <<deviceVars, lastSeen, inFlight, burned, quorum, records, overlapped>>

-----------------------------------------------------------------------------
(* abandon and finalize *)

\* Mutant of Released: the quorum keeps its challenge.
KeptBy(q) == inFlight

\* _release_challenge_in_flight
Released(q) == [ch \in Challenges |-> IF inFlight[ch] = q THEN None ELSE inFlight[ch]]

Abandon(q) ==
  /\ job[q] = Idle
  /\ quorum[q].status = "open"
  /\ quorum' = [quorum EXCEPT ![q].status = "abandoned"]
  /\ inFlight' = Released(q)
  /\ UNCHANGED <<deviceVars, lastSeen, burned, job, records, overlapped>>

IsSatisfied(q) ==
  /\ Cardinality(quorum[q].approvals) >= Required[q]
  /\ \A x, y \in quorum[q].approvals :
       x.action = y.action /\ x.assertion.challenge = y.assertion.challenge

\* Quorums whose approve over ch is past the burned check.
Approving(ch) ==
  {q \in Quorums : /\ job[q].pc \in {"checked", "counted", "verified"}
                   /\ job[q].assertion.challenge = ch}

\* finalize signs the record and burns the challenge ...
FinalizeBurn(q) ==
  /\ job[q] = Idle
  /\ quorum[q].status = "open"
  /\ IsSatisfied(q)
  /\ burned' = burned \cup {quorum[q].challenge}
  /\ overlapped' = overlapped \cup {ch \in {quorum[q].challenge} : Approving(ch) # {}}
  /\ job' = [job EXCEPT ![q] = [pc |-> "burned"]]
  /\ UNCHANGED <<deviceVars, lastSeen, inFlight, quorum, records>>

\* ... then releases it, seals the quorum and returns the record.
FinalizeSeal(q) ==
  /\ job[q].pc = "burned"
  /\ inFlight' = Released(q)
  /\ quorum' = [quorum EXCEPT ![q].status = "finalized"]
  /\ records' = records \cup
       {[quorum |-> q, action |-> quorum[q].action, challenge |-> quorum[q].challenge,
         approvals |-> quorum[q].approvals]}
  /\ job' = [job EXCEPT ![q] = Idle]
  /\ UNCHANGED <<deviceVars, lastSeen, burned, overlapped>>

Next ==
  \/ \E k \in Keys, ch \in Challenges, act \in Actions \cup {None} : CreateAssertion(k, ch, act)
  \/ \E q \in Quorums, v \in Verifiers, a \in minted, act \in Actions : ApproveStart(q, v, a, act)
  \/ \E q \in Quorums :
       \/ ReadSignCount(q) \/ VerifyAssertion(q) \/ VerifyRefused(q)
       \/ RecordApproval(q) \/ ApproveRefused(q)
       \/ Abandon(q) \/ FinalizeBurn(q) \/ FinalizeSeal(q)

Spec == Init /\ [][Next]_vars

-----------------------------------------------------------------------------
(* Properties *)

Jobs ==
  {Idle, [pc |-> "burned"]} \cup
  [pc: {"checked", "counted", "verified"}, verifier: Verifiers, assertion: Assertions,
   action: Actions, last: Nat]

\* Every variable stays in its range, and a quorum has an action exactly when
\* it has a challenge and an approval.
TypeOK ==
  /\ deviceCount \in [Keys -> Nat]
  /\ minted \subseteq Assertions
  /\ lastSeen \in [Verifiers -> [Keys -> Nat]]
  /\ inFlight \in [Challenges -> Quorums \cup {None}]
  /\ burned \subseteq Challenges
  /\ quorum \in [Quorums ->
       [status: {"open", "finalized", "abandoned"}, action: Actions \cup {None},
        challenge: Challenges \cup {None}, approvals: SUBSET Approvals]]
  /\ job \in [Quorums -> Jobs]
  /\ records \subseteq Records
  /\ overlapped \subseteq Challenges
  /\ \A q \in Quorums :
       /\ quorum[q].action = None <=> quorum[q].challenge = None
       /\ quorum[q].action = None <=> quorum[q].approvals = {}

Live(q) == quorum[q].status = "open" /\ quorum[q].challenge # None

\* The in-flight registry holds exactly the challenges of the live quorums that
\* have an approval: two of them never share one, and none outlives its quorum
\* (abandon and finalize release whatever approve claimed).
RegistryIsExact ==
  \A q \in Quorums, ch \in Challenges :
    inFlight[ch] = q <=> Live(q) /\ quorum[q].challenge = ch

\* A record is earned: m distinct credentials signed its challenge, and those
\* that can sign the action signed its action, however many quorums shared
\* their assertions and verifiers.
RecordsAreEarned ==
  \A r \in records :
    /\ Cardinality({x.assertion.key : x \in r.approvals}) >= Required[r.quorum]
    /\ \A x \in r.approvals :
         /\ x.assertion \in minted /\ x.assertion.challenge = r.challenge
         /\ x.assertion.key \in BindingKeys => x.assertion.action = r.action

\* A challenge serves one quorum, unless an approve over it was already past the
\* burned check when finalize burned it: the registry and the ledger leave no
\* other gap, however quorums are abandoned and challenges handed out again.
OneQuorumPerChallenge ==
  \A r, s \in records :
    r.challenge = s.challenge /\ r.challenge \notin overlapped => r.quorum = s.quorum

\* "a reused challenge can never satisfy a second quorum for a different action"
\* within one process (the module docstring of stepup.py).
OneActionPerChallenge ==
  \A r, s \in records : r.challenge = s.challenge => r.action = s.action
=============================================================================
