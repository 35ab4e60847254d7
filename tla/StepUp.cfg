\* A one-of-two and a two-of-two quorum share a challenge ledger, a verifier and two credentials, one of which signs the action.
SPECIFICATION Spec
CONSTANTS
  q1 = q1
  q2 = q2
  hard = hard
  Quorums = {q1, q2}
  Required <- MCRequired
  Capacity <- MCCapacity
  Keys = {soft, hard}
  BindingKeys = {soft}
  Verifiers = {v1}
  Challenges = {c1, c2}
  Actions = {a1, a2}
  MaxCount <- MCCounts
  None = None
SYMMETRY Symmetry
INVARIANTS TypeOK RegistryIsExact RecordsAreEarned OneQuorumPerChallenge
CHECK_DEADLOCK FALSE
