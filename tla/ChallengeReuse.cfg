\* A quorum passes the burned check, waits while another finalizes over the same challenge, and then claims it.
SPECIFICATION Spec
CONSTANTS
  q1 = q1
  q2 = q2
  hard = hard
  Quorums = {q1, q2}
  Required <- MCOnes
  Capacity <- MCCapacity
  Keys = {soft, hard}
  BindingKeys = {soft}
  Verifiers = {v1}
  Challenges = {c1, c2}
  Actions = {a1, a2}
  MaxCount <- MCCounts
  None = None
CHECK_DEADLOCK FALSE
INVARIANTS OneActionPerChallenge
