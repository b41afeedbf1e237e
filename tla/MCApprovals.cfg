SPECIFICATION ApprovalsFairSpec
CONSTANTS
  q1 = q1
  q2 = q2
  a1 = a1
  a2 = a2
  a3 = a3
  w1 = w1
  w2 = w2
  n = n
  Request = {q1, q2}
  Actor = {a1, a2, a3}
  Sweeper = {w1, w2}
  PlatformOps = {a1, a2}
  NoActor = n
  Policy <- MCPolicy
CHECK_DEADLOCK FALSE
INVARIANTS ApprovalsTypeOK OneOutcome NoSelfDecision
PROPERTIES ContractSpec PendingSettles
