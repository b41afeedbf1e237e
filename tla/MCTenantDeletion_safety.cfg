SPECIFICATION Spec
CONSTANTS
  q1 = q1
  w1 = w1
  w2 = w2
  Request = {q1}
  Worker <- MCWorker
  Caller = {c1, c2}
  NoReq = NoReq
  MaxDeliver = 2
  MaxNaks = 1
  MaxFaults = 2
CHECK_DEADLOCK FALSE
SYMMETRY Perms
INVARIANTS TypeOK TeardownApproved GoneIsClean FrozenIffTracked
