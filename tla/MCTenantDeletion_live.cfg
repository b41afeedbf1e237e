SPECIFICATION FairSpec
CONSTANTS
  q1 = q1
  w1 = w1
  w2 = w2
  Request = {q1}
  Worker <- MCWorker
  Caller = {c1}
  NoReq = NoReq
  MaxDeliver = 2
  MaxNaks = 0
  MaxFaults = 1
CHECK_DEADLOCK FALSE
PROPERTY TeardownProgresses
