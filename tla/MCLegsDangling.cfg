\* A leg whose hangup handler finds no server.
CONSTANTS
  Threads = {t1}
  Callers = {}
  Sessions = {s1, s2, s3}
  NoId = NoId
  NoThread = NoThread
  Dynamic = FALSE
  FailMax = 2
  MaxCalls = 2
  InsertFaults = FALSE
  Legs = {l1, l2}
SPECIFICATION CallSpec
SYMMETRY LegSymmetry
INVARIANT
  NoDanglingSession
CHECK_DEADLOCK FALSE
