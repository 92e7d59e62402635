\* Two legs on a server that nobody disables, under fairness.
CONSTANTS
  Threads = {t1}
  Callers = {}
  Sessions = {s1, s2}
  NoId = NoId
  NoThread = NoThread
  Dynamic = FALSE
  FailMax = 1
  MaxCalls = 2
  InsertFaults = FALSE
  Legs = {l1, l2}
SPECIFICATION FairCallSpec
INVARIANTS
  CallTypeOK
  LegOfServedSession
PROPERTIES
  LostLegsEnd
CHECK_DEADLOCK FALSE
