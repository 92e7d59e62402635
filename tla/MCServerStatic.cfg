\* A configured server, two consoles acting at once, room for a second thread.
CONSTANTS
  Threads = {t1, t2}
  Callers = {c1, c2}
  Sessions = {s1, s2}
  NoId = NoId
  NoThread = NoThread
  Dynamic = FALSE
  FailMax = 1
  MaxCalls = 2
  InsertFaults = TRUE
SPECIFICATION FairThreadSpec
INVARIANTS
  TypeOK
  OneThread
  LookupOwned
  DisabledUnregistered
PROPERTIES
  StopCompletes
  KeepsReconnecting
