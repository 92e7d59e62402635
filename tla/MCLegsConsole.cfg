\* One leg on a server that a console disables and enables, under fairness; an
\* insertion may fail.
CONSTANTS
  Threads = {t1}
  Callers = {c1}
  Sessions = {s1, s2}
  NoId = NoId
  NoThread = NoThread
  Dynamic = FALSE
  FailMax = 2
  MaxCalls = 2
  InsertFaults = TRUE
  Legs = {l1}
SPECIFICATION FairCallSpec
PROPERTIES
  ImplementsServerThread
  DialResolves
CHECK_DEADLOCK FALSE
