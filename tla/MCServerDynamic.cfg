\* A server of the registry, which evicts itself after three failures; its
\* Janus may stop answering for ever.
CONSTANTS
  Threads = {t1, t2}
  Callers = {c1}
  Sessions = {s1, s2}
  NoId = NoId
  NoThread = NoThread
  Dynamic = TRUE
  FailMax = 3
  MaxCalls = 2
  InsertFaults = TRUE
SPECIFICATION UnreachableSpec
INVARIANTS
  OneThread
  LookupOwned
PROPERTIES
  UnregisteredEvicted
