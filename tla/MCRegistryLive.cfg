\* The registry thread and the unload, under fairness.  Nobody dials.
CONSTANTS
  Pods = {p}
  Ips = {a, b}
  Servers = {s1, s2}
  RegistryThread = registry
  Dialers = {}
  Consoles = {}
  Unloader = unloader
  NoPod = nopod
  NoIp = noip
  NoServer = noserver
  Ttl = 1
  MaxDelay = 0
  MaxEndpoints = 1
  MaxCalls = 1
SPECIFICATION FairRegSpec
INVARIANTS
  UnloadStopsThreads
PROPERTIES
  PodServed
  GoneEvicted
  UnloadCompletes
