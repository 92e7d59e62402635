\* One pod that comes and goes at two addresses while it is dialled, disabled,
\* moved and evicted, with two server_t objects.
CONSTANTS
  Pods = {p}
  Ips = {a, b}
  Servers = {s1, s2}
  RegistryThread = registry
  Dialers = {d}
  Consoles = {c}
  Unloader = unloader
  NoPod = nopod
  NoIp = noip
  NoServer = noserver
  Ttl = 1
  MaxDelay = 1
  MaxEndpoints = 1
  MaxCalls = 1
SPECIFICATION RegSpec
VIEW RegView
SYMMETRY RegSymmetry
INVARIANTS
  RegTypeOK
  OneThreadPerServer
PROPERTIES
  DialedPodAlive
  MovedReverified
