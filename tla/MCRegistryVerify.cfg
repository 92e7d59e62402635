\* A dialler and the registry thread, and one pod that moves between two
\* addresses.
CONSTANTS
  Pods = {p}
  Ips = {a, b}
  Servers = {s1}
  RegistryThread = registry
  Dialers = {d}
  Consoles = {}
  Unloader = unloader
  NoPod = nopod
  NoIp = noip
  NoServer = noserver
  Ttl = 1
  MaxDelay = 1
  MaxEndpoints = 1
  MaxCalls = 1
SPECIFICATION RegSpec
VIEW RegView
SYMMETRY RegSymmetry
PROPERTY
  VerifiedAddressDialled
