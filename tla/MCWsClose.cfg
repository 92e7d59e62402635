CONSTANTS
  Server = server
  Legs = {l1}
  NoThread = nothread
  MaxOpens = 2
  MaxTxns = 3
  MaxEvents = 2
SPECIFICATION WsSpec
INVARIANT NoFreedContext
