\* The server thread and one leg, two connections, two events.  A transaction
\* counts while a trace of it is left: with two, the late reply to one is still
\* on its way while another is open.
CONSTANTS
  Server = server
  Legs = {l1}
  NoThread = nothread
  MaxOpens = 2
  MaxTxns = 2
  MaxEvents = 2
SPECIFICATION FairWsSpec
INVARIANTS
  WsTypeOK
  SerialRequests
  OvertakenOnlyNested
PROPERTIES
  ImplementsChannel
  RequestReturns
  EventsHandled
