\* A gated leg, answered on the SDP answer or on webrtcup.
CONSTANTS
  Self = me
  Remotes = {p1}
  NoParticipant = NoParticipant
  Gated = TRUE
  Timeout = 2
  MaxClock = 4
SPECIFICATION FairGateSpec
INVARIANTS
  GateTypeOK
  AnsweredOnce
  GateHolds
  NoLostAnswer
PROPERTIES
  NotWedged
CHECK_DEADLOCK FALSE
