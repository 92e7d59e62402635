CONSTANTS
  Self = me
  Remotes = {p1}
  NoParticipant = NoParticipant
  Gated = TRUE
  Timeout = 2
  MaxClock = 4
SPECIFICATION GateSpec
INVARIANT WindowFromAnswerable
CHECK_DEADLOCK FALSE
