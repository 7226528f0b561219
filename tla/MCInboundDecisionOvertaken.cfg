SPECIFICATION Spec
CONSTANTS
  Messages = {m1}
  Handlers = {h1}
  Workers = {w1}
  NoMessage = NoMessage
  MaxAttempts = 2
  MaxMoves = 1
  MaxFaults = 0
PROPERTY TakeoversStopPendingTurns
CHECK_DEADLOCK FALSE
