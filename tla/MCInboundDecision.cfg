SPECIFICATION Spec
CONSTANTS
  Messages = {m1}
  Handlers = {h1, h2}
  Workers = {w1, w2}
  NoMessage = NoMessage
  MaxAttempts = 2
  MaxMoves = 1
  MaxFaults = 2
INVARIANTS IInv RecordsTellWhatHappened
PROPERTIES JobsAreDecided MessagesAreDecided
CHECK_DEADLOCK FALSE
