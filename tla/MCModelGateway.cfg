SPECIFICATION Spec
CONSTANTS
  c1 = c1
  c2 = c2
  c3 = c3
  Requests = {r1, r2, r3}
  Candidates = {c1, c2, c3}
  Route <- MCRoute
  Missing = {c2}
  Keys = 2
  MaxRetries = 1
  MaxConcurrent = 2
  Threshold = 2
INVARIANTS GatewayInv ProbesAreAlone ReliableCandidateAnswers
CHECK_DEADLOCK FALSE
PROPERTY RequestsEnd
