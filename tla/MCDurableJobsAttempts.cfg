SPECIFICATION Spec
CONSTANTS
  Jobs = {j1}
  Workers = {w1, w2}
  Nobody = Nobody
  NoJob = NoJob
  MaxAttempts = 2
  MaxFaults = 2
INVARIANT BoundedAttempts
