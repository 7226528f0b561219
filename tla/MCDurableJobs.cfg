SPECIFICATION Spec
CONSTANTS
  Jobs = {j1, j2}
  Workers = {w1, w2}
  Nobody = Nobody
  NoJob = NoJob
  MaxAttempts = 2
  MaxFaults = 2
INVARIANTS IInv OneHolder EndsAreEarned RetriesAreBounded
PROPERTIES ImplementsQueue JobsAreSettled
