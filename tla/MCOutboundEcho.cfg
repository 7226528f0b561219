SPECIFICATION Spec
CONSTANTS
  Sends = {s1, s2}
  Humans = {h1}
  None = None
  QueueLimits = {1, 2}
  MaxFaults = 1
INVARIANTS EchoInv PeopleAreNeverIgnored OwnEchoesStaySilent
CHECK_DEADLOCK FALSE
PROPERTY ObservationsArrive
