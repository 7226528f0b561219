SPECIFICATION Spec
CONSTANTS
  Observations = {o1, o2}
  Handlers = {h1, h2}
  Operations = {p1}
  TransitionIds <- MCTransitionIds
  ExpectedVersions <- MCExpectedVersions
  NoTransition = NoTransition
  AnyVersion = AnyVersion
  Conflict = Conflict
  NotLogged = NotLogged
  NoObservation = NoObservation
  FromPrevious = FromPrevious
  MaxFaults = 1
INVARIANTS IInv OnlyReleaseEndsTakeover ChangesAnnouncedUnlessFailed
PROPERTIES TakeoverAppliesOnce TakeoverHonoured
CHECK_DEADLOCK FALSE
