SPECIFICATION Spec
CONSTANTS
  Observations = {o1}
  Handlers = {h1}
  Operations = {p1}
  TransitionIds <- MCTransitionIds
  ExpectedVersions <- MCExpectedVersions
  NoTransition = NoTransition
  AnyVersion = AnyVersion
  Conflict = Conflict
  NotLogged = NotLogged
  NoObservation = NoObservation
  FromPrevious = FromPrevious
  MaxFaults = 1
INVARIANT ChangesAreAnnounced
CHECK_DEADLOCK FALSE
