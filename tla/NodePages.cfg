\* Node's view refines Snapshot across the router, with lossy fetches,
\* a session that may expire and 401s with or without data.
CONSTANTS
  Slots = {s1, s2}
  Free = Free
  Empty = Empty
  ErrorCarriesData <- MCErrorAnyData
  LossyRequests <- MCAllLossy
  AuthedAtStart <- MCAuthedAtStart
  MaxExpiries = 1
  MaxNav = 3
SPECIFICATION Spec
INVARIANT TypeOK
PROPERTY NodeRefinement
\* The app is idle on a page without timers once the user stops.
CHECK_DEADLOCK FALSE
