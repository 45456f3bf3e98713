\* The installing page hands over once the node is being created.  A 401
\* carries the data here: without it InstallingNode throws on every answer
\* (see NodePages_401.cfg).
CONSTANTS
  Slots = {s1, s2}
  Free = Free
  Empty = Empty
  ErrorCarriesData <- MCErrorWithData
  LossyRequests <- MCAllLossy
  AuthedAtStart <- MCAuthedAtStart
  MaxExpiries = 1
  MaxNav = 2
SPECIFICATION Spec
PROPERTY InstallingHandsOver
\* The app is idle on a page without timers once the user stops.
CHECK_DEADLOCK FALSE
