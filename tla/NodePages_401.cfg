\* A 401 with data (the node's status) answered to the mounted dashboard:
\* is there exactly one sign-in redirect?
CONSTANTS
  Slots = {s1, s2}
  Free = Free
  Empty = Empty
  ErrorCarriesData <- MCErrorWithData
  LossyRequests <- MCAllLossy
  AuthedAtStart <- MCAuthedAtStart
  MaxExpiries = 1
  MaxNav = 3
SPECIFICATION Spec
PROPERTY UnauthRedirectsToSignIn
\* The app is idle on a page without timers once the user stops.
CHECK_DEADLOCK FALSE
