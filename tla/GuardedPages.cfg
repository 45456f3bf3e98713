CONSTANTS
  Slots = {s1, s2}
  Free = Free
  Pages <- MCRedirecting
  ErrorCarriesData <- MCEitherData
  UsersAtStart <- MCEitherUsers
  MaxExpiries = 1
  MaxNav = 3
SPECIFICATION Spec
INVARIANT TypeOK
INVARIANT ErrorNeverShown
INVARIANT SlaTableOrdered
