CONSTANTS
  Slots = {s1, s2}
  Free = Free
  Pages <- MCOnePage
  ErrorCarriesData <- MCEitherData
  UsersAtStart <- MCEitherUsers
  MaxExpiries = 1
  MaxNav = 3
SPECIFICATION Spec
PROPERTY SignUpOnlyWithoutUsers
