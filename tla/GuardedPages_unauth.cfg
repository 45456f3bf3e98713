\* About answered with a 401: does it send the user to /login?
CONSTANTS
  Slots = {s1, s2}
  Free = Free
  Pages <- MCAboutPage
  ErrorCarriesData <- MCEitherData
  UsersAtStart <- MCEitherUsers
  MaxExpiries = 1
  MaxNav = 3
SPECIFICATION Spec
PROPERTY UnauthRedirectsToLogin
