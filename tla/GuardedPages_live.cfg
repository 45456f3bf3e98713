CONSTANTS
  Slots = {s1, s2}
  Free = Free
  Pages <- MCLivePages
  ErrorCarriesData <- MCEitherData
  UsersAtStart <- MCEitherUsers
  MaxExpiries = 1
  MaxNav = 2
SPECIFICATION Spec
PROPERTY AccountMenuShowsUser
PROPERTY CertificateEventuallyListed
