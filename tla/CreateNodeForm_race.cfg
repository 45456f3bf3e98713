CONSTANTS
  Names <- MCNames
  TakenNames <- MCTakenNames
  Ips <- MCIps
  TakenIps <- MCTakenIps
  MaxEdits = 5
SPECIFICATION Spec
PROPERTY AsyncFieldsChecked
\* createNode leaves the page: the form has no step after it.
CHECK_DEADLOCK FALSE
