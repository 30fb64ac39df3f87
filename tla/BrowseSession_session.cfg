SPECIFICATION SessionSpec
CONSTANTS
  Notes = {n1, n2}
  Mandatory = {n1}
  Nobody = Nobody
  MaxQueue = 1
  MaxRedrives = 1
  MaxStalls = 1
  MaxTries = 1
  MaxStarts = 2
INVARIANTS
  HoldsHaveOwners
  WillResume
PROPERTY HoldsEnd
CHECK_DEADLOCK FALSE
