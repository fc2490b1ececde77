SPECIFICATION Spec
CONSTANTS
  Missing = Missing
  Torn = Torn
  Garbled = Garbled
  Foreign <- MCForeign
  MaxWrites = 2
  MaxCrashes = 2
  MaxFailures = 3
  MaxRestores = 2
CHECK_DEADLOCK FALSE
INVARIANTS
  ServesExpected
  NothingLost
  EndsWhole
