SPECIFICATION Spec
CONSTANTS
  Tokens = {good, wrong}
  Valid = {good}
  Nothing = Nothing
  Slots = {s1, s2}
  MaxChanges = 2
  MaxLogins = 1
  MaxMoves = 1
  MaxFailures = 1
CHECK_DEADLOCK FALSE
INVARIANTS
  ScreenRegular
  SessionOfToken
PROPERTIES
  CatchesUp
