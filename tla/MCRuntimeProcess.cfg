SPECIFICATION FairSpec
CONSTANTS
  MaxCalls = 2
  OutputLimit = 1
INVARIANTS
  SuccessIsWhole
  LivingIsTimed
PROPERTIES
  ChildEnds
  PromiseSettles
CHECK_DEADLOCK FALSE
