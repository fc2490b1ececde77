SPECIFICATION FairSpec
CONSTANTS
  MaxExecutions = 3
  BatchLimit = 2
  SnapshotLimit = 2
  MaxCrashes = 2
  MaxFailures = 2
INVARIANTS
  StartedAtMostOnce
PROPERTIES
  LedgerSpec
  ApprovedIsServed
  ClaimedEnds
