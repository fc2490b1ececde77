SPECIFICATION FairSpec
CONSTANTS
  MaxMissions = 2
  PlanLength = 1
  MissionTypes = {"repository"}
  Dependencies <- MCDependencies
  Runtimes <- MCRuntimes
  Sensitive <- MCSensitive
  AttemptBudgets = {2}
  Conversations = {TRUE}
  MaxAttempts = 2
  Moves = {"running", "completed", "failed"}
  MaxCrashes = 1
  Rooms = {1}
PROPERTIES
  
  LifecycleSpec
