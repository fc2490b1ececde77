SPECIFICATION Spec
CONSTANTS
  MaxMissions = 2
  PlanLength = 1
  MissionTypes = {"repository"}
  Dependencies <- MCDependencies
  Runtimes <- MCRuntimes
  Sensitive <- MCSensitive
  AttemptBudgets = {1}
  Conversations = {TRUE}
  MaxAttempts = 2
  Moves = {"running", "completed", "failed"}
  MaxCrashes = 0
  Rooms = {4}
PROPERTIES
  CancelledStays
