SPECIFICATION Spec
CONSTANTS
  MaxMissions = 2
  PlanLength = 2
  MissionTypes = {"repository"}
  Dependencies <- MCDependencies
  Runtimes <- MCRuntimes
  Sensitive <- MCSensitive
  AttemptBudgets = {2}
  Conversations = {TRUE}
  MaxAttempts = 2
  Moves = {"approved", "running", "completed", "failed"}
  MaxCrashes = 1
  Rooms = {2}
INVARIANTS
  ApprovalGate
  NoUntrackedWork
