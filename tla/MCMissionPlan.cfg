SPECIFICATION Spec
CONSTANTS
  MaxMissions = 1
  PlanLength = 4
  MissionTypes = {"repository"}
  Dependencies <- MCDependencies
  Runtimes <- MCRuntimes
  Sensitive <- MCSensitive
  AttemptBudgets = {5}
  Conversations = {TRUE,FALSE}
  MaxAttempts = 2
  Moves = {"running", "completed", "failed"}
  MaxCrashes = 2
  Rooms = {1}
INVARIANTS
  TypeOK
  DependencyOrder
  BudgetBoundsExecutions
  EvidenceBacked
  EvidenceRepeatsOnlyByCrash
PROPERTIES
  LifecycleSpec
