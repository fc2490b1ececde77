SPECIFICATION Spec
CONSTANTS
  boot = boot
  admin = admin
  operator = operator
  w1 = w1
  w2 = w2
  hub = hub
  t1 = t1
  KeyIds = {boot, admin, operator}
  Bootstrap = boot
  Role <- MCRole
  Scope <- MCScope
  Workspaces = {w1, w2}
  Services = {s1}
  Others = {hub, e1}
  Parts = {t1, t2}
  Seeds = {hub}
  Catalog <- MCCatalog
  Projects = {p1, dp}
  Conversations = {c1, dc}
  DefaultWorkspace = w2
  DefaultProject = dp
  DefaultConversation = dc
  Nobody = Nobody
  MaxMessages = 2
  Slots = {q1, q2}
  Idle = Idle
  MaxRequests = 3
  MaxFailures = 2
  MaxCrashes = 2
SYMMETRY Symmetry
CHECK_DEADLOCK FALSE
INVARIANTS
  TypeOK
  AdminRemains
  RevokedStaysRevoked
  AcknowledgedKept
  GrantsDeclared
  ConversationsAtHome
PROPERTIES
  RevokedOnlyFinishes
  ScopedChanges
