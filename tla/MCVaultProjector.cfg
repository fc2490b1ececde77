SPECIFICATION Spec
CONSTANTS
  w1 = w1
  w2 = w2
  alice = alice
  bob = bob
  a1 = a1
  m1 = m1
  i1 = i1
  i2 = i2
  Memories = {m1}
  Workspaces = {w1, w2}
  Principals = {alice, bob}
  Home <- MCHome
  Owner <- MCOwner
  Visibility <- MCVisibility
  Records = {a1}
  Index <- MCIndex
  Folder <- MCFolder
  Name <- MCName
  NoDocument = NoDocument
  MaxProjections = 3
  MaxFailures = 1
CHECK_DEADLOCK FALSE
INVARIANTS
  FilesWhole
  VaultRegular
  OnDiskVisible
