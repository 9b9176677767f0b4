SPECIFICATION Spec
CONSTANTS
  Ids = {r1, r2, r3}
  Names = {h1, h2}
  None = None
  FaultSets = {{}, {"crash", "outage", "partial", "extern"}}
  MaxTickets = 1
  MaxEvents = 3
CHECK_DEADLOCK FALSE
SYMMETRY Symmetry
INVARIANTS
  TypeOK
  ExclusiveNames
  CleanupAlone
  OwnVM
  NoOrphanVM
PROPERTIES
  ImplementsBook
