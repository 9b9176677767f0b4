SPECIFICATION Spec
CONSTANTS
  Disks = {vda, vdb}
  MaxSerial = 4
  MaxManual = 3
  FaultSets = {{"fail", "late"}, {"fail", "late", "double", "crash", "bottom"}}
CHECK_DEADLOCK FALSE
SYMMETRY Symmetry
INVARIANTS
  TypeOK
  ManualIntact
  ActiveCanRollBack
  VMChainComplete
  DeletionIsComplete
PROPERTIES
  RemovesOnlyUnused
