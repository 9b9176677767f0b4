SPECIFICATION Spec
CONSTANTS
  Ids = {r1, r2}
  Names = {h1}
  None = None
  FaultSets = {{}}
  MaxTickets = 1
  MaxEvents = 3
CHECK_DEADLOCK FALSE
PROPERTIES
  InstallsSelectedKey
