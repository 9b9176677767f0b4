SPECIFICATION FairSpec
CONSTANTS
  Ids = {r1, r2}
  Names = {h1}
  None = None
  FaultSets = {{"outage", "partial", "extern"}}
  MaxTickets = 1
  MaxEvents = 3
CHECK_DEADLOCK FALSE
PROPERTIES
  Settles
