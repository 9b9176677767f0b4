SPECIFICATION Spec
CONSTANTS
  Disks = {vda}
  MaxSerial = 3
  MaxManual = 1
  FaultSets = {{"bottom"}}
CHECK_DEADLOCK FALSE
PROPERTIES
  CommitsIntoBase
