SPECIFICATION Spec
CONSTANTS
  Hard = 2
  SelfService = 1
  MaxManual = 1
PROPERTIES
  ResizesUnderSnapshot
