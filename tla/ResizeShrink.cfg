SPECIFICATION Spec
CONSTANTS
  Hard = 3
  SelfService = 1
  MaxManual = 1
PROPERTIES
  NeverShrinks
