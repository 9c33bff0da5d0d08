CONSTANTS
  i1 = i1
  i2 = i2
  d1 = d1
  d2 = d2
SPECIFICATION Spec
CHECK_DEADLOCK FALSE
PROPERTIES
  MigrationIsSafe
  
  ScopeIsSafe
