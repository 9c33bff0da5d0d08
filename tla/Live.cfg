CONSTANTS
  bob = bob
  m1 = m1
  m2 = m2
  c1 = c1
  c2 = c2
  r1 = r1
  r2 = r2
  k1 = k1
  k2 = k2
  b1 = b1
  b2 = b2
  b3 = b3
  h1 = h1
  s1 = s1
  red = red
  ada = ada
  ben = ben
  eager = eager
  Null = Null
SPECIFICATION Spec
CHECK_DEADLOCK FALSE
PROPERTIES
  WorkEnds
  CallsEnd
  
  PagesCatchUp
