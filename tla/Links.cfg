CONSTANTS
  c1 = c1
  c2 = c2
  c3 = c3
  c4 = c4
  r1 = r1
  r2 = r2
  r3 = r3
  r4 = r4
  k1 = k1
  k2 = k2
  eagerly = eagerly
  h1 = h1
  h2 = h2
  m1 = m1
SPECIFICATION Spec
CHECK_DEADLOCK FALSE
INVARIANTS
  FramesAreDispatched
  LinkIsSound
  ToolCallsAreSound
PROPERTIES
  StopIsHonest
