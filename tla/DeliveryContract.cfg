CONSTANTS
  bob = bob
  m1 = m1
  m2 = m2
  Null = Null
  Session <- OneSession
  Message <- TwoMessages
  Request <- Question
  MaxEpoch = 2
  MaxLogical = 1
  maxAttempts = 2
  maxBackoff = 0
  ackDeadline = 1
  injectionTtl = 1
  retention = 2
SPECIFICATION Spec
SYMMETRY MessageSymmetry
INVARIANTS
  DeliveriesAreSound
PROPERTIES
  ImplementsContract
