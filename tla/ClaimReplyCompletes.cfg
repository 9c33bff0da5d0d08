CONSTANTS
  bob = bob
  m1 = m1
  m2 = m2
  Null = Null
  Session <- OneSession
  Message <- TwoMessages
  Request <- AnyResponse
  MaxEpoch = 1
  MaxLogical = 1
  maxAttempts = 2
  maxBackoff = 0
  ackDeadline = 1
  injectionTtl = 2
  retention = 2
SPECIFICATION Spec
INVARIANTS
  ReplyCompletesOriginal
