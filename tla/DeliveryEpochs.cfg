CONSTANTS
  bob = bob
  m1 = m1
  m2 = m2
  Null = Null
  Session <- OneSession
  Message <- OneMessage
  Request <- AnyResponse
  MaxEpoch = 2
  MaxLogical = 2
  maxAttempts = 2
  maxBackoff = 1
  ackDeadline = 1
  injectionTtl = 2
  retention = 3
SPECIFICATION Spec
INVARIANTS
  BodyShownAtMostOnce
  OwedWorkIsActionable
  RetryBudget
PROPERTIES
  SupersededEpochIsFrozen
  TombstoneNeedsResume
