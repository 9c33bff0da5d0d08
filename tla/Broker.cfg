CONSTANTS
  alice = alice
  bob = bob
  operator = operator
  m1 = m1
  k1 = k1
  s1 = s1
  s2 = s2
  d1 = d1
  d2 = d2
  d3 = d3
  d4 = d4
  c1 = c1
  v1 = v1
  Null = Null
SPECIFICATION Spec
CHECK_DEADLOCK FALSE
INVARIANTS
  WaitIsBounded
  SchedulesAreKept
  LedgerLocalizesDamage
  AwardIsWhatTheEvidenceShows
PROPERTIES
  DeadLettersAreSafe
  ThreadsAreSound
