CONSTANTS
  Null = Null
  Stranger = Stranger
  Broker = {b1, b2, b3}
  Client = {c1, c2}
  Version = {1}
  MaxKill = 0
  MaxStop = 1
  Impatient = TRUE
  Host = {b1, b2}
  Stopper = {stop}
  Installer = {setup}
  MaxEnded = 1
  Loader = {p1, p2, p3, p4}
  Forcers = {p1}
  Single = p1
  Pair = {p1, p2}
  Name = {n1, n2, n3}
  PairName = {n1, n2}
  MaxAcks = 7
  MaxPairAcks = 4
  Session = {s1, s2}
  Child = {k1, k2, k3}
  Pid = {p1, p2, p3}
  MaxRestart = 1
  Visible = {s1}
  Hook = {h1, h2}
  Source = {"startup"}
  MaxEpoch = 2
  MaxEnds = 1
  MaxRemoved = 1
  Conn = {1, 2}
  MaxTakeover = 2
  MaxCrash = 1
SPECIFICATION Spec
CHECK_DEADLOCK FALSE
INVARIANTS
  
  StopsOnlyProven
  KillsOnlyItsChild
  ReadyWasSignalled
  ReportsAreTrue
PROPERTIES
  HoldersHoldTheDiskSecret
  SecretFollowsName
  SessionsAreSound
