CONSTANTS
  alice = alice
  bob = bob
  carol = carol
  api = api
  auto = auto
  team = team
  p1 = p1
  Null = Null
  BadName = BadName
  Session <- People
  Name = {api}
  Alias = {auto, team}
  AutoAlias <- OneAutoAlias
  Pid = {p1}
  MaxConn = 3
  World <- TwoWorlds
SPECIFICATION Spec
SYMMETRY Symmetry
CHECK_DEADLOCK FALSE
INVARIANTS
  NamesAreSound
PROPERTIES
  ReclaimSparesRunningOwner
  NamesAreKept
