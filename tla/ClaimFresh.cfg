CONSTANTS
  Peer = {alice}
  Operator = operator
  Key = {}
  None = None
  MaxMsg = 2
  MaxRemove = 1
SPECIFICATION Spec
INVARIANT FreshIdentityCanReceive
