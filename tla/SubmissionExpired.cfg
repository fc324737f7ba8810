SPECIFICATION Spec
CONSTANTS
  Operations = {Rival, Transfer}
  Relayed = {Rival}
  Sharing = {{Rival, Transfer}}
  Calls = {First, Second}
  None = None
  Lifetime = 1
  MaxHeight = 2
INVARIANT ExpiredIsUnpaid
CHECK_DEADLOCK FALSE
