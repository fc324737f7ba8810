SPECIFICATION FairSpec
CONSTANTS
  Operations = {Rival, Transfer}
  Relayed = {Rival}
  Sharing = {{Rival, Transfer}}
  Calls = {First, Second}
  None = None
  Lifetime = 1
  MaxHeight = 2
INVARIANTS TypeOK ReceiptIsTrue
PROPERTIES ExpiredIsSettled Delivers CallsEnd
CHECK_DEADLOCK FALSE
