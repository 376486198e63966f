SPECIFICATION FairSpec
CONSTANTS
  Players = {p1, p2}
  Payloads = {x}
  Scopes = {{}, {p1, p2}}
  MaxAttempts = 2
  MaxInputs = 2
  MaxSize = 3
INVARIANTS
  LockCounts
  EarlyCloseDue
PROPERTIES
  AllLockedCloses
CHECK_DEADLOCK FALSE
