SPECIFICATION Spec
CONSTANTS
  Duration = 3
  Countdown = 2
  Lag = 1
  PauseIn = {"RoundActive"}
  RestartIn = {"RoundActive"}
  MaxNow = 15
  MaxPauses = 2
INVARIANTS
  LockTimeExact
  PauseKeepsTime
  RecordsAgree
PROPERTY
  LaterLockNeverFaster
CHECK_DEADLOCK FALSE
