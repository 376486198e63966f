SPECIFICATION Spec
CONSTANTS
  People = {p1}
  Bots = {b1}
  MaxAttempts = 2
  MaxCalls = 2
  MaxRuns = 2
  None = None
INVARIANTS
  EnoughGreen
  NoStrayRun
PROPERTIES
  RaceEnds
CHECK_DEADLOCK FALSE
