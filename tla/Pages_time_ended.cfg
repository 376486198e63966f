SPECIFICATION Spec
CONSTANTS
  GameCount = 2
  RoundCount = 2
  LastStep = 2
  EmptySteps = {1}
  PageCount = 2
  MaxAttempts = 1
  MaxSent = 1
  MaxDesks = 1
  Marks = {a, b}
  Dealt = a
  None = None
  MaxTaps = 1
  MaxBreaks = 0
  MaxUnderWay = 2
  Racers = {r1, r2}
  MaxRaces = 2
  MaxReloads = 1
  MaxMessages = 2
INVARIANT
  AcceptedMeansScored
CHECK_DEADLOCK FALSE
