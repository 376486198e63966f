SPECIFICATION Spec
CONSTANTS
  GameCount = 2
  RoundCount = 2
  LastStep = 2
  EmptySteps = {1}
  PageCount = 2
  MaxAttempts = 4
  MaxSent = 2
  MaxDesks = 2
  Marks = {a, b}
  Dealt = a
  None = None
  MaxTaps = 2
  MaxBreaks = 1
  MaxUnderWay = 2
  Racers = {r1, r2}
  MaxRaces = 2
  MaxReloads = 1
  MaxMessages = 2
INVARIANTS
  PrimaryAccepted
  LastTapKept
  AnnouncedOnce
  PagesAgree
PROPERTIES
  StalePressHarmless
  HostAbsencePauses
  StrayHoldEnds
CHECK_DEADLOCK FALSE
