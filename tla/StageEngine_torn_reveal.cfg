SPECIFICATION Spec
CONSTANTS
  GameOrder <- MCGameOrder
  RoundCount <- MCRoundCount
  RaceGame = "RLGL"
  TieGame = "ORDER"
  MaxAttempts = 2
  MaxJobs = 2
  MaxCrashes = 1
  Faults = {"torn"}
INVARIANT
  RevealHasScores
CHECK_DEADLOCK FALSE
