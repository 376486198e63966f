SPECIFICATION FairSpec
CONSTANTS
  GameOrder <- MCGameOrder
  RoundCount <- MCRoundCount
  RaceGame = "RLGL"
  TieGame = "ORDER"
  MaxAttempts = 3
  MaxJobs = 2
  MaxCrashes = 1
  Faults = {"late_input"}
PROPERTIES
  ImplementsLifecycle
  LiveRoundEnds
CHECK_DEADLOCK FALSE
