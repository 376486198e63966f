SPECIFICATION Spec
CONSTANTS
  GameOrder <- MCGameOrder
  RoundCount <- MCRoundCount
  RaceGame = "RLGL"
  TieGame = "ORDER"
  MaxAttempts = 3
  MaxJobs = 1
  MaxCrashes = 2
  Faults = {"rest_close", "torn", "spent"}
INVARIANTS
  CurrentFollowsCursor
  CountedOnce
CHECK_DEADLOCK FALSE
