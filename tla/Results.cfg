SPECIFICATION Spec
CONSTANTS
  People = {1, 2, 3, 4}
  Planned = 2
  Starts <- MCStarts
  OutcomesOf <- MCOutcomes
  ReplayOf <- MCReplay
  TieRows <- MCTieRows
  CorrectOrder <- MCOrder
  WindowMs = 25000
  MaxSize = 7
  Removable = {1}
  MaxReplays = 1
INVARIANTS
  FairRound
  PodiumIsTopThree
  ReplayStartsClean
PROPERTY
  TieBreakStaysInGroup
CHECK_DEADLOCK FALSE
