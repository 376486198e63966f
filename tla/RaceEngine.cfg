SPECIFICATION Spec
CONSTANTS
  Players = {p1, p2}
  Tolerance = 1
  Timeout = 2
  Track = 2
  Speed = 1
  TickGap = 1
  MaxNow = 4
  MaxPauses = 1
INVARIANTS
  GreenOnly
  ActiveTimeExact
PROPERTIES
  ToleranceRespected
  NoStaleKill
  FatesFinal
SYMMETRY MCSymmetry
CHECK_DEADLOCK FALSE
