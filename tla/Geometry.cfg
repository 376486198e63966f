SPECIFICATION Spec
CONSTANTS
  Geometries <- MCGeometries
  Pins <- MCPins
INVARIANT InsideIsInside
CHECK_DEADLOCK FALSE
