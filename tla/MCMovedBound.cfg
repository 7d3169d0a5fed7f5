SPECIFICATION Spec
CONSTANTS
  Precision = 4
  Infinity = 9
  BoundsOfA = {}
  Schemas <- MCSchemas
  Documents <- MCDocuments
INVARIANT MovedBoundIsShown
CHECK_DEADLOCK FALSE
