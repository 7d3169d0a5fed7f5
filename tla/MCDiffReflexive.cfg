SPECIFICATION Spec
CONSTANTS
  Precision = 4
  Infinity = 9
  BoundsOfA <- MCNaNBounds
  Schemas <- MCSchemas
  Documents <- MCDocuments
INVARIANT DiffIsReflexive
CHECK_DEADLOCK FALSE
