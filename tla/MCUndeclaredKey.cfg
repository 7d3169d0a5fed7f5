SPECIFICATION Spec
CONSTANTS
  Precision = 4
  Infinity = 9
  BoundsOfA = {}
  Schemas <- MCSchemas
  Documents <- MCDocuments
INVARIANT EveryValidDocumentStaysReadable
CHECK_DEADLOCK FALSE
