SPECIFICATION SemanticSpec
CONSTANTS
  a = a
  b = b
  other = other
  c = c
  d = d
  measures = measures
  Names = {a, b, other}
  Concepts = {c, d}
  Relations = {measures}
  Permissible <- MCPermissible
  Semantics <- MCSemantics
  Schemas <- MCSchemas
  Documents <- MCDocuments
  MaxMoves = 2
INVARIANT SemanticTypeOK
INVARIANT ReportIsJustified
INVARIANT PermittedEndsAreKnown
PROPERTY KeepsPromise
PROPERTY CallReturns
CHECK_DEADLOCK FALSE
