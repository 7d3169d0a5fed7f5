SPECIFICATION Spec
CONSTANTS
  Precision = 4
  Infinity = 9
  Schemas <- MCSchemas
  Documents <- MCDocuments
  Lexicographic <- MCLexicographic
  Nesting = 3
  MaxDepth = 2
  MaxStringLen = 8
  MaxCollectionLen = 3
  MaxHops = 3
INVARIANT HashSurvives
INVARIANT ValidOnArrival
INVARIANT LossIsConfinedToFirstHop
INVARIANT AcceptedIsPassedOn
INVARIANT HashTellsDocumentsApart
INVARIANT CanonicalIsIdempotent
INVARIANT OrderDoesNotMatter
CHECK_DEADLOCK FALSE
