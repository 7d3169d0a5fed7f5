SPECIFICATION Spec
CONSTANTS
  Precision = 4
  Infinity = 9
  BoundsOfA = {}
  Schemas <- MCSchemas
  Documents <- MCDocuments
INVARIANT StoredStaysReadable
INVARIANT CompatibilityIsTransitive
INVARIANT EnvelopeIsConjunction
INVARIANT EveryEffectIsShown
INVARIANT ImpactIsBorneOut
INVARIANT IssuesLocateFaults
CHECK_DEADLOCK FALSE
