SPECIFICATION PlannerSpec
CONSTANTS
  fields = fields
  fam = fam
  m1 = m1
  Families <- MCFamilies
  Versions = {1, 2, 3, 4}
  Revisions = {1}
  FieldLists <- MCFieldLists
  NaNFieldLists = {}
  MigrationNames = {m1}
  Offered <- MCOffered
  MaxMigrations = 4
INVARIANT PlannerTypeOK
INVARIANT BacktrackingIsExact
INVARIANT BfsFindsShortestLength
INVARIANT TargetMetOnlyAtFullDepth
INVARIANT SearchesAgree
PROPERTY KeepsPromise
PROPERTY CallReturns
CHECK_DEADLOCK FALSE
