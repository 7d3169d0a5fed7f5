SPECIFICATION ExecutionSpec
CONSTANTS
  fA = fA
  fB = fB
  nan = nan
  dA = dA
  dB = dB
  dC = dC
  fam = fam
  m1 = m1
  Families <- MCFamilies
  Versions = {1, 2, 3}
  Revisions = {1, 2}
  FieldLists = {fA, fB, nan}
  NaNFieldLists = {nan}
  MigrationNames = {m1}
  Offered <- MCOffered
  MaxMigrations = 3
  Documents = {dA, dB, dC}
  NoDocument = NoDocument
  Outcome <- MCOutcome
INVARIANT TypeOK
INVARIANT EndsRecorded
INVARIANT OneStructurePerNode
INVARIANT ExecutionTypeOK
INVARIANT OutputFitsTarget
INVARIANT TransformInputFits
INVARIANT InputFailsOnlyAtFirstHop
PROPERTY RejectionIsFinal
PROPERTY KeepsPromise
PROPERTY CallReturns
CHECK_DEADLOCK FALSE
