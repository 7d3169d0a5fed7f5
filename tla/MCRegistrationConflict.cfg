SPECIFICATION Spec
CONSTANTS
  f1 = f1
  f2 = f2
  nan = nan
  fam = fam
  Families <- MCFamilies
  Versions <- MCVersions
  Revisions <- MCRevisions
  FieldLists <- MCFieldLists
  NaNFieldLists <- MCNaNFieldLists
  MigrationNames = {m1, m2}
  Offered <- MCOffered
  MaxMigrations = 2
INVARIANT ConflictsWithARegisteredSchema
CHECK_DEADLOCK FALSE
