SPECIFICATION Spec
CONSTANTS
  f1 = f1
  f2 = f2
  nan = nan
  fam = fam
  Families <- MCFamilies
  Versions <- MCVersions
  Revisions <- MCRevisions
  FieldLists <- MCFieldLists
  NaNFieldLists <- MCNaNFieldLists
  MigrationNames = {m1}
  Offered <- MCOffered
  MaxMigrations = 2
PROPERTY RevisionsCanBeBridged
CHECK_DEADLOCK FALSE
