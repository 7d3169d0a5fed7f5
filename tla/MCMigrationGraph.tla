-------------------------- MODULE MCMigrationGraph --------------------------
(***************************************************************************)
(* Instance of MigrationGraph: two versions of one family, a source of     *)
(* revision 1 and a target of revision 2 so that revisions always differ,  *)
(* two plain field lists and one with a NaN bound.                         *)
(***************************************************************************)
EXTENDS MigrationGraph

CONSTANTS f1, f2, nan, fam

MCFamilies == {fam}
MCVersions == 1..2
MCRevisions == 1..2
MCFieldLists == {f1, f2, nan}
MCNaNFieldLists == {nan}

SchemasOfRevision(r) == { s \in Schema : s.contract.revision = r }

MCOffered ==
  [ id : MigrationNames, source : SchemasOfRevision(1), target : SchemasOfRevision(2),
    policy : {"Strict"}, reversible : {FALSE} ]
=============================================================================
