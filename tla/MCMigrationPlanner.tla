------------------------- MODULE MCMigrationPlanner -------------------------
(***************************************************************************)
(* Instance of MigrationPlanner: four versions, and five migrations whose  *)
(* edges give a diamond 1-2-4 / 1-3-4 with a reverse hop on one side,      *)
(* reverse edges that close cycles, a self-loop, and, since a migration    *)
(* may be registered twice, parallel edges.                                *)
(***************************************************************************)
EXTENDS MigrationPlanner

CONSTANTS fields, fam, m1

MCFamilies == {fam}
MCFieldLists == {fields}

At(v) == [ contract |-> [family |-> fam, version |-> v, revision |-> 1], fields |-> fields ]

Bridge(from, to, reversible) ==
  [ id |-> m1, source |-> At(from), target |-> At(to), policy |-> "Strict",
    reversible |-> reversible ]

MCOffered ==
  { Bridge(1, 2, FALSE), Bridge(2, 4, TRUE), Bridge(1, 3, FALSE), Bridge(4, 3, TRUE),
    Bridge(2, 2, TRUE) }
=============================================================================
