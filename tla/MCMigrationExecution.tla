------------------------ MODULE MCMigrationExecution ------------------------
(***************************************************************************)
(* Instance of MigrationExecution: a chain of three versions that changes  *)
(* structure at every hop, with reverse and PostOnly hops, a shortcut, a   *)
(* self-loop, a migration whose source disagrees with the chain at version *)
(* 2, one whose target is another revision of version 3, and one from a    *)
(* schema with a NaN bound, equal to nothing; each plain field list        *)
(* accepts, rejects and cannot judge some document.                        *)
(***************************************************************************)
EXTENDS MigrationExecution

CONSTANTS fA, fB, nan, dA, dB, dC, fam, m1

MCFamilies == {fam}

MCOutcome ==
  [ x \in FieldLists \X Documents |->
      IF x = << fA, dA >> \/ x = << fB, dB >> \/ x = << fB, dC >> \/ x = << nan, dA >> THEN "valid"
      ELSE IF x = << fA, dC >> THEN "unavailable" ELSE "invalid" ]

Of(v, r, f) == [ contract |-> [family |-> fam, version |-> v, revision |-> r], fields |-> f ]
At(v, f)    == Of(v, 1, f)

Bridge(from, to, policy, reversible) ==
  [ id |-> m1, source |-> from, target |-> to, policy |-> policy, reversible |-> reversible ]

MCOffered ==
  { Bridge(At(1, fA), At(2, fB), "PostOnly", TRUE),
    Bridge(At(2, fB), At(3, fA), "PostOnly", FALSE),
    Bridge(At(3, fA), At(2, fB), "Strict", TRUE),
    Bridge(At(1, fA), At(3, fA), "Strict", FALSE),
    Bridge(At(2, fB), At(2, fB), "Strict", TRUE),
    Bridge(At(2, fA), Of(3, 2, fA), "Strict", TRUE),
    Bridge(At(1, nan), At(3, fA), "Strict", FALSE) }
=============================================================================
