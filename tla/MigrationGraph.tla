--------------------------- MODULE MigrationGraph ---------------------------
(***************************************************************************)
(* MigrationGraph::register and the guard behind it, check_and_record.     *)
(*                                                                         *)
(* The guard keeps, per SchemaId, the fields of the first schema seen      *)
(* there and the id of the migration whose registration showed it.  A call *)
(* checks and records the source, then checks and records the target; a    *)
(* rejection of the target leaves what the source recorded.                *)
(***************************************************************************)
EXTENDS Migrations

CONSTANTS
  Offered,         \* the migrations callers construct and try to register
  MaxMigrations    \* bound on the length of the registry

ASSUME OfferedAssumption == Offered \subseteq Migration
ASSUME BoundAssumption == MaxMigrations \in Nat

VARIABLES
  migrations,      \* the registered migrations, in order of registration
  schemaById,      \* partial function: SchemaId -> [fields, by]
  registration     \* what the last register call returned

graphVars == << migrations, schemaById, registration >>

Entry == [fields : FieldLists, by : MigrationNames]

IsGuard(known) == DOMAIN known \subseteq SchemaId /\ known \in [DOMAIN known -> Entry]

NoRegistration == [status |-> "none"]

Accepted(m) == [status |-> "accepted", migration |-> m]

(* MigrationError::SchemaIdConflict: the node, the rejected migration and  *)
(* the id of the migration it is said to conflict with.                    *)
SchemaIdConflict(m, node, by) ==
  [status |-> "conflict", migration |-> m, schemaId |-> node, conflictsWith |-> by]

Registration ==
  {NoRegistration}
    \cup [status : {"accepted"}, migration : Migration]
    \cup [ status : {"conflict"}, migration : Migration, schemaId : SchemaId,
           conflictsWith : MigrationNames ]

-----------------------------------------------------------------------------
(* Faulty variants, used only to show that a property depends on the code  *)
(* it is about: structural instead of derived equality, an entry without   *)
(* its migration, an overwriting record.                                   *)

ClashesStructurally(known, schema) ==
  LET node == NodeOf(schema)
  IN  node \in DOMAIN known /\ known[node].fields # schema.fields

RecordLatest(known, schema, by) ==
  [ n \in DOMAIN known \cup {NodeOf(schema)} |->
      IF n = NodeOf(schema) THEN [fields |-> schema.fields, by |-> by] ELSE known[n] ]

RecordWithoutName(known, schema, by) ==
  [ n \in DOMAIN known \cup {NodeOf(schema)} |->
      IF n \in DOMAIN known THEN known[n] ELSE [fields |-> schema.fields] ]
-----------------------------------------------------------------------------

(* The node is known with other fields. *)
Clashes(known, schema) ==
  LET node == NodeOf(schema)
  IN  node \in DOMAIN known /\ ~FieldsEqual(known[node].fields, schema.fields)

(* An entry is made only for a node not known yet. *)
Record(known, schema, by) ==
  [ n \in DOMAIN known \cup {NodeOf(schema)} |->
      IF n \in DOMAIN known THEN known[n] ELSE [fields |-> schema.fields, by |-> by] ]

AfterSource(m) == Record(schemaById, m.source, m.id)

Init ==
  /\ migrations = << >>
  /\ schemaById = << >>
  /\ registration = NoRegistration

(* Faulty: the target is not checked. *)
AcceptUncheckedTarget(m) ==
  /\ Len(migrations) < MaxMigrations
  /\ ~Clashes(schemaById, m.source)
  /\ schemaById' = Record(AfterSource(m), m.target, m.id)
  /\ migrations' = Append(migrations, m)
  /\ registration' = Accepted(m)

RegisterAccepts(m) ==
  /\ Len(migrations) < MaxMigrations
  /\ ~Clashes(schemaById, m.source)
  /\ ~Clashes(AfterSource(m), m.target)
  /\ schemaById' = Record(AfterSource(m), m.target, m.id)
  /\ migrations' = Append(migrations, m)
  /\ registration' = Accepted(m)

RegisterRejectsSource(m) ==
  /\ Clashes(schemaById, m.source)
  /\ registration' = SchemaIdConflict(m, NodeOf(m.source), schemaById[NodeOf(m.source)].by)
  /\ UNCHANGED << migrations, schemaById >>

(* Faulty: the target is recorded before it is compared. *)
RejectTargetOverwriting(m) ==
  /\ ~Clashes(schemaById, m.source)
  /\ Clashes(AfterSource(m), m.target)
  /\ schemaById' = RecordLatest(AfterSource(m), m.target, m.id)
  /\ registration' = SchemaIdConflict(m, NodeOf(m.target), AfterSource(m)[NodeOf(m.target)].by)
  /\ UNCHANGED migrations

(* The source stays recorded although the migration is not registered. *)
RegisterRejectsTarget(m) ==
  /\ ~Clashes(schemaById, m.source)
  /\ Clashes(AfterSource(m), m.target)
  /\ schemaById' = AfterSource(m)
  /\ registration' = SchemaIdConflict(m, NodeOf(m.target), AfterSource(m)[NodeOf(m.target)].by)
  /\ UNCHANGED migrations

Register(m) ==
  \/ RegisterAccepts(m)
  \/ RegisterRejectsSource(m)
  \/ RegisterRejectsTarget(m)

Next == \E m \in Offered : Register(m)

Spec == Init /\ [][Next]_graphVars

-----------------------------------------------------------------------------
(* Properties. *)

(* Types of the registry's state: a finite registry of migrations, the     *)
(* guard's partial map, and a well-formed result of the last call.         *)
TypeOK ==
  /\ migrations \in Seq(Migration)
  /\ Len(migrations) <= MaxMigrations
  /\ IsGuard(schemaById)
  /\ registration \in Registration

Sides == {"source", "target"}
EndSchema(k, side) == IF side = "source" THEN migrations[k].source ELSE migrations[k].target
EndNode(k, side)   == NodeOf(EndSchema(k, side))

(* Both ends of every registered migration are known to the guard, with    *)
(* the very fields they have: the map never drifts from the registry.      *)
EndsRecorded ==
  \A k \in DOMAIN migrations, side \in Sides :
    /\ EndNode(k, side) \in DOMAIN schemaById
    /\ schemaById[EndNode(k, side)].fields = EndSchema(k, side).fields

(* Dropping the revision is safe (schema_id.rs:8-14): whatever was offered *)
(* and rejected in between, any two ends of registered migrations at one   *)
(* SchemaId have equal fields, so a schema with a NaN bound, equal to      *)
(* nothing, is an end of one migration only.                               *)
OneStructurePerNode ==
  \A j, k \in DOMAIN migrations, a, b \in Sides :
    (j # k \/ a # b) /\ EndNode(j, a) = EndNode(k, b)
      => FieldsEqual(EndSchema(j, a).fields, EndSchema(k, b).fields)

Rejectable(m) == Clashes(schemaById, m.source) \/ Clashes(AfterSource(m), m.target)

(* A conflict is for good: no later call, accepted or rejected, turns a    *)
(* migration that register refuses into one it accepts (graph.rs:111-128   *)
(* keeps the first schema seen), so a retry is pointless.                  *)
RejectionIsFinal ==
  [][ \A m \in Offered : Rejectable(m) => Rejectable(m)' ]_graphVars

(* graph.rs:101-103 and :81-82: a registration is refused only because of  *)
(* a previously registered schema with the same SchemaId and other fields. *)
(* A migration whose own two ends disagree is not held against it here.    *)
ConflictsWithARegisteredSchema ==
  registration.status = "conflict" =>
    LET m    == registration.migration
        node == registration.schemaId
    IN  \/ /\ NodeOf(m.source) = NodeOf(m.target)
           /\ ~FieldsEqual(m.source.fields, m.target.fields)
        \/ \E k \in DOMAIN migrations, side \in Sides, s \in {m.source, m.target} :
             /\ NodeOf(s) = node /\ EndNode(k, side) = node
             /\ ~FieldsEqual(EndSchema(k, side).fields, s.fields)

(* migration.rs:56-58: a self-loop migration may bridge two differently    *)
(* structured revisions of one version.  At a node that no earlier call    *)
(* has shown to the guard, register takes it.                              *)
RevisionsCanBeBridged ==
  [][ \A m \in Offered :
        /\ NodeOf(m.source) = NodeOf(m.target)
        /\ m.source.contract.revision # m.target.contract.revision
        /\ NodeOf(m.source) \notin DOMAIN schemaById
        => ~RegisterRejectsTarget(m) ]_graphVars
=============================================================================
