------------------------ MODULE MigrationGraphProofs ------------------------
(***************************************************************************)
(* Proofs about MigrationGraph, for every value of its constants.          *)
(***************************************************************************)
EXTENDS MigrationGraph, TLAPS

(* What Record does to the map: the schema's node becomes known, entries   *)
(* already there stay, and a new entry holds the schema's own fields.      *)
LEMMA RecordLemma ==
  ASSUME NEW known, IsGuard(known),
         NEW schema \in Schema, NEW by \in MigrationNames
  PROVE  /\ IsGuard(Record(known, schema, by))
         /\ DOMAIN Record(known, schema, by) = DOMAIN known \cup {NodeOf(schema)}
         /\ \A n \in DOMAIN known : Record(known, schema, by)[n] = known[n]
         /\ NodeOf(schema) \notin DOMAIN known =>
              Record(known, schema, by)[NodeOf(schema)] = [fields |-> schema.fields, by |-> by]
<1> DEFINE node  == NodeOf(schema)
           entry == [fields |-> schema.fields, by |-> by]
           after == Record(known, schema, by)
<1>1. node \in SchemaId
  BY DEF NodeOf, Schema, Contract, SchemaId
<1>2. entry \in Entry
  BY DEF Entry, Schema
<1>3. after = [n \in DOMAIN known \cup {node} |-> IF n \in DOMAIN known THEN known[n] ELSE entry]
  BY DEF Record
<1>4. QED
  BY <1>1, <1>2, <1>3 DEF IsGuard

(* A schema that does not clash with a map agrees with what Record leaves  *)
(* for its node.                                                           *)
LEMMA NoClashAgrees ==
  ASSUME NEW known, IsGuard(known),
         NEW schema \in Schema, NEW by \in MigrationNames,
         ~Clashes(known, schema)
  PROVE  Record(known, schema, by)[NodeOf(schema)].fields = schema.fields
<1>1. Record(known, schema, by)[NodeOf(schema)].fields =
        IF NodeOf(schema) \in DOMAIN known THEN known[NodeOf(schema)].fields ELSE schema.fields
  BY DEF Record
<1>2. QED
  BY <1>1 DEF Clashes, FieldsEqual

-----------------------------------------------------------------------------
(* Type correctness. *)

LEMMA OfferedTyped ==
  ASSUME NEW m \in Offered
  PROVE  /\ m \in Migration
         /\ m.source \in Schema /\ m.target \in Schema /\ m.id \in MigrationNames
         /\ NodeOf(m.source) \in SchemaId /\ NodeOf(m.target) \in SchemaId
BY OfferedAssumption DEF Migration, Schema, Contract, NodeOf, SchemaId

(* The map a call leaves is well typed, after its source and after both.   *)
LEMMA GuardStaysTyped ==
  ASSUME TypeOK, NEW m \in Offered
  PROVE  IsGuard(AfterSource(m)) /\ IsGuard(Record(AfterSource(m), m.target, m.id))
<1>1. IsGuard(AfterSource(m))
  BY OfferedTyped, RecordLemma DEF AfterSource, TypeOK
<1>2. QED
  BY <1>1, OfferedTyped, RecordLemma

LEMMA InitTyped == Init => TypeOK
BY BoundAssumption DEF Init, TypeOK, Registration, NoRegistration, IsGuard, Entry

LEMMA StepTyped ==
  ASSUME TypeOK, [Next]_graphVars
  PROVE  TypeOK'
<1>1. ASSUME NEW m \in Offered, RegisterAccepts(m)
      PROVE  TypeOK'
  BY <1>1, OfferedTyped, GuardStaysTyped, BoundAssumption
     DEF RegisterAccepts, TypeOK, Registration, Accepted
<1>2. ASSUME NEW m \in Offered, RegisterRejectsSource(m)
      PROVE  TypeOK'
  BY <1>2, OfferedTyped DEF RegisterRejectsSource, TypeOK, Registration, SchemaIdConflict,
     Clashes, IsGuard, Entry
<1>3. ASSUME NEW m \in Offered, RegisterRejectsTarget(m)
      PROVE  TypeOK'
  BY <1>3, OfferedTyped, GuardStaysTyped
     DEF RegisterRejectsTarget, TypeOK, Registration, SchemaIdConflict, Clashes, IsGuard, Entry
<1>4. CASE UNCHANGED graphVars
  BY <1>4 DEF graphVars, TypeOK
<1>5. QED
  BY <1>1, <1>2, <1>3, <1>4 DEF Next, Register

(* The registry's state keeps its type. *)
THEOREM TypeCorrect == Spec => []TypeOK
<1>1. TypeOK /\ [Next]_graphVars => TypeOK'
  BY StepTyped
<1>2. QED
  BY InitTyped, <1>1, PTL DEF Spec

-----------------------------------------------------------------------------
(* One structure per node.  The agreement of any two ends is not inductive *)
(* by itself: that a new end agrees with all the old ones at its node      *)
(* follows from its agreeing with the guard's entry, so the entries must   *)
(* carry the fields of every registered end.                               *)

Consistent == EndsRecorded /\ OneStructurePerNode

(* Registering m adds its two ends and changes no other. *)
LEMMA EndsAfterAppend ==
  ASSUME TypeOK, NEW m \in Migration, migrations' = Append(migrations, m)
  PROVE  \E new \in Nat \ DOMAIN migrations :
           /\ DOMAIN migrations' = DOMAIN migrations \cup {new}
           /\ \A k \in DOMAIN migrations, side \in Sides :
                EndSchema(k, side)' = EndSchema(k, side)
           /\ EndSchema(new, "source")' = m.source
           /\ EndSchema(new, "target")' = m.target
<1>1. PICK new \in Nat : new = Len(migrations) + 1
  BY DEF TypeOK
<1>2. new \notin DOMAIN migrations /\ DOMAIN migrations' = DOMAIN migrations \cup {new}
  BY <1>1 DEF TypeOK
<1>3. migrations'[new] = m
  BY <1>1 DEF TypeOK
<1>4. \A k \in DOMAIN migrations : migrations'[k] = migrations[k]
  BY DEF TypeOK
<1>5. \A k \in DOMAIN migrations, side \in Sides : EndSchema(k, side)' = EndSchema(k, side)
  BY <1>4 DEF EndSchema
<1>6. EndSchema(new, "source")' = m.source /\ EndSchema(new, "target")' = m.target
  BY <1>3 DEF EndSchema
<1>7. QED
  BY <1>2, <1>5, <1>6

(* Both ends of an accepted migration agree with the map the call leaves,  *)
(* with the entry found at a node known before, and with each other.       *)
LEMMA AcceptedAgrees ==
  ASSUME TypeOK, NEW m \in Offered,
         ~Clashes(schemaById, m.source), ~Clashes(AfterSource(m), m.target)
  PROVE  LET both == Record(AfterSource(m), m.target, m.id)
         IN  /\ DOMAIN both = DOMAIN schemaById \cup {NodeOf(m.source), NodeOf(m.target)}
             /\ \A n \in DOMAIN schemaById : both[n] = schemaById[n]
             /\ both[NodeOf(m.source)].fields = m.source.fields
             /\ both[NodeOf(m.target)].fields = m.target.fields
             /\ \A s \in {m.source, m.target} :
                  NodeOf(s) \in DOMAIN schemaById =>
                    FieldsEqual(schemaById[NodeOf(s)].fields, s.fields)
             /\ NodeOf(m.source) = NodeOf(m.target) =>
                  FieldsEqual(m.source.fields, m.target.fields)
<1>1. /\ IsGuard(schemaById)
      /\ m.source \in Schema /\ m.target \in Schema /\ m.id \in MigrationNames
  BY OfferedTyped DEF TypeOK
<1>2. /\ IsGuard(AfterSource(m))
      /\ DOMAIN AfterSource(m) = DOMAIN schemaById \cup {NodeOf(m.source)}
      /\ \A n \in DOMAIN schemaById : AfterSource(m)[n] = schemaById[n]
  BY GuardStaysTyped DEF AfterSource, Record
<1>3. AfterSource(m)[NodeOf(m.source)].fields = m.source.fields
  BY <1>1, NoClashAgrees DEF AfterSource
<1> DEFINE mid  == AfterSource(m)
           both == Record(mid, m.target, m.id)
<1> HIDE DEF mid
<1>4. /\ DOMAIN both = DOMAIN mid \cup {NodeOf(m.target)}
      /\ \A n \in DOMAIN mid : both[n] = mid[n]
  BY DEF Record
<1>5. both[NodeOf(m.target)].fields = m.target.fields
  BY <1>1, <1>2, NoClashAgrees DEF mid
<1>6. /\ NodeOf(m.source) \in DOMAIN schemaById =>
           FieldsEqual(schemaById[NodeOf(m.source)].fields, m.source.fields)
      /\ NodeOf(m.target) \in DOMAIN mid =>
           FieldsEqual(mid[NodeOf(m.target)].fields, m.target.fields)
  BY DEF Clashes, mid
<1>7. QED
  BY <1>2, <1>3, <1>4, <1>5, <1>6 DEF mid

LEMMA AcceptKeepsConsistent ==
  ASSUME TypeOK, Consistent, NEW m \in Offered, RegisterAccepts(m)
  PROVE  Consistent'
<1> DEFINE both      == Record(AfterSource(m), m.target, m.id)
           end(side) == IF side = "source" THEN m.source ELSE m.target
<1>1. /\ schemaById' = both
      /\ migrations' = Append(migrations, m)
      /\ m \in Migration
  BY OfferedTyped DEF RegisterAccepts
<1>2. PICK new \in Nat \ DOMAIN migrations :
        /\ DOMAIN migrations' = DOMAIN migrations \cup {new}
        /\ \A k \in DOMAIN migrations, side \in Sides : EndSchema(k, side)' = EndSchema(k, side)
        /\ EndSchema(new, "source")' = m.source
        /\ EndSchema(new, "target")' = m.target
  BY <1>1, EndsAfterAppend
<1>n. \A side \in Sides : EndSchema(new, side)' = end(side)
  BY <1>2 DEF Sides
<1>3. /\ \A n \in DOMAIN schemaById : n \in DOMAIN both /\ both[n] = schemaById[n]
      /\ \A side \in Sides : /\ NodeOf(end(side)) \in DOMAIN both
                             /\ both[NodeOf(end(side))].fields = end(side).fields
      /\ \A side \in Sides : NodeOf(end(side)) \in DOMAIN schemaById =>
            FieldsEqual(schemaById[NodeOf(end(side))].fields, end(side).fields)
      /\ NodeOf(m.source) = NodeOf(m.target) => FieldsEqual(m.source.fields, m.target.fields)
  BY AcceptedAgrees DEF RegisterAccepts, Sides
<1> HIDE DEF both, end
<1>4. EndsRecorded'
  <2> SUFFICES ASSUME NEW k \in DOMAIN migrations', NEW side \in Sides
               PROVE  /\ NodeOf(EndSchema(k, side)') \in DOMAIN both
                      /\ both[NodeOf(EndSchema(k, side)')].fields = EndSchema(k, side)'.fields
    BY <1>1 DEF EndsRecorded, EndNode, NodeOf
  <2>1. CASE k \in DOMAIN migrations
    BY <2>1, <1>2, <1>3 DEF Consistent, EndsRecorded, EndNode
  <2>2. CASE k = new
    <3>1. EndSchema(k, side)' = end(side)
      BY <2>2, <1>n
    <3>2. QED
      BY <3>1, <1>3
  <2>3. QED
    BY <2>1, <2>2, <1>2
<1>5. OneStructurePerNode'
  <2>1. ASSUME NEW k \in DOMAIN migrations, NEW a \in Sides, NEW b \in Sides,
               NodeOf(EndSchema(k, a)) = NodeOf(end(b))
        PROVE  FieldsEqual(EndSchema(k, a).fields, end(b).fields)
    BY <2>1, <1>3 DEF Consistent, EndsRecorded, EndNode
  <2>2. ASSUME NEW j \in DOMAIN migrations', NEW k \in DOMAIN migrations',
               NEW a \in Sides, NEW b \in Sides, j # k \/ a # b,
               NodeOf(EndSchema(j, a)') = NodeOf(EndSchema(k, b)')
        PROVE  FieldsEqual(EndSchema(j, a)'.fields, EndSchema(k, b)'.fields)
    <3>1. CASE j \in DOMAIN migrations /\ k \in DOMAIN migrations
      BY <3>1, <2>2, <1>2 DEF Consistent, OneStructurePerNode, EndNode
    <3>2. CASE j \in DOMAIN migrations /\ k = new
      BY <3>2, <2>1, <2>2, <1>2, <1>n
    <3>3. CASE j = new /\ k \in DOMAIN migrations
      <4>1. FieldsEqual(EndSchema(k, b)'.fields, EndSchema(j, a)'.fields)
        BY <3>3, <2>1, <2>2, <1>2, <1>n
      <4>2. QED
        BY <4>1 DEF FieldsEqual
    <3>4. CASE j = new /\ k = new
      BY <3>4, <2>2, <1>n, <1>3 DEF FieldsEqual, Sides, end
    <3>5. QED
      BY <3>1, <3>2, <3>3, <3>4, <1>2
  <2>3. QED
    BY <2>2 DEF OneStructurePerNode, EndNode, NodeOf, FieldsEqual
<1>6. QED
  BY <1>4, <1>5 DEF Consistent

LEMMA RegisterKeepsConsistent ==
  ASSUME TypeOK, Consistent, [Next]_graphVars
  PROVE  Consistent'
<1>1. ASSUME NEW m \in Offered, RegisterAccepts(m)
      PROVE  Consistent'
  BY <1>1, AcceptKeepsConsistent
<1>2. ASSUME NEW m \in Offered, RegisterRejectsSource(m)
      PROVE  Consistent'
  BY <1>2 DEF RegisterRejectsSource, Consistent, EndsRecorded, OneStructurePerNode, EndNode, NodeOf, EndSchema
<1>3. ASSUME NEW m \in Offered, RegisterRejectsTarget(m)
      PROVE  Consistent'
  <2>1. /\ \A n \in DOMAIN schemaById : n \in DOMAIN schemaById' /\ schemaById'[n] = schemaById[n]
        /\ UNCHANGED migrations
    BY <1>3 DEF RegisterRejectsTarget, AfterSource, Record
  <2>2. QED
    BY <2>1 DEF Consistent, EndsRecorded, OneStructurePerNode, EndNode, NodeOf, EndSchema
<1>4. CASE UNCHANGED graphVars
  BY <1>4 DEF graphVars, Consistent, EndsRecorded, OneStructurePerNode, EndNode, NodeOf, EndSchema
<1>5. QED
  BY <1>1, <1>2, <1>3, <1>4 DEF Next, Register

LEMMA InitConsistent == Init => Consistent
BY DEF Init, Consistent, EndsRecorded, OneStructurePerNode

(* After any calls, accepted or rejected, in any order, the guard knows    *)
(* both ends of every registered migration by the fields they have         *)
(* (graph.rs:104-128).                                                     *)
THEOREM RegistryIsRecorded == Spec => []EndsRecorded
<1>1. Init => Consistent
  BY InitConsistent
<1>2. TypeOK /\ Consistent /\ [Next]_graphVars => Consistent'
  BY RegisterKeepsConsistent
<1>3. Consistent => EndsRecorded
  BY DEF Consistent
<1>4. QED
  BY <1>1, <1>2, <1>3, TypeCorrect, PTL DEF Spec

(* Two ends of registered migrations at one SchemaId always have equal     *)
(* fields: the revision-dropping assumption of schema_id.rs is safe.       *)
THEOREM RegistryIsConsistent == Spec => []OneStructurePerNode
<1>1. Init => Consistent
  BY InitConsistent
<1>2. TypeOK /\ Consistent /\ [Next]_graphVars => Consistent'
  BY RegisterKeepsConsistent
<1>3. Consistent => OneStructurePerNode
  BY DEF Consistent
<1>4. QED
  BY <1>1, <1>2, <1>3, TypeCorrect, PTL DEF Spec

-----------------------------------------------------------------------------
(* Rejections. *)

(* No call removes or changes an entry. *)
LEMMA EntriesStay ==
  ASSUME TypeOK, [Next]_graphVars
  PROVE  \A n \in DOMAIN schemaById : n \in DOMAIN schemaById' /\ schemaById'[n] = schemaById[n]
<1>1. ASSUME NEW m \in Offered, RegisterAccepts(m)
      PROVE  \A n \in DOMAIN schemaById : n \in DOMAIN schemaById' /\ schemaById'[n] = schemaById[n]
  BY <1>1, AcceptedAgrees DEF RegisterAccepts
<1>2. ASSUME NEW m \in Offered, RegisterRejectsTarget(m)
      PROVE  \A n \in DOMAIN schemaById : n \in DOMAIN schemaById' /\ schemaById'[n] = schemaById[n]
  BY <1>2 DEF RegisterRejectsTarget, AfterSource, Record
<1>3. CASE UNCHANGED schemaById
  BY <1>3
<1>4. QED
  BY <1>1, <1>2, <1>3 DEF Next, Register, RegisterRejectsSource, graphVars

(* More entries never turn a rejection into an acceptance. *)
LEMMA ClashesStay ==
  ASSUME NEW m \in Offered, Rejectable(m),
         \A n \in DOMAIN schemaById : n \in DOMAIN schemaById' /\ schemaById'[n] = schemaById[n]
  PROVE  Rejectable(m)'
<1> DEFINE s == NodeOf(m.source)
           t == NodeOf(m.target)
<1>1. CASE Clashes(schemaById, m.source)
  BY <1>1 DEF Rejectable, Clashes
<1>2. CASE Clashes(AfterSource(m), m.target) /\ t \in DOMAIN schemaById
  BY <1>2 DEF Rejectable, Clashes, AfterSource, Record
<1>3. CASE Clashes(AfterSource(m), m.target) /\ t \notin DOMAIN schemaById
  <2>1. s = t /\ ~FieldsEqual(m.source.fields, m.target.fields)
    BY <1>3 DEF Clashes, AfterSource, Record
  <2>2. CASE s \in DOMAIN schemaById' /\ ~FieldsEqual(schemaById'[s].fields, m.source.fields)
    BY <2>2 DEF Rejectable, Clashes
  <2>3. CASE s \in DOMAIN schemaById' /\ FieldsEqual(schemaById'[s].fields, m.source.fields)
    BY <2>1, <2>3 DEF Rejectable, Clashes, AfterSource, Record, FieldsEqual
  <2>4. CASE s \notin DOMAIN schemaById'
    BY <2>1, <2>4 DEF Rejectable, Clashes, AfterSource, Record
  <2>5. QED
    BY <2>2, <2>3, <2>4
<1>4. QED
  BY <1>1, <1>2, <1>3 DEF Rejectable

(* A migration that register refuses is refused ever after, whatever else  *)
(* is registered or rejected meanwhile: retrying cannot help.              *)
THEOREM RejectionsAreFinal == Spec => RejectionIsFinal
<1>1. TypeOK /\ [Next]_graphVars
        => [\A m \in Offered : Rejectable(m) => Rejectable(m)']_graphVars
  BY EntriesStay, ClashesStay
<1>2. QED
  BY <1>1, TypeCorrect, PTL DEF Spec, RejectionIsFinal
=============================================================================
