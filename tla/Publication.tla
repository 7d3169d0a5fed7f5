---------------------------- MODULE Publication ----------------------------
(***************************************************************************)
(* Schemas are built from a contract and fields, and published under the   *)
(* contract's text.  "A published schema is immutable": a schema offered   *)
(* again under that text must have the hash of the first.  The store is    *)
(* external (hash.rs:133-138: none exists yet); what it compares, and how  *)
(* contracts and schemas come to be, is the code's.                        *)
(***************************************************************************)
EXTENDS Hashing

CONSTANTS
  Texts,          \* texts that Contract::parse is given
  Parts,          \* arguments that Contract::new is given
  FieldLists,     \* fields that Schema::new is given
  MaxPublished    \* bound on the schemas in the store

Part == [namespace : Seq(Words \cup Separators), name : Seq(Words \cup Separators),
         version : Seq(0..MaxU32), revision : 0..MaxU32]

(* ValueType: all but the last constructor have an element type, and a map *)
(* has a key type besides.                                                 *)
TypeShape(ty) ==
  /\ IsSequence(ty) /\ Len(ty) > 0
  /\ \A k \in DOMAIN ty :
       /\ ty[k].of \in {"list", "map"} <=> k < Len(ty)
       /\ ty[k] = IF ty[k].of = "map" THEN [of |-> "map", key |-> ty[k].key] ELSE [of |-> ty[k].of]

(* Constraint *)
ConstraintShape(c) ==
  \/ /\ c.kind \in {"range", "length"}
     /\ c = [kind |-> c.kind, minimum |-> c.minimum, maximum |-> c.maximum]
  \/ c.kind = "nonempty" /\ c = [kind |-> "nonempty"]
  \/ c.kind = "pattern" /\ c = [kind |-> "pattern", grammar |-> c.grammar] /\ IsSequence(c.grammar)
  \/ /\ c.kind = "custom" /\ c = [kind |-> "custom", name |-> c.name, description |-> c.description]
     /\ IsSequence(c.name) /\ IsSequence(c.description)

FieldShape(f) ==
  /\ IsSequence(f.name) /\ TypeShape(f.ty) /\ f.required \in BOOLEAN
  /\ IsSequence(f.constraints) /\ \A c \in Range(f.constraints) : ConstraintShape(c)

ASSUME TextsAssumption == Texts \subseteq Seq(Words \cup Separators)
ASSUME PartsAssumption == Parts \subseteq Part /\ \A p \in Parts : Len(p.version) = 3
ASSUME FieldListsAssumption ==
  \A fields \in FieldLists : IsSequence(fields) /\ \A f \in Range(fields) : FieldShape(f)
ASSUME MaxPublishedAssumption == MaxPublished \in Nat

VARIABLES
  published,   \* partial function: text of a contract -> [contract, fields, hash]
  answer       \* what became of the last offer

vars == << published, answer >>

(* How callers come by a contract. *)
Sources ==
  { [by |-> "parse", text |-> text] : text \in Texts }
    \cup { [by |-> "new", part |-> part] : part \in Parts }

ContractFrom ==
  [ source \in Sources |->
      IF source.by = "parse" THEN Parse(source.text)
      ELSE NewContract(source.part.namespace, source.part.name, source.part.version,
                       source.part.revision) ]

Init == published = << >> /\ answer = [status |-> "none"]

(* CoreError::InvalidContract *)
RefuseContract(source) ==
  /\ ContractFrom[source] = NoContract
  /\ answer' = [status |-> "invalid contract", source |-> source]
  /\ UNCHANGED published

(* Schema::new: SchemaError::DuplicateField *)
RefuseFields(source, fields) ==
  /\ ContractFrom[source] # NoContract
  /\ ~IsSchema(fields)
  /\ answer' = [status |-> "duplicate field"]
  /\ UNCHANGED published

Answer(status, contract, fields) ==
  [status |-> status, contract |-> contract, fields |-> fields]

PublishFirst(source, fields) ==
  LET contract == ContractFrom[source]
      key      == ShownContract(contract)
  IN  /\ contract # NoContract /\ IsSchema(fields)
      /\ key \notin DOMAIN published /\ Cardinality(DOMAIN published) < MaxPublished
      /\ published' = [ k \in DOMAIN published \cup {key} |->
           IF k = key THEN [contract |-> contract, fields |-> fields,
                            hash |-> SchemaHash(contract, fields)]
                      ELSE published[k] ]
      /\ answer' = Answer("published", contract, fields)

PublishAgain(source, fields) ==
  LET contract == ContractFrom[source]
      key      == ShownContract(contract)
  IN  /\ contract # NoContract /\ IsSchema(fields)
      /\ key \in DOMAIN published
      /\ answer' = Answer(
           IF SchemaHash(contract, fields) = published[key].hash THEN "again" ELSE "altered",
           contract, fields)
      /\ UNCHANGED published

Next ==
  \E source \in Sources :
    \/ RefuseContract(source)
    \/ \E fields \in FieldLists :
         \/ RefuseFields(source, fields)
         \/ PublishFirst(source, fields)
         \/ PublishAgain(source, fields)

Spec == Init /\ [][Next]_vars

-----------------------------------------------------------------------------
(* Properties. *)

Entry == published[ShownContract(answer.contract)]

(* The same up to descriptions, which are no part of the structure. *)
SameStructure(fields, others) ==
  /\ Len(fields) = Len(others)
  /\ \A i \in DOMAIN fields :
       \A part \in {"name", "ty", "required", "constraints"} :
         fields[i][part] = others[i][part]

(* hash.rs:133-138: schemas independently built with the same structure    *)
(* hash alike, and no others: a schema taken for the published one has its *)
(* contract, its fields in their order, and each of their constraints.     *)
HashIdentifiesStructure ==
  /\ answer.status = "again" =>
       Entry.contract = answer.contract /\ SameStructure(Entry.fields, answer.fields)
  /\ answer.status = "altered" => ~SameStructure(Entry.fields, answer.fields)

(* The hash and the comparison judge schemas by different code: where the  *)
(* hash says nothing changed, analyze() never says that something broke,   *)
(* not even with a NaN bound, which is unequal to itself.                  *)
EqualHashIsCompatible ==
  answer.status = "again" => IsCompatible(Level(Entry.fields, answer.fields))

Known ==
  { published[key].contract : key \in DOMAIN published }
    \cup (IF answer.status \in {"published", "again", "altered"} THEN {answer.contract} ELSE {})

(* contract.rs:6-11: the text is the identity.  However a contract was     *)
(* come by, its text is read back as that contract, whatever spelling it   *)
(* was first read from; and the text of its SchemaId forgets the revision  *)
(* and nothing else (schema_id.rs:5-14).                                   *)
PrintedIdentity ==
  \A c \in Known :
    /\ Parse(ShownContract(c)) = c
    /\ \A d \in Known :
         ShownSchemaId(SchemaIdOf(c)) = ShownSchemaId(SchemaIdOf(d))
           => [c EXCEPT !.revision = d.revision] = d

(* Three copies of the grammar (contract.rs:20, validator.rs:228-231,      *)
(* semantic_id.rs:10-19): Contract::new refuses exactly the names that the *)
(* identifier pattern refuses or that are more than one segment, and the   *)
(* path of any contract is a SemanticId.                                   *)
GrammarsAgree ==
  /\ answer.status = "invalid contract" /\ answer.source.by = "new" =>
       LET part == answer.source.part
       IN  ~IsIdentifier(part.namespace) \/ ~IsIdentifier(part.name)
             \/ Cuts(part.name, ".") # {}
  /\ \A c \in Known :
       /\ IsIdentifier(c.namespace) /\ IsIdentifier(c.name) /\ Cuts(c.name, ".") = {}
       /\ IsSemanticId(c.namespace \o << "." >> \o c.name)
=============================================================================
