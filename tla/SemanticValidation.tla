------------------------- MODULE SemanticValidation -------------------------
(***************************************************************************)
(* obserde_padagonia: SemanticAnnotations, StaticResolver and              *)
(* validate_semantic, one resolver call a step.  A resolver is either the  *)
(* StaticResolver, which cannot change while a call borrows it, or a live  *)
(* ontology behind the SemanticResolver trait (external), which can, and   *)
(* whose answers may fail.                                                 *)
(***************************************************************************)
EXTENDS Integers, Sequences, Functions

CONSTANTS
  Names,        \* field names
  Concepts,     \* SemanticIds
  Relations,    \* names of relations
  Permissible,  \* triples << from, relation, to >> an ontology may come to permit
  Semantics,    \* the FieldSemantics callers use
  Schemas,      \* schemas validated against, as their field names in order
  Documents,    \* documents validated, as the names they have an entry for
  MaxMoves      \* bound on the changes of a live ontology during one call

FieldSemantics ==
  [concept : Concepts, relations : Seq([relation : Relations, target : Concepts])]

Triples == Concepts \X Relations \X Concepts

ASSUME PermissibleAssumption == Permissible \subseteq Triples
ASSUME SemanticsAssumption == Semantics \subseteq FieldSemantics
ASSUME SchemasAssumption   == Schemas \subseteq Seq(Names)
ASSUME DocumentsAssumption == Documents \subseteq SUBSET Names
ASSUME MovesAssumption     == MaxMoves \in Nat

VARIABLES
  resolver,     \* "static" or "live"
  known,        \* concepts the ontology has
  permitted,    \* triples << from, relation, to >> it permits
  annotations,  \* partial function: name -> FieldSemantics
  pc,           \* "idle", "names", "field", "target", "permission" or "returned"
  schema,       \* arguments of the running call
  doc,
  at,           \* index of the field being checked
  n,            \* index of the relation being checked
  issues,       \* what was found so far
  reply,        \* what the call returned, or NoReply
  seen,         \* history: true answers per question since the call began
  moves         \* changes of the ontology since the call began

ontologyVars == << resolver, known, permitted >>
positionVars == << pc, at, n >>
argumentVars == << schema, doc >>
historyVars  == << seen, moves >>
vars == << ontologyVars, annotations, positionVars, argumentVars, issues, reply, historyVars >>

NoReply == [status |-> "none"]

-----------------------------------------------------------------------------
(* Questions to the ontology, and their answers. *)

Question == [of : {"concept", "target", "permission"}, field : Names, n : Nat]

About(of, field, k) == [of |-> of, field |-> field, n |-> k]

(* What the three checks ask, of a field's semantics. *)
Fact(q, concepts, triples) ==
  LET s == annotations[q.field]
  IN  CASE q.of = "concept"    -> s.concept \in concepts
        [] q.of = "target"     -> s.relations[q.n].target \in concepts
        [] q.of = "permission" ->
             << s.concept, s.relations[q.n].relation, s.relations[q.n].target >> \in triples

(* The fields that are checked: annotated, and present in the document. *)
Checked(fields, document) == Range(fields) \cap DOMAIN annotations \cap document

Questions(fields, document) ==
  { About("concept", f, 0) : f \in Checked(fields, document) }
    \cup UNION { { About(of, f, k) : of \in {"target", "permission"},
                                     k \in DOMAIN annotations[f].relations } :
                 f \in Checked(fields, document) }

UnknownFields(fields) == DOMAIN annotations \ Range(fields)

-----------------------------------------------------------------------------
SemanticInit ==
  /\ resolver \in {"static", "live"}
  /\ known = {} /\ permitted = {} /\ annotations = << >>
  /\ pc = "idle" /\ schema = << >> /\ doc = {} /\ at = 1 /\ n = 0
  /\ issues = {} /\ reply = NoReply /\ seen = << >> /\ moves = 0

(* The builders of StaticResolver take it by value: not during a call. *)
WithConcept(id) ==
  /\ resolver = "static" /\ pc = "idle"
  /\ known' = known \cup {id}
  /\ UNCHANGED << resolver, permitted, annotations, positionVars, argumentVars, issues, reply,
                  historyVars >>

(* Faulty: only the source is registered. *)
FromAlone(triple) == {triple[1]}

EndsOf(triple) == {triple[1], triple[3]}

WithRelation(triple) ==
  /\ resolver = "static" /\ pc = "idle"
  /\ known' = known \cup EndsOf(triple)
  /\ permitted' = permitted \cup {triple}
  /\ UNCHANGED << resolver, annotations, positionVars, argumentVars, issues, reply,
                  historyVars >>

(* annotate() replaces what the name had. *)
Annotate(name, semantics) ==
  /\ pc = "idle"
  /\ annotations' = [ f \in DOMAIN annotations \cup {name} |->
                        IF f = name THEN semantics ELSE annotations[f] ]
  /\ UNCHANGED << ontologyVars, positionVars, argumentVars, issues, reply, historyVars >>

(* A live ontology gains or loses a concept or a permission, at any time.  *)
Recorded(concepts, triples) ==
  IF pc \in {"idle", "returned"} THEN seen
  ELSE [ q \in DOMAIN seen |-> seen[q] \cup {Fact(q, concepts, triples)} ]

OntologyMoves(concepts, triples) ==
  /\ resolver = "live" /\ pc # "returned"
  /\ << concepts, triples >> # << known, permitted >>
  /\ pc # "idle" => moves < MaxMoves
  /\ known' = concepts /\ permitted' = triples
  /\ seen' = Recorded(concepts, triples)
  /\ moves' = IF pc = "idle" THEN 0 ELSE moves + 1
  /\ UNCHANGED << resolver, annotations, positionVars, argumentVars, issues, reply >>

-----------------------------------------------------------------------------
(* validate_semantic() *)

Call(fields, document) ==
  /\ pc = "idle"
  /\ pc' = "names"
  /\ schema' = fields /\ doc' = document
  /\ seen' = [ q \in Questions(fields, document) |-> {Fact(q, known, permitted)} ]
  /\ UNCHANGED << ontologyVars, annotations, at, n, issues, reply, moves >>

(* Up front: every annotated name is in the schema, or one that is not is  *)
(* reported; which one depends on the iteration order of a HashMap, that   *)
(* two maps of the same content need not share.                            *)
NamesPass ==
  /\ pc = "names"
  /\ UnknownFields(schema) = {}
  /\ pc' = "field"
  /\ UNCHANGED << ontologyVars, annotations, at, n, argumentVars, issues, reply, historyVars >>

NamesFail ==
  /\ pc = "names"
  /\ \E name \in UnknownFields(schema) : reply' = [status |-> "unknown field", field |-> name]
  /\ pc' = "returned"
  /\ UNCHANGED << ontologyVars, annotations, at, n, argumentVars, issues, historyVars >>

(* Faulty: a failing resolver is no issue. *)
SilentFailure(q) == {}

Unavailable(q) == {[about |-> q, code |-> "unavailable"]}

(* One resolver call: yes, no, or, from a live one, an error. *)
Resolve(q) ==
  \/ /\ Fact(q, known, permitted)
     /\ UNCHANGED issues
  \/ /\ ~Fact(q, known, permitted)
     /\ issues' = issues \cup {[about |-> q, code |-> "no"]}
  \/ /\ resolver = "live"
     /\ issues' = issues \cup Unavailable(q)

FieldHere == schema[at]
RelationsHere == annotations[FieldHere].relations

NextField ==
  /\ pc' = "field"
  /\ at' = at + 1
  /\ n' = 0

(* Faulty: one relation too many. *)
NextRelationOffByOne ==
  IF n <= Len(RelationsHere) THEN pc' = "target" /\ n' = n + 1 /\ UNCHANGED at ELSE NextField

NextRelation == IF n < Len(RelationsHere) THEN pc' = "target" /\ n' = n + 1 /\ UNCHANGED at
                                          ELSE NextField

Elsewhere == UNCHANGED << ontologyVars, annotations, argumentVars, reply, historyVars >>

(* Faulty: the loop goes on without the next field. *)
SkipInPlace ==
  /\ pc = "field" /\ at <= Len(schema)
  /\ FieldHere \notin Checked(schema, doc)
  /\ Elsewhere /\ UNCHANGED << issues, pc, at, n >>

(* No annotation, or no entry in the document. *)
SkipField ==
  /\ pc = "field" /\ at <= Len(schema)
  /\ FieldHere \notin Checked(schema, doc)
  /\ NextField
  /\ Elsewhere /\ UNCHANGED issues

CheckConcept ==
  /\ pc = "field" /\ at <= Len(schema)
  /\ FieldHere \in Checked(schema, doc)
  /\ Resolve(About("concept", FieldHere, 0))
  /\ NextRelation
  /\ Elsewhere

(* Faulty: an unknown target spares the second check. *)
AfterTargetSkipping ==
  IF [about |-> About("target", FieldHere, n), code |-> "no"] \in issues' THEN NextRelation
  ELSE pc' = "permission" /\ UNCHANGED << at, n >>

(* The permission is checked whatever became of the target. *)
AfterTarget == pc' = "permission" /\ UNCHANGED << at, n >>

CheckTarget ==
  /\ pc = "target"
  /\ Resolve(About("target", FieldHere, n))
  /\ AfterTarget
  /\ Elsewhere

CheckPermission ==
  /\ pc = "permission"
  /\ Resolve(About("permission", FieldHere, n))
  /\ NextRelation
  /\ Elsewhere

Return ==
  /\ pc = "field" /\ at > Len(schema)
  /\ reply' = [status |-> "report", issues |-> issues]
  /\ pc' = "returned"
  /\ UNCHANGED << ontologyVars, annotations, at, n, argumentVars, issues, historyVars >>

TakeReply ==
  /\ pc = "returned"
  /\ pc' = "idle" /\ schema' = << >> /\ doc' = {} /\ at' = 1 /\ n' = 0
  /\ issues' = {} /\ reply' = NoReply /\ seen' = << >> /\ moves' = 0
  /\ UNCHANGED << ontologyVars, annotations >>

CallStep == NamesPass \/ NamesFail \/ SkipField \/ CheckConcept \/ CheckTarget \/ CheckPermission \/ Return

SemanticNext ==
  \/ \E id \in Concepts : WithConcept(id)
  \/ \E triple \in Permissible : WithRelation(triple)
  \/ \E name \in Names, semantics \in Semantics : Annotate(name, semantics)
  \/ \E concepts \in SUBSET Concepts, triples \in SUBSET Permissible :
       OntologyMoves(concepts, triples)
  \/ \E fields \in Schemas, document \in Documents :
       Call(fields, document)
  \/ CallStep
  \/ TakeReply

(* A started call runs on; a resolver is taken to return, if with an error.*)
SemanticSpec == SemanticInit /\ [][SemanticNext]_vars /\ WF_vars(CallStep)

-----------------------------------------------------------------------------
(* Properties. *)

(* Types of the ontology, the annotations and the running call. *)
SemanticTypeOK ==
  /\ resolver \in {"static", "live"}
  /\ known \subseteq Concepts /\ permitted \subseteq Permissible
  /\ DOMAIN annotations \subseteq Names
  /\ \A f \in DOMAIN annotations : annotations[f] \in FieldSemantics
  /\ pc \in {"idle", "names", "field", "target", "permission", "returned"}
  /\ schema \in Seq(Names) /\ doc \subseteq Names
  /\ at \in 1..(Len(schema) + 1)
  /\ pc \in {"target", "permission"} => at <= Len(schema) /\ n \in DOMAIN RelationsHere
  /\ seen \in [Questions(schema, doc) -> SUBSET BOOLEAN]
  /\ issues \subseteq [about : Questions(schema, doc), code : {"no", "unavailable"}]
  /\ reply = NoReply <=> pc # "returned"

(* Fail closed, and complete (validate.rs:64-76): in a report, a question  *)
(* with no issue had the answer yes at some moment of the call, and one    *)
(* reported unknown or not permitted had the answer no, however the        *)
(* ontology changed between the resolver calls and whichever failed.       *)
ReportIsJustified ==
  reply.status = "report" =>
    \A q \in Questions(schema, doc) :
      /\ [about |-> q, code |-> "no"] \in reply.issues => FALSE \in seen[q]
      /\ (\A i \in reply.issues : i.about # q) => TRUE \in seen[q]

(* resolver.rs:44-47: a permitted relation implies that both its ends      *)
(* exist.  With the StaticResolver, two checks that never look at each     *)
(* other agree: a relation reported permitted is between concepts reported *)
(* known.                                                                  *)
PermittedEndsAreKnown ==
  resolver = "static" /\ reply.status = "report" =>
    \A q \in Questions(schema, doc) :
      q.of = "permission" /\ (\A i \in reply.issues : i.about # q) =>
        \A i \in reply.issues :
          i.about # About("concept", q.field, 0) /\ i.about # About("target", q.field, q.n)

Asked ==
  IF pc = "idle" THEN [kind |-> "none"]
  ELSE [ kind |-> "call", questions |-> Questions(schema, doc),
         unknown |-> UnknownFields(schema) ]

Promise == INSTANCE SemanticPromise WITH request <- Asked

(* The resolver calls, made one by one, implement the one report promised. *)
KeepsPromise == Promise!Spec

(* However long the list of fields and relations, and whichever resolver   *)
(* calls fail, validate_semantic returns.                                  *)
CallReturns == Promise!Responsive
=============================================================================
