---------------------- MODULE SemanticValidationProofs ----------------------
(***************************************************************************)
(* Proofs about SemanticValidation, for every value of its constants: any  *)
(* ontology, any annotations, any schemas and documents, and an ontology   *)
(* that may change any number of times during a call.                      *)
(***************************************************************************)
EXTENDS SemanticValidation, TLAPS

-----------------------------------------------------------------------------
(* The inductive invariant. *)

Running == pc \in {"names", "field", "target", "permission"}

Reply ==
  {NoReply}
    \cup [status : {"report"},
          issues : SUBSET [about : Questions(schema, doc), code : {"no", "unavailable"}]]
    \cup [status : {"unknown field"}, field : UnknownFields(schema)]

(* Where a call stands. *)
CallShape ==
  /\ reply \in Reply
  /\ pc = "idle" => schema = << >> /\ doc = {} /\ seen = << >>
  /\ pc \in {"idle", "names"} => at = 1 /\ issues = {}
  /\ pc \in {"idle", "names", "field"} => n = 0
  /\ pc \in {"field", "target", "permission"} => UnknownFields(schema) = {}
  /\ pc \in {"target", "permission"} => FieldHere \in Checked(schema, doc)

(* What the history holds of every question: the answer of this moment.    *)
SeenIsCurrent ==
  pc # "idle" =>
    \A q \in Questions(schema, doc) : Fact(q, known, permitted) \in seen[q]

(* The questions the call has asked so far. *)
AskedHere(q) ==
  /\ pc \in {"target", "permission"}
  /\ q.field = FieldHere
  /\ \/ q.of = "concept"
     \/ q.n < n
     \/ q.n = n /\ q.of = "target" /\ pc = "permission"

AskedSoFar(q) ==
  \/ \E j \in 1..(at - 1) : schema[j] = q.field
  \/ AskedHere(q)

(* ReportIsJustified, of the questions asked so far. *)
IssuesAreJustified ==
  \A q \in Questions(schema, doc) :
    /\ [about |-> q, code |-> "no"] \in issues => FALSE \in seen[q]
    /\ AskedSoFar(q) /\ (\A i \in issues : i.about # q) => TRUE \in seen[q]

(* A StaticResolver answers, and always the same. *)
StaticAnswers ==
  resolver = "static" =>
    /\ \A triple \in permitted : EndsOf(triple) \subseteq known
    /\ \A i \in issues : i.code = "no"
    /\ reply.status = "report" => \A i \in reply.issues : i.code = "no"
    /\ pc # "idle" =>
         \A q \in Questions(schema, doc) : seen[q] = {Fact(q, known, permitted)}

SemanticInv ==
  /\ SemanticTypeOK
  /\ CallShape
  /\ SeenIsCurrent
  /\ IssuesAreJustified
  /\ StaticAnswers
  /\ ReportIsJustified
-----------------------------------------------------------------------------
(* Questions and facts. *)

(* A question is the one about a checked field's concept, or one of the    *)
(* two about each of its relations.                                        *)
LEMMA QuestionCases ==
  ASSUME NEW fields, NEW document
  PROVE  \A q : q \in Questions(fields, document) <=>
           \E f \in Checked(fields, document) :
             \/ q = About("concept", f, 0)
             \/ \E of \in {"target", "permission"}, k \in DOMAIN annotations[f].relations :
                  q = About(of, f, k)
BY DEF Questions

LEMMA NoFieldsNoQuestions == Questions(<< >>, {}) = {}
BY DEF Questions, Checked

(* What the answers to the three questions are. *)
LEMMA FactCases ==
  ASSUME NEW concepts, NEW triples, NEW f, NEW k
  PROVE  /\ Fact(About("concept", f, k), concepts, triples) <=>
              annotations[f].concept \in concepts
         /\ Fact(About("target", f, k), concepts, triples) <=>
              annotations[f].relations[k].target \in concepts
         /\ Fact(About("permission", f, k), concepts, triples) <=>
              << annotations[f].concept, annotations[f].relations[k].relation,
                 annotations[f].relations[k].target >> \in triples
BY DEF Fact, About

LEMMA FactIsBoolean ==
  ASSUME NEW fields, NEW document, NEW concepts, NEW triples, NEW q \in Questions(fields, document)
  PROVE  Fact(q, concepts, triples) \in BOOLEAN
<1>1. q.of \in {"concept", "target", "permission"}
  BY QuestionCases DEF About
<1>2. CASE q.of = "concept"
  <2>1. Fact(q, concepts, triples) = (annotations[q.field].concept \in concepts)
    BY <1>2 DEF Fact
  <2>2. QED
    BY <2>1
<1>3. CASE q.of = "target"
  <2>1. Fact(q, concepts, triples) = (annotations[q.field].relations[q.n].target \in concepts)
    BY <1>3 DEF Fact
  <2>2. QED
    BY <2>1
<1>4. CASE q.of = "permission"
  <2>1. Fact(q, concepts, triples) =
          (<< annotations[q.field].concept, annotations[q.field].relations[q.n].relation,
              annotations[q.field].relations[q.n].target >> \in triples)
    BY <1>4 DEF Fact
  <2>2. QED
    BY <2>1
<1>5. QED
  BY <1>1, <1>2, <1>3, <1>4

-----------------------------------------------------------------------------
(* Outside the calls. *)

LEMMA InitSemantic == SemanticInit => SemanticInv
<1> SUFFICES ASSUME SemanticInit PROVE SemanticInv
  OBVIOUS
<1> USE DEF SemanticInit, NoReply
<1>1. Questions(schema, doc) = {} /\ seen = << >> /\ DOMAIN seen = {}
  BY NoFieldsNoQuestions
<1>2. SemanticTypeOK
  <2>1. seen \in [{} -> SUBSET BOOLEAN]
    BY <1>1
  <2>2. DOMAIN annotations = {} /\ schema \in Seq(Names) /\ Len(schema) = 0
    OBVIOUS
  <2>3. QED
    BY <1>1, <2>1, <2>2 DEF SemanticTypeOK
<1>3. CallShape
  BY DEF CallShape, Reply
<1>4. SeenIsCurrent /\ IssuesAreJustified /\ StaticAnswers /\ ReportIsJustified
  BY <1>1 DEF SeenIsCurrent, IssuesAreJustified, StaticAnswers, ReportIsJustified
<1>5. QED
  BY <1>2, <1>3, <1>4 DEF SemanticInv

(* The builders of a StaticResolver: no call is running. *)
LEMMA BuildersKeepSemantic ==
  ASSUME SemanticInv,
         \/ \E id \in Concepts : WithConcept(id)
         \/ \E triple \in Permissible : WithRelation(triple)
  PROVE  SemanticInv'
<1>1. /\ pc = "idle" /\ resolver = "static"
      /\ UNCHANGED << resolver, annotations, positionVars, argumentVars, issues, reply, historyVars >>
      /\ known \subseteq known' /\ known' \subseteq Concepts
      /\ permitted' \subseteq Permissible
      /\ \A triple \in permitted' : triple \in permitted \/ EndsOf(triple) \subseteq known'
  <2>1. CASE \E id \in Concepts : WithConcept(id)
    BY <2>1 DEF WithConcept, SemanticInv, SemanticTypeOK
  <2>2. CASE \E triple \in Permissible : WithRelation(triple)
    BY <2>2, PermissibleAssumption
       DEF WithRelation, SemanticInv, SemanticTypeOK, EndsOf, Triples
  <2>3. QED
    BY <2>1, <2>2
<1>2. /\ UNCHANGED Questions(schema, doc)
      /\ schema = << >> /\ doc = {} /\ Questions(schema, doc) = {} /\ issues = {} /\ reply = NoReply
  BY <1>1, NoFieldsNoQuestions
     DEF argumentVars, Questions, Checked, SemanticInv, CallShape, SemanticTypeOK
<1> USE DEF positionVars, argumentVars, historyVars
<1>3. SemanticTypeOK'
  BY <1>1, <1>2 DEF SemanticInv, SemanticTypeOK, RelationsHere, FieldHere
<1>4. CallShape'
  BY <1>1, <1>2 DEF SemanticInv, CallShape, Reply, NoReply
<1>5. StaticAnswers'
  BY <1>1, <1>2 DEF SemanticInv, StaticAnswers, EndsOf, NoReply
<1>6. SeenIsCurrent' /\ IssuesAreJustified' /\ ReportIsJustified'
  BY <1>1, <1>2 DEF SeenIsCurrent, IssuesAreJustified, ReportIsJustified, NoReply
<1>7. QED
  BY <1>3, <1>4, <1>5, <1>6 DEF SemanticInv

LEMMA AnnotateKeepsSemantic ==
  ASSUME SemanticInv, NEW name \in Names, NEW semantics \in Semantics, Annotate(name, semantics)
  PROVE  SemanticInv'
<1>1. /\ pc = "idle" /\ DOMAIN annotations' \subseteq Names
      /\ \A f \in DOMAIN annotations' : annotations'[f] \in FieldSemantics
      /\ UNCHANGED << ontologyVars, positionVars, argumentVars, issues, reply, historyVars >>
  BY SemanticsAssumption DEF Annotate, SemanticInv, SemanticTypeOK
<1>2. /\ schema = << >> /\ doc = {} /\ issues = {} /\ reply = NoReply
      /\ Questions(schema, doc) = {} /\ Questions(schema, doc)' = {}
  BY <1>1, NoFieldsNoQuestions
     DEF argumentVars, Questions, Checked, SemanticInv, CallShape, SemanticTypeOK
<1> USE DEF ontologyVars, positionVars, argumentVars, historyVars
<1>3. SemanticTypeOK'
  BY <1>1, <1>2 DEF SemanticInv, SemanticTypeOK
<1>4. CallShape'
  BY <1>1, <1>2 DEF SemanticInv, CallShape, Reply
<1>5. StaticAnswers' /\ SeenIsCurrent' /\ IssuesAreJustified' /\ ReportIsJustified'
  BY <1>1, <1>2
     DEF SemanticInv, StaticAnswers, SeenIsCurrent, IssuesAreJustified, ReportIsJustified, NoReply
<1>6. QED
  BY <1>3, <1>4, <1>5 DEF SemanticInv

(* A live ontology that moves: what was seen stays seen, and the answers   *)
(* it would give now are added.                                            *)
LEMMA MoveIsRecorded ==
  ASSUME SemanticInv, NEW concepts, NEW triples, OntologyMoves(concepts, triples)
  PROVE  /\ seen' \in [Questions(schema, doc) -> SUBSET BOOLEAN]
         /\ \A q \in Questions(schema, doc) : seen[q] \subseteq seen'[q]
         /\ pc # "idle" => \A q \in Questions(schema, doc) : Fact(q, concepts, triples) \in seen'[q]
<1>1. DOMAIN seen = Questions(schema, doc) /\ seen \in [Questions(schema, doc) -> SUBSET BOOLEAN]
  BY DEF SemanticInv, SemanticTypeOK
<1>2. CASE pc = "idle"
  BY <1>1, <1>2 DEF OntologyMoves, Recorded
<1>3. CASE pc # "idle"
  <2>1. seen' = [q \in Questions(schema, doc) |-> seen[q] \cup {Fact(q, concepts, triples)}]
    BY <1>1, <1>3 DEF OntologyMoves, Recorded
  <2>2. \A q \in Questions(schema, doc) : Fact(q, concepts, triples) \in BOOLEAN
    BY FactIsBoolean
  <2>3. QED
    BY <1>1, <2>1, <2>2
<1>4. QED
  BY <1>2, <1>3

LEMMA MovesKeepSemantic ==
  ASSUME SemanticInv, NEW concepts \in SUBSET Concepts, NEW triples \in SUBSET Permissible,
         OntologyMoves(concepts, triples)
  PROVE  SemanticInv'
<1>1. /\ resolver = "live" /\ pc # "returned"
      /\ known' = concepts /\ permitted' = triples
      /\ UNCHANGED << resolver, annotations, positionVars, argumentVars, issues, reply >>
  BY DEF OntologyMoves
<1>2. /\ UNCHANGED << Questions(schema, doc), UnknownFields(schema), Checked(schema, doc) >>
      /\ \A q : AskedSoFar(q)' = AskedSoFar(q)
  BY <1>1 DEF argumentVars, positionVars, Questions, Checked, UnknownFields, AskedSoFar, AskedHere,
     FieldHere
<1>3. reply = NoReply
  BY <1>1 DEF SemanticInv, SemanticTypeOK
<1> USE DEF positionVars, argumentVars
<1>4. SemanticTypeOK'
  BY <1>1, <1>2, MoveIsRecorded DEF SemanticInv, SemanticTypeOK, RelationsHere, FieldHere
<1>5. CallShape'
  <2>1. pc = "idle" => seen' = seen
    BY DEF OntologyMoves, Recorded
  <2>2. QED
    BY <1>1, <1>2, <2>1 DEF SemanticInv, CallShape, Reply, NoReply, FieldHere
<1>6. SeenIsCurrent'
  BY <1>1, <1>2, MoveIsRecorded DEF SeenIsCurrent, Fact
<1>7. IssuesAreJustified'
  BY <1>1, <1>2, MoveIsRecorded DEF SemanticInv, IssuesAreJustified
<1>8. StaticAnswers' /\ ReportIsJustified'
  BY <1>1, <1>3 DEF StaticAnswers, ReportIsJustified, NoReply
<1>9. QED
  BY <1>4, <1>5, <1>6, <1>7, <1>8 DEF SemanticInv

-----------------------------------------------------------------------------
(* The steps of a call. *)

LEMMA CallKeepsSemantic ==
  ASSUME SemanticInv, NEW fields \in Schemas, NEW document \in Documents, Call(fields, document)
  PROVE  SemanticInv'
<1>1. /\ pc = "idle" /\ pc' = "names" /\ schema' = fields /\ doc' = document
      /\ UNCHANGED << ontologyVars, annotations, at, n, issues, reply >>
  BY DEF Call
<1>2. /\ Questions(schema, doc)' = Questions(fields, document)
      /\ UnknownFields(schema)' = UnknownFields(fields)
  BY <1>1 DEF Questions, Checked, UnknownFields
<1>3. /\ at = 1 /\ n = 0 /\ issues = {} /\ reply = NoReply
      /\ fields \in Seq(Names) /\ Len(fields) \in Nat /\ document \subseteq Names
  BY <1>1, SchemasAssumption, DocumentsAssumption
     DEF SemanticInv, CallShape, SemanticTypeOK
<1>4. \A q \in Questions(fields, document) :
        Fact(q, known, permitted) \in BOOLEAN /\ seen'[q] = {Fact(q, known, permitted)}
  BY FactIsBoolean DEF Call
<1>5. seen' \in [Questions(fields, document) -> SUBSET BOOLEAN]
  BY <1>4 DEF Call
<1> USE DEF ontologyVars
<1>6. SemanticTypeOK'
  BY <1>1, <1>2, <1>3, <1>5 DEF SemanticInv, SemanticTypeOK
<1>7. CallShape'
  BY <1>1, <1>3 DEF CallShape, Reply
<1>8. SeenIsCurrent'
  BY <1>1, <1>2, <1>4 DEF SeenIsCurrent, Fact
<1>9. IssuesAreJustified'
  <2>1. \A q : ~AskedSoFar(q)'
    BY <1>1, <1>3 DEF AskedSoFar, AskedHere
  <2>2. QED
    BY <1>1, <1>3, <2>1 DEF IssuesAreJustified
<1>10. StaticAnswers'
  BY <1>1, <1>2, <1>3, <1>4 DEF SemanticInv, StaticAnswers, NoReply, EndsOf, Fact
<1>11. ReportIsJustified'
  BY <1>1, <1>3 DEF ReportIsJustified, NoReply
<1>12. QED
  BY <1>6, <1>7, <1>8, <1>9, <1>10, <1>11 DEF SemanticInv

(* What every step inside a call leaves alone. *)
LEMMA StepFrame ==
  ASSUME UNCHANGED << ontologyVars, annotations, argumentVars, seen >>
  PROVE  /\ UNCHANGED << Questions(schema, doc), UnknownFields(schema), Checked(schema, doc) >>
         /\ UNCHANGED << known, permitted, resolver, schema, doc, annotations, seen >>
         /\ \A q : Fact(q, known, permitted)' = Fact(q, known, permitted)
BY DEF ontologyVars, argumentVars, Questions, Checked, UnknownFields, Fact

(* A step that leaves the issues alone and answers no question anew. *)
LEMMA QuietStepKeepsSemantic ==
  ASSUME SemanticInv, pc \in {"names", "field"}, pc' \in {"field", "returned"},
         UNCHANGED << ontologyVars, annotations, argumentVars, seen, issues >>,
         at' \in 1..(Len(schema) + 1),
         pc' = "field" => n' = 0 /\ UnknownFields(schema) = {},
         \A q \in Questions(schema, doc) : AskedSoFar(q)' => AskedSoFar(q),
         reply' \in Reply,
         reply' = NoReply <=> pc' # "returned",
         reply'.status = "report" =>
           reply'.issues = issues /\ \A q \in Questions(schema, doc) : AskedSoFar(q)
  PROVE  SemanticInv'
<1> USE StepFrame
<1>1. SemanticTypeOK'
  BY DEF SemanticInv, SemanticTypeOK
<1>2. CallShape'
  BY DEF SemanticInv, CallShape, Reply
<1>3. SeenIsCurrent'
  BY DEF SemanticInv, SeenIsCurrent
<1>4. IssuesAreJustified'
  BY DEF SemanticInv, IssuesAreJustified
<1>5. StaticAnswers'
  BY DEF SemanticInv, StaticAnswers
<1>6. ReportIsJustified'
  BY DEF SemanticInv, IssuesAreJustified, ReportIsJustified
<1>7. QED
  BY <1>1, <1>2, <1>3, <1>4, <1>5, <1>6 DEF SemanticInv

(* A report is given when every question was asked. *)
LEMMA AllAsked ==
  ASSUME SemanticInv, at > Len(schema), NEW q \in Questions(schema, doc)
  PROVE  AskedSoFar(q)
<1>1. q.field \in Range(schema)
  BY QuestionCases DEF Checked, About
<1>2. \E j \in 1..Len(schema) : schema[j] = q.field
  BY <1>1 DEF Range, SemanticInv, SemanticTypeOK
<1>3. QED
  BY <1>2 DEF AskedSoFar, SemanticInv, SemanticTypeOK

LEMMA QuietStepsKeepSemantic ==
  ASSUME SemanticInv, NamesPass \/ NamesFail \/ SkipField \/ Return
  PROVE  SemanticInv'
<1>1. CASE NamesPass
  <2>1. \A q : ~AskedSoFar(q)'
    BY <1>1 DEF NamesPass, SemanticInv, CallShape, AskedSoFar, AskedHere
  <2>2. at = 1 /\ at' = at /\ n' = 0 /\ Len(schema) \in Nat /\ reply = NoReply
    BY <1>1 DEF NamesPass, SemanticInv, CallShape, SemanticTypeOK
  <2>3. QED
    BY <1>1, <2>1, <2>2, QuietStepKeepsSemantic
       DEF NamesPass, historyVars, Reply, NoReply, SemanticInv, SemanticTypeOK
<1>2. CASE NamesFail
  <2>1. PICK name \in UnknownFields(schema) :
          reply' = [status |-> "unknown field", field |-> name]
    BY <1>2 DEF NamesFail
  <2>2. /\ pc = "names" /\ pc' = "returned" /\ at' = at
        /\ UNCHANGED << ontologyVars, annotations, argumentVars, issues, seen >>
    BY <1>2 DEF NamesFail, historyVars
  <2>3. at = 1 /\ Len(schema) \in Nat
    BY <2>2 DEF SemanticInv, SemanticTypeOK, CallShape
  <2>4. \A q : ~AskedSoFar(q)'
    BY <2>2, <2>3 DEF AskedSoFar, AskedHere
  <2>5. reply' \in Reply /\ reply' # NoReply /\ reply'.status = "unknown field"
    BY <2>1 DEF Reply, NoReply
  <2>6. at' \in 1..(Len(schema) + 1)
    BY <2>2, <2>3
  <2>7. reply' = NoReply <=> pc' # "returned"
    BY <2>2, <2>5
  <2>8. reply'.status # "report"
    BY <2>5
  <2>9. QED
    BY <2>2, <2>4, <2>5, <2>6, <2>7, <2>8, QuietStepKeepsSemantic
<1>3. CASE SkipField
  <2>1. \A q \in Questions(schema, doc) : AskedSoFar(q)' => AskedSoFar(q)
    <3>1. SUFFICES ASSUME NEW q \in Questions(schema, doc), AskedSoFar(q)' PROVE AskedSoFar(q)
      OBVIOUS
    <3>2. PICK j \in 1..at : schema[j] = q.field
      BY <1>3, <3>1 DEF SkipField, NextField, Elsewhere, AskedSoFar, AskedHere, argumentVars,
         SemanticInv, SemanticTypeOK
    <3>3. q.field \in Checked(schema, doc)
      BY <3>1, QuestionCases DEF About
    <3>4. j # at
      BY <1>3, <3>2, <3>3 DEF SkipField, FieldHere
    <3>5. QED
      BY <3>2, <3>4 DEF AskedSoFar, SemanticInv, SemanticTypeOK
  <2>2. reply = NoReply /\ Len(schema) \in Nat /\ at \in 1..Len(schema) /\ at' = at + 1
    BY <1>3 DEF SkipField, NextField, SemanticInv, SemanticTypeOK
  <2>3. QED
    BY <1>3, <2>1, <2>2, QuietStepKeepsSemantic
       DEF SkipField, NextField, Elsewhere, historyVars, Reply, NoReply, SemanticInv, CallShape
<1>4. CASE Return
  <2>1. \A q \in Questions(schema, doc) : AskedSoFar(q)
    BY <1>4, AllAsked DEF Return
  <2>2. /\ reply' \in Reply /\ reply' # NoReply /\ reply'.status = "report"
        /\ reply'.issues = issues
    BY <1>4 DEF Return, Reply, NoReply, SemanticInv, SemanticTypeOK
  <2>3. QED
    BY <1>4, <2>1, <2>2, QuietStepKeepsSemantic DEF Return, historyVars, SemanticInv, SemanticTypeOK
<1>5. QED
  BY <1>1, <1>2, <1>3, <1>4

(* One resolver call, whichever way it goes. *)
LEMMA ResolveJustifies ==
  ASSUME SemanticInv, pc # "idle", NEW q \in Questions(schema, doc), Resolve(q)
  PROVE  /\ issues' \subseteq [about : Questions(schema, doc), code : {"no", "unavailable"}]
         /\ resolver = "static" => \A i \in issues' : i.code = "no"
         /\ \A p \in Questions(schema, doc) :
              /\ [about |-> p, code |-> "no"] \in issues' => FALSE \in seen[p]
              /\ (AskedSoFar(p) \/ p = q) /\ (\A i \in issues' : i.about # p) => TRUE \in seen[p]
<1>1. Fact(q, known, permitted) \in BOOLEAN /\ Fact(q, known, permitted) \in seen[q]
  BY FactIsBoolean DEF SemanticInv, SeenIsCurrent
<1>2. /\ issues \subseteq [about : Questions(schema, doc), code : {"no", "unavailable"}]
      /\ resolver = "static" => \A i \in issues : i.code = "no"
  BY DEF SemanticInv, SemanticTypeOK, StaticAnswers
<1>3. \A p \in Questions(schema, doc) :
        /\ [about |-> p, code |-> "no"] \in issues => FALSE \in seen[p]
        /\ AskedSoFar(p) /\ (\A i \in issues : i.about # p) => TRUE \in seen[p]
  BY DEF SemanticInv, IssuesAreJustified
<1>4. CASE Fact(q, known, permitted) /\ UNCHANGED issues
  <2>1. TRUE \in seen[q]
    BY <1>1, <1>4
  <2>2. QED
    BY <1>2, <1>3, <1>4, <2>1
<1>5. CASE /\ ~Fact(q, known, permitted)
           /\ issues' = issues \cup {[about |-> q, code |-> "no"]}
  <2>1. FALSE \in seen[q]
    BY <1>1, <1>5
  <2>2. \A i \in issues' : i \in issues \/ (i.about = q /\ i.code = "no")
    BY <1>5
  <2>3. [about |-> q, code |-> "no"] \in issues' /\ issues \subseteq issues'
    BY <1>5
  <2>4. issues' \subseteq [about : Questions(schema, doc), code : {"no", "unavailable"}]
    BY <1>2, <1>5
  <2>5. \A p \in Questions(schema, doc) : [about |-> p, code |-> "no"] \in issues' => FALSE \in seen[p]
    BY <1>3, <2>1, <2>2
  <2>6. QED
    BY <1>2, <1>3, <2>2, <2>3, <2>4, <2>5
<1>6. CASE resolver = "live" /\ issues' = issues \cup {[about |-> q, code |-> "unavailable"]}
  <2>1. \A i \in issues' : i \in issues \/ (i.about = q /\ i.code = "unavailable")
    BY <1>6
  <2>2. [about |-> q, code |-> "unavailable"] \in issues' /\ issues \subseteq issues'
    BY <1>6
  <2>3. issues' \subseteq [about : Questions(schema, doc), code : {"no", "unavailable"}]
    BY <1>2, <1>6
  <2>4. \A p \in Questions(schema, doc) : [about |-> p, code |-> "no"] \in issues' => FALSE \in seen[p]
    BY <1>3, <2>1
  <2>5. QED
    BY <1>3, <1>6, <2>2, <2>3, <2>4
<1>7. QED
  BY <1>4, <1>5, <1>6 DEF Resolve, Unavailable

(* A check: one resolver call about q, after which q is asked too.         *)
LEMMA CheckKeepsSemantic ==
  ASSUME SemanticInv, pc \in {"field", "target", "permission"},
         NEW q \in Questions(schema, doc), Resolve(q), Elsewhere,
         pc' \in {"field", "target", "permission"},
         at' \in 1..(Len(schema) + 1),
         pc' = "field" => n' = 0,
         pc' # "field" =>
           at' = at /\ at <= Len(schema) /\ n' \in DOMAIN RelationsHere
             /\ FieldHere \in Checked(schema, doc),
         \A p \in Questions(schema, doc) : AskedSoFar(p)' => AskedSoFar(p) \/ p = q
  PROVE  SemanticInv'
<1>1. UNCHANGED << ontologyVars, annotations, argumentVars, seen, reply >>
  BY DEF Elsewhere, historyVars
<1>2. /\ UNCHANGED << Questions(schema, doc), UnknownFields(schema), Checked(schema, doc) >>
      /\ UNCHANGED << known, permitted, resolver, schema, doc, annotations, seen >>
      /\ \A p : Fact(p, known, permitted)' = Fact(p, known, permitted)
  BY <1>1, StepFrame
<1>3. reply = NoReply
  BY DEF SemanticInv, SemanticTypeOK
<1>4. pc' # "field" => UNCHANGED << FieldHere, RelationsHere >>
  BY <1>2 DEF FieldHere, RelationsHere
<1>5. SemanticTypeOK'
  BY <1>1, <1>2, <1>3, <1>4, ResolveJustifies DEF SemanticInv, SemanticTypeOK
<1>6. CallShape'
  BY <1>1, <1>2, <1>3, <1>4 DEF SemanticInv, CallShape, Reply, NoReply
<1>7. SeenIsCurrent'
  BY <1>2 DEF SemanticInv, SeenIsCurrent
<1>8. IssuesAreJustified'
  BY <1>2, ResolveJustifies DEF IssuesAreJustified
<1>9. StaticAnswers'
  <2>1. resolver = "static" => \A i \in issues' : i.code = "no"
    BY ResolveJustifies
  <2>2. reply' = NoReply /\ pc # "idle" /\ pc' # "idle"
    BY <1>1, <1>3
  <2>3. QED
    BY <1>2, <2>1, <2>2 DEF SemanticInv, StaticAnswers, NoReply, EndsOf
<1>10. ReportIsJustified'
  BY <1>1, <1>3 DEF ReportIsJustified, NoReply
<1>11. QED
  BY <1>5, <1>6, <1>7, <1>8, <1>9, <1>10 DEF SemanticInv

(* The questions a checked field raises. *)
LEMMA QuestionsHere ==
  ASSUME FieldHere \in Checked(schema, doc), annotations[FieldHere] \in FieldSemantics
  PROVE  /\ About("concept", FieldHere, 0) \in Questions(schema, doc)
         /\ \A k \in DOMAIN RelationsHere :
              /\ About("target", FieldHere, k) \in Questions(schema, doc)
              /\ About("permission", FieldHere, k) \in Questions(schema, doc)
         /\ \A p \in Questions(schema, doc) : p.field = FieldHere =>
              \/ p = About("concept", FieldHere, 0)
              \/ /\ p.of \in {"target", "permission"} /\ p.n \in DOMAIN RelationsHere
                 /\ p = About(p.of, FieldHere, p.n)
         /\ Len(RelationsHere) \in Nat /\ DOMAIN RelationsHere = 1..Len(RelationsHere)
<1>1. RelationsHere \in Seq([relation : Relations, target : Concepts])
  BY DEF RelationsHere, FieldSemantics
<1>2. /\ About("concept", FieldHere, 0) \in Questions(schema, doc)
      /\ \A k \in DOMAIN RelationsHere :
           /\ About("target", FieldHere, k) \in Questions(schema, doc)
           /\ About("permission", FieldHere, k) \in Questions(schema, doc)
  BY QuestionCases DEF RelationsHere
<1>3. ASSUME NEW p \in Questions(schema, doc), p.field = FieldHere
      PROVE  \/ p = About("concept", FieldHere, 0)
             \/ /\ p.of \in {"target", "permission"} /\ p.n \in DOMAIN RelationsHere
                /\ p = About(p.of, FieldHere, p.n)
  <2>1. PICK f \in Checked(schema, doc) :
          \/ p = About("concept", f, 0)
          \/ \E of \in {"target", "permission"}, k \in DOMAIN annotations[f].relations :
               p = About(of, f, k)
    BY <1>3, QuestionCases
  <2>2. f = FieldHere
    BY <1>3, <2>1 DEF About
  <2>3. QED
    BY <2>1, <2>2 DEF About, RelationsHere
<1>4. QED
  BY <1>1, <1>2, <1>3

(* After a check the call goes on to the next relation, or the next field. *)
LEMMA NextRelationAsks ==
  ASSUME SemanticInv, FieldHere \in Checked(schema, doc), at \in 1..Len(schema),
         NEW m \in Nat, m = n, NextRelation, Elsewhere,
         m <= Len(RelationsHere)
  PROVE  /\ pc' \in {"field", "target"}
         /\ at' \in 1..(Len(schema) + 1)
         /\ pc' = "field" => n' = 0
         /\ pc' # "field" => at' = at /\ n' \in DOMAIN RelationsHere
         /\ \A p \in Questions(schema, doc) :
              AskedSoFar(p)' =>
                \/ AskedSoFar(p)
                \/ p = About("concept", FieldHere, 0)
                \/ p.field = FieldHere /\ p.n \in 1..m
<1>1. annotations[FieldHere] \in FieldSemantics
  BY DEF SemanticInv, SemanticTypeOK, Checked
<1>2. /\ Len(RelationsHere) \in Nat /\ DOMAIN RelationsHere = 1..Len(RelationsHere)
      /\ \A p \in Questions(schema, doc) : p.field = FieldHere =>
           p = About("concept", FieldHere, 0) \/ p.n \in 1..Len(RelationsHere)
  BY <1>1, QuestionsHere
<1>3. schema' = schema /\ Len(schema) \in Nat
  BY DEF Elsewhere, argumentVars, SemanticInv, SemanticTypeOK
<1>4. CASE n < Len(RelationsHere)
  <2>1. pc' = "target" /\ n' = m + 1 /\ at' = at
    BY <1>4 DEF NextRelation
  <2>2. n' \in DOMAIN RelationsHere
    BY <1>2, <1>4, <2>1
  <2>3. ASSUME NEW p \in Questions(schema, doc), AskedSoFar(p)', ~AskedSoFar(p)
        PROVE  p = About("concept", FieldHere, 0) \/ (p.field = FieldHere /\ p.n \in 1..m)
    <3>1. p.field = FieldHere /\ (p.of = "concept" \/ p.n < m + 1)
      BY <1>3, <2>1, <2>3 DEF AskedSoFar, AskedHere, FieldHere
    <3>2. p = About("concept", FieldHere, 0) \/ (p.of # "concept" /\ p.n \in 1..Len(RelationsHere))
      BY <1>1, <3>1, QuestionsHere
    <3>3. QED
      BY <1>2, <3>1, <3>2
  <2>4. QED
    BY <1>3, <2>1, <2>2, <2>3
<1>5. CASE ~(n < Len(RelationsHere))
  <2>1. pc' = "field" /\ at' = at + 1 /\ n' = 0 /\ m = Len(RelationsHere)
    <3>1. NextField
      BY <1>5 DEF NextRelation
    <3>2. pc' = "field" /\ at' = at + 1 /\ n' = 0
      BY <3>1 DEF NextField
    <3>3. Len(RelationsHere) \in Nat /\ ~(m < Len(RelationsHere))
      BY <1>2, <1>5
    <3>4. m = Len(RelationsHere)
      BY <3>3
    <3>5. QED
      BY <3>2, <3>4
  <2>2. ASSUME NEW p \in Questions(schema, doc), AskedSoFar(p)', ~AskedSoFar(p)
        PROVE  p = About("concept", FieldHere, 0) \/ (p.field = FieldHere /\ p.n \in 1..m)
    <3>1. \E j \in 1..at : schema[j] = p.field
      BY <1>3, <2>1, <2>2 DEF AskedSoFar, AskedHere
    <3>2. p.field = FieldHere
      BY <2>2, <3>1 DEF AskedSoFar, FieldHere
    <3>3. QED
      BY <1>2, <2>1, <3>2
  <2>3. QED
    BY <1>3, <2>1, <2>2
<1>6. QED
  BY <1>4, <1>5

LEMMA ConceptKeepsSemantic ==
  ASSUME SemanticInv, CheckConcept
  PROVE  SemanticInv'
<1> DEFINE q == About("concept", FieldHere, 0)
<1>1. /\ pc = "field" /\ FieldHere \in Checked(schema, doc)
      /\ at \in 1..Len(schema) /\ Resolve(q) /\ NextRelation /\ Elsewhere
  BY DEF CheckConcept, SemanticInv, SemanticTypeOK
<1>2. annotations[FieldHere] \in FieldSemantics
  BY <1>1 DEF SemanticInv, SemanticTypeOK, Checked
<1>3. q \in Questions(schema, doc) /\ Len(RelationsHere) \in Nat
  BY <1>1, <1>2, QuestionsHere
<1>4. n = 0
  BY <1>1 DEF SemanticInv, CallShape
<1>5. /\ pc' \in {"field", "target"} /\ at' \in 1..(Len(schema) + 1)
      /\ pc' = "field" => n' = 0
      /\ pc' # "field" => at' = at /\ n' \in DOMAIN RelationsHere
      /\ \A p \in Questions(schema, doc) : AskedSoFar(p)' => AskedSoFar(p) \/ p = q
  BY <1>1, <1>3, <1>4, NextRelationAsks
<1>6. QED
  BY <1>1, <1>3, <1>5, CheckKeepsSemantic

LEMMA TargetKeepsSemantic ==
  ASSUME SemanticInv, CheckTarget
  PROVE  SemanticInv'
<1> DEFINE q == About("target", FieldHere, n)
<1>1. /\ pc = "target" /\ FieldHere \in Checked(schema, doc)
      /\ at \in 1..Len(schema) /\ n \in DOMAIN RelationsHere
      /\ Resolve(q) /\ Elsewhere
      /\ pc' = "permission" /\ at' = at /\ n' = n
  BY DEF CheckTarget, AfterTarget, SemanticInv, SemanticTypeOK, CallShape
<1>2. annotations[FieldHere] \in FieldSemantics
  BY <1>1 DEF SemanticInv, SemanticTypeOK, Checked
<1>3. q \in Questions(schema, doc)
  BY <1>1, <1>2, QuestionsHere
<1>4. ASSUME NEW p \in Questions(schema, doc), AskedSoFar(p)', ~AskedSoFar(p)
      PROVE  p = q
  <2>1. p.field = FieldHere /\ p.of = "target" /\ p.n = n
    BY <1>1, <1>4 DEF AskedSoFar, AskedHere, FieldHere, Elsewhere, argumentVars
  <2>2. p = About("concept", FieldHere, 0) \/ p = About(p.of, FieldHere, p.n)
    BY <1>1, <1>2, <2>1, QuestionsHere
  <2>3. QED
    BY <2>1, <2>2 DEF About
<1>5. QED
  BY <1>1, <1>3, <1>4, CheckKeepsSemantic DEF SemanticInv, SemanticTypeOK

LEMMA PermissionKeepsSemantic ==
  ASSUME SemanticInv, CheckPermission
  PROVE  SemanticInv'
<1> DEFINE q == About("permission", FieldHere, n)
<1>1. /\ pc = "permission" /\ FieldHere \in Checked(schema, doc)
      /\ at \in 1..Len(schema) /\ n \in DOMAIN RelationsHere
      /\ Resolve(q) /\ NextRelation /\ Elsewhere
  BY DEF CheckPermission, SemanticInv, SemanticTypeOK, CallShape
<1>2. annotations[FieldHere] \in FieldSemantics
  BY <1>1 DEF SemanticInv, SemanticTypeOK, Checked
<1>3. /\ q \in Questions(schema, doc)
      /\ n \in Nat /\ n <= Len(RelationsHere)
  BY <1>1, <1>2, QuestionsHere
<1>4. /\ pc' \in {"field", "target"} /\ at' \in 1..(Len(schema) + 1)
      /\ pc' = "field" => n' = 0
      /\ pc' # "field" => at' = at /\ n' \in DOMAIN RelationsHere
      /\ \A p \in Questions(schema, doc) :
           AskedSoFar(p)' =>
             \/ AskedSoFar(p)
             \/ p = About("concept", FieldHere, 0)
             \/ p.field = FieldHere /\ p.n \in 1..n
  BY <1>1, <1>3, NextRelationAsks
<1>5. ASSUME NEW p \in Questions(schema, doc), AskedSoFar(p)', ~AskedSoFar(p)
      PROVE  p = q
  <2>1. p = About("concept", FieldHere, 0) \/ (p.field = FieldHere /\ p.n \in 1..n)
    BY <1>4, <1>5
  <2>2. p.field = FieldHere /\ p.of # "concept"
    BY <1>1, <1>5, <2>1 DEF About, AskedSoFar, AskedHere
  <2>3. /\ p.of \in {"target", "permission"} /\ p = About(p.of, FieldHere, p.n)
        /\ p.n \in 1..n
    BY <1>1, <1>2, <2>1, <2>2, QuestionsHere DEF About
  <2>4. ~(p.n < n) /\ p.of # "target"
    BY <1>1, <1>3, <1>5, <2>2, <2>3 DEF AskedSoFar, AskedHere
  <2>5. p.n = n
    BY <1>3, <2>3, <2>4
  <2>6. QED
    BY <2>3, <2>4, <2>5
<1>6. QED
  BY <1>1, <1>3, <1>4, <1>5, CheckKeepsSemantic

LEMMA TakeReplyKeepsSemantic ==
  ASSUME SemanticInv, TakeReply
  PROVE  SemanticInv'
<1> USE DEF TakeReply
<1>1. Questions(schema, doc)' = {}
  BY NoFieldsNoQuestions DEF Questions, Checked
<1>2. SemanticTypeOK'
  <2>1. (seen \in [Questions(schema, doc) -> SUBSET BOOLEAN])'
    BY <1>1
  <2>2. QED
    BY <2>1 DEF SemanticInv, SemanticTypeOK, ontologyVars
<1>3. CallShape'
  BY DEF CallShape, Reply
<1>4. SeenIsCurrent' /\ IssuesAreJustified' /\ ReportIsJustified'
  BY <1>1 DEF SeenIsCurrent, IssuesAreJustified, ReportIsJustified, NoReply
<1>5. StaticAnswers'
  BY DEF SemanticInv, StaticAnswers, NoReply, ontologyVars, EndsOf
<1>6. QED
  BY <1>2, <1>3, <1>4, <1>5 DEF SemanticInv

-----------------------------------------------------------------------------
(* The theorems. *)

LEMMA SemanticInvKept ==
  ASSUME SemanticInv, [SemanticNext]_vars
  PROVE  SemanticInv'
<1>1. CASE \/ \E id \in Concepts : WithConcept(id)
           \/ \E triple \in Permissible : WithRelation(triple)
  BY <1>1, BuildersKeepSemantic
<1>2. CASE \E name \in Names, semantics \in Semantics : Annotate(name, semantics)
  BY <1>2, AnnotateKeepsSemantic
<1>3. CASE \E concepts \in SUBSET Concepts, triples \in SUBSET Permissible :
             OntologyMoves(concepts, triples)
  BY <1>3, MovesKeepSemantic
<1>4. CASE \E fields \in Schemas, document \in Documents : Call(fields, document)
  BY <1>4, CallKeepsSemantic
<1>5. CASE CallStep
  BY <1>5, QuietStepsKeepSemantic, ConceptKeepsSemantic, TargetKeepsSemantic,
     PermissionKeepsSemantic DEF CallStep
<1>6. CASE TakeReply
  BY <1>6, TakeReplyKeepsSemantic
<1>7. CASE UNCHANGED vars
  <2> USE <1>7 DEF vars, ontologyVars, positionVars, argumentVars, historyVars, SemanticInv
  <2>1. UNCHANGED << Questions(schema, doc), UnknownFields(schema), Checked(schema, doc),
                     FieldHere, RelationsHere >>
    BY DEF Questions, Checked, UnknownFields, FieldHere, RelationsHere
  <2>2. SemanticTypeOK' /\ CallShape'
    BY <2>1 DEF SemanticTypeOK, CallShape, Reply, NoReply
  <2>3. SeenIsCurrent' /\ StaticAnswers'
    BY <2>1 DEF SeenIsCurrent, StaticAnswers, Fact, EndsOf
  <2>4. IssuesAreJustified' /\ ReportIsJustified'
    BY <2>1 DEF IssuesAreJustified, ReportIsJustified, AskedSoFar, AskedHere
  <2>5. QED
    BY <2>2, <2>3, <2>4
<1>8. QED
  BY <1>1, <1>2, <1>3, <1>4, <1>5, <1>6, <1>7 DEF SemanticNext

LEMMA SemanticInvHolds == SemanticSpec => []SemanticInv
<1>1. SemanticInv /\ [SemanticNext]_vars => SemanticInv'
  BY SemanticInvKept
<1>2. QED
  BY InitSemantic, <1>1, PTL DEF SemanticSpec

(* The types of the ontology, the annotations and the running call.        *)
THEOREM SemanticTypeCorrect == SemanticSpec => []SemanticTypeOK
<1>1. SemanticInv => SemanticTypeOK
  BY DEF SemanticInv
<1>2. QED
  BY <1>1, SemanticInvHolds, PTL

(* Whatever the ontology does between the resolver calls, a report is      *)
(* justified: no issue means yes at some moment of the call, and the       *)
(* answer no was given for what is reported unknown or not permitted.      *)
THEOREM ReportsAreJustified == SemanticSpec => []ReportIsJustified
<1>1. SemanticInv => ReportIsJustified
  BY DEF SemanticInv
<1>2. QED
  BY <1>1, SemanticInvHolds, PTL

(* A StaticResolver keeps its concepts and its permissions in step: a      *)
(* relation reported permitted is between concepts reported known.         *)
THEOREM StaticReportsAgree == SemanticSpec => []PermittedEndsAreKnown
<1>1. SemanticInv => PermittedEndsAreKnown
  <2>1. SUFFICES ASSUME SemanticInv, resolver = "static", reply.status = "report",
                        NEW q \in Questions(schema, doc), q.of = "permission",
                        \A i \in reply.issues : i.about # q,
                        NEW i \in reply.issues,
                        \/ i.about = About("concept", q.field, 0)
                        \/ i.about = About("target", q.field, q.n)
                 PROVE  FALSE
    BY DEF PermittedEndsAreKnown
  <2>2. pc # "idle"
    BY <2>1 DEF SemanticInv, SemanticTypeOK, NoReply
  <2>3. \A p \in Questions(schema, doc) : seen[p] = {Fact(p, known, permitted)}
    BY <2>1, <2>2 DEF SemanticInv, StaticAnswers
  <2>4. PICK f \in Checked(schema, doc) :
          \E k \in DOMAIN annotations[f].relations : q = About("permission", f, k)
    BY <2>1, QuestionCases DEF About
  <2>5. PICK k \in DOMAIN annotations[f].relations : q = About("permission", f, k)
    BY <2>4
  <2>6. /\ About("concept", f, 0) \in Questions(schema, doc)
        /\ About("target", f, k) \in Questions(schema, doc)
    BY <2>5, QuestionCases
  <2>7. Fact(q, known, permitted)
    <3>1. TRUE \in seen[q]
      BY <2>1 DEF SemanticInv, ReportIsJustified
    <3>2. QED
      BY <2>3, <3>1
  <2>8. /\ annotations[f].concept \in known
        /\ annotations[f].relations[k].target \in known
    <3>1. << annotations[f].concept, annotations[f].relations[k].relation,
             annotations[f].relations[k].target >> \in permitted
      BY <2>5, <2>7, FactCases
    <3>2. QED
      BY <2>1, <3>1 DEF SemanticInv, StaticAnswers, EndsOf
  <2>9. /\ Fact(About("concept", f, 0), known, permitted)
        /\ Fact(About("target", f, k), known, permitted)
    BY <2>8, FactCases
  <2>10. /\ i.about \in {About("concept", f, 0), About("target", f, k)}
         /\ i = [about |-> i.about, code |-> "no"]
    <3>1. q.field = f /\ q.n = k
      BY <2>5 DEF About
    <3>2. i \in [about : Questions(schema, doc), code : {"no", "unavailable"}]
      <4>1. reply \in Reply
        BY <2>1 DEF SemanticInv, CallShape
      <4>2. reply \in [ status : {"report"},
                        issues : SUBSET [ about : Questions(schema, doc),
                                          code : {"no", "unavailable"} ] ]
        <5>1. reply # NoReply
          BY <2>1 DEF NoReply
        <5>2. reply \notin [status : {"unknown field"}, field : UnknownFields(schema)]
          BY <2>1
        <5>3. QED
          BY <4>1, <5>1, <5>2 DEF Reply
      <4>3. QED
        BY <2>1, <4>2
    <3>3. i.code = "no"
      BY <2>1 DEF SemanticInv, StaticAnswers
    <3>4. QED
      BY <2>1, <3>1, <3>2, <3>3
  <2>11. FALSE \in seen[i.about]
    BY <2>1, <2>6, <2>10 DEF SemanticInv, ReportIsJustified
  <2>12. QED
    BY <2>3, <2>6, <2>9, <2>10, <2>11
<1>2. QED
  BY <1>1, SemanticInvHolds, PTL

-----------------------------------------------------------------------------
(* The refinement: each step is a step of SemanticPromise, or a stutter. *)

LEMMA StillAsked ==
  ASSUME pc # "idle", pc' # "idle", UNCHANGED << annotations, schema, doc >>
  PROVE  /\ Asked' = Asked
         /\ Asked = [ kind |-> "call", questions |-> Questions(schema, doc),
                      unknown |-> UnknownFields(schema) ]
         /\ Asked # [kind |-> "none"]
BY DEF Asked, Questions, Checked, UnknownFields

LEMMA OutsideKeepsPromise ==
  ASSUME SemanticInv, pc = "idle", pc' = "idle", UNCHANGED << seen, reply >>
  PROVE  UNCHANGED Promise!promiseVars
BY DEF Promise!promiseVars, Asked

LEMMA MoveKeepsPromise ==
  ASSUME SemanticInv, NEW concepts, NEW triples, OntologyMoves(concepts, triples)
  PROVE  [Promise!Next]_(Promise!promiseVars)
<1>1. /\ pc # "returned" /\ pc' = pc /\ reply' = reply
      /\ UNCHANGED << annotations, schema, doc >>
  BY DEF OntologyMoves, positionVars, argumentVars
<1>2. CASE pc = "idle"
  <2>1. seen' = seen
    BY <1>2 DEF OntologyMoves, Recorded
  <2>2. QED
    BY <1>1, <1>2, <2>1, OutsideKeepsPromise
<1>3. CASE pc # "idle"
  <2>1. DOMAIN seen = Questions(schema, doc) /\ reply = NoReply
    BY <1>1 DEF SemanticInv, SemanticTypeOK
  <2>2. DOMAIN seen' = DOMAIN seen /\ \A q \in DOMAIN seen : seen[q] \subseteq seen'[q]
    BY <2>1, MoveIsRecorded
  <2>3. Asked' = Asked /\ Asked # [kind |-> "none"]
    BY <1>1, <1>3, StillAsked
  <2>4. Promise!OntologyMoves
    BY <1>1, <2>1, <2>2, <2>3 DEF Promise!OntologyMoves, Promise!NoRequest, Promise!NoReply, NoReply
  <2>5. QED
    BY <2>4 DEF Promise!Next
<1>4. QED
  BY <1>2, <1>3

LEMMA CallKeepsPromise ==
  ASSUME SemanticInv, NEW fields \in Schemas, NEW document \in Documents, Call(fields, document)
  PROVE  Promise!Ask
<1>1. /\ pc = "idle" /\ pc' = "names" /\ schema' = fields /\ doc' = document
      /\ annotations' = annotations /\ reply' = reply
  BY DEF Call
<1>2. /\ Questions(schema, doc)' = Questions(fields, document)
      /\ UnknownFields(schema)' = UnknownFields(fields)
  BY <1>1 DEF Questions, Checked, UnknownFields
<1>3. /\ Asked = [kind |-> "none"]
      /\ Asked' = [ kind |-> "call", questions |-> Questions(fields, document),
                    unknown |-> UnknownFields(fields) ]
  BY <1>1, <1>2 DEF Asked
<1>4. DOMAIN annotations \subseteq Names /\ \A f \in DOMAIN annotations : annotations[f] \in FieldSemantics
  BY DEF SemanticInv, SemanticTypeOK
<1>5. Questions(fields, document) \subseteq Question
  <2>1. SUFFICES ASSUME NEW q \in Questions(fields, document) PROVE q \in Question
    OBVIOUS
  <2>2. PICK f \in Checked(fields, document) :
          \/ q = About("concept", f, 0)
          \/ \E of \in {"target", "permission"}, k \in DOMAIN annotations[f].relations :
               q = About(of, f, k)
    BY QuestionCases
  <2>3. f \in Names /\ annotations[f] \in FieldSemantics
    BY <1>4 DEF Checked
  <2>4. DOMAIN annotations[f].relations \subseteq Nat
    <3>1. annotations[f].relations \in Seq([relation : Relations, target : Concepts])
      BY <2>3 DEF FieldSemantics
    <3>2. QED
      BY <3>1
  <2>5. QED
    BY <2>2, <2>3, <2>4 DEF About, Question
<1>6. UnknownFields(fields) \subseteq Names
  BY <1>4 DEF UnknownFields
<1>7. Asked' \in Promise!Request
  BY <1>3, <1>5, <1>6 DEF Promise!Request
<1>8. seen' \in [Questions(fields, document) -> {{TRUE}, {FALSE}}]
  <2>1. \A q \in Questions(fields, document) : {Fact(q, known, permitted)} \in {{TRUE}, {FALSE}}
    <3>1. ASSUME NEW q \in Questions(fields, document)
          PROVE  Fact(q, known, permitted) = TRUE \/ Fact(q, known, permitted) = FALSE
      BY FactIsBoolean
    <3>2. QED
      BY <3>1
  <2>2. QED
    BY <2>1 DEF Call
<1>9. QED
  BY <1>1, <1>3, <1>7, <1>8 DEF Promise!Ask, Promise!NoRequest

LEMMA CallStepKeepsPromise ==
  ASSUME SemanticInv, CallStep
  PROVE  [Promise!Next]_(Promise!promiseVars)
<1>1. /\ pc # "idle" /\ pc' # "idle" /\ pc # "returned"
      /\ UNCHANGED << annotations, schema, doc, seen >>
  BY DEF CallStep, NamesPass, NamesFail, SkipField, CheckConcept, CheckTarget, CheckPermission,
     Return, NextField, NextRelation, AfterTarget, Elsewhere, argumentVars, historyVars
<1>2. /\ Asked' = Asked /\ Asked # Promise!NoRequest
      /\ Asked = [ kind |-> "call", questions |-> Questions(schema, doc),
                   unknown |-> UnknownFields(schema) ]
  BY <1>1, StillAsked DEF Promise!NoRequest
<1>3. reply = NoReply /\ Promise!NoReply = NoReply
  BY <1>1 DEF SemanticInv, SemanticTypeOK, Promise!NoReply, NoReply
<1>4. CASE NamesPass \/ SkipField \/ CheckConcept \/ CheckTarget \/ CheckPermission
  <2>1. reply' = reply
    BY <1>4 DEF NamesPass, SkipField, CheckConcept, CheckTarget, CheckPermission, Elsewhere
  <2>2. QED
    BY <1>1, <1>2, <2>1 DEF Promise!promiseVars
<1>5. CASE NamesFail
  <2>1. Promise!RefuseAnnotations
    BY <1>1, <1>2, <1>3, <1>5 DEF NamesFail, Promise!RefuseAnnotations
  <2>2. QED
    BY <2>1 DEF Promise!Next
<1>6. CASE Return
  <2>1. reply' = [status |-> "report", issues |-> issues] /\ UnknownFields(schema) = {}
    BY <1>6 DEF Return, SemanticInv, CallShape
  <2>2. issues \subseteq [about : Questions(schema, doc), code : {"no", "unavailable"}]
    BY DEF SemanticInv, SemanticTypeOK
  <2>3. Promise!Justified(issues)
    <3>1. \A q \in Questions(schema, doc) : AskedSoFar(q)
      BY <1>6, AllAsked DEF Return
    <3>2. QED
      BY <1>2, <3>1 DEF Promise!Justified, SemanticInv, IssuesAreJustified
  <2>4. Promise!Report
    BY <1>1, <1>2, <1>3, <2>1, <2>2, <2>3 DEF Promise!Report
  <2>5. QED
    BY <2>4 DEF Promise!Next
<1>7. QED
  BY <1>4, <1>5, <1>6 DEF CallStep

LEMMA TakeReplyKeepsPromise ==
  ASSUME SemanticInv, TakeReply
  PROVE  Promise!Take
BY DEF TakeReply, Promise!Take, Promise!NoReply, Promise!NoRequest, NoReply, Asked, SemanticInv,
   SemanticTypeOK

(* The resolver calls, made one by one against an ontology that may move   *)
(* between them, implement the one report SemanticPromise promises.        *)
THEOREM ReportsKeepPromise == SemanticSpec => KeepsPromise
<1>1. SemanticInit => Promise!Init
  BY DEF SemanticInit, Promise!Init, Promise!NoRequest, Promise!NoReply, NoReply, Asked
<1>2. SemanticInv /\ [SemanticNext]_vars => [Promise!Next]_(Promise!promiseVars)
  <2> SUFFICES ASSUME SemanticInv, [SemanticNext]_vars
               PROVE  [Promise!Next]_(Promise!promiseVars)
    OBVIOUS
  <2>1. CASE \/ \E id \in Concepts : WithConcept(id)
             \/ \E triple \in Permissible : WithRelation(triple)
             \/ \E name \in Names, semantics \in Semantics : Annotate(name, semantics)
    BY <2>1, OutsideKeepsPromise DEF WithConcept, WithRelation, Annotate, positionVars, historyVars
  <2>2. CASE \E concepts \in SUBSET Concepts, triples \in SUBSET Permissible :
               OntologyMoves(concepts, triples)
    BY <2>2, MoveKeepsPromise
  <2>3. CASE \E fields \in Schemas, document \in Documents : Call(fields, document)
    BY <2>3, CallKeepsPromise DEF Promise!Next
  <2>4. CASE CallStep
    BY <2>4, CallStepKeepsPromise
  <2>5. CASE TakeReply
    BY <2>5, TakeReplyKeepsPromise DEF Promise!Next
  <2>6. CASE UNCHANGED vars
    BY <2>6 DEF vars, positionVars, argumentVars, historyVars, Promise!promiseVars, Asked,
       Questions, Checked, UnknownFields
  <2>7. QED
    BY <2>1, <2>2, <2>3, <2>4, <2>5, <2>6 DEF SemanticNext
<1>3. QED
  BY <1>1, <1>2, SemanticInvHolds, PTL DEF SemanticSpec, KeepsPromise, Promise!Spec
=============================================================================
