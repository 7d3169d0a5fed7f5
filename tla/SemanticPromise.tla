--------------------------- MODULE SemanticPromise ---------------------------
(***************************************************************************)
(* What validate_semantic promises to a caller who sees neither the order  *)
(* of the resolver calls nor the ontology, which may change while they are *)
(* made: every question is answered, and every answer is one the ontology  *)
(* would have given at some moment of the call.                            *)
(***************************************************************************)
CONSTANTS
  Names,        \* field names
  Question      \* what may be asked of an ontology

VARIABLES
  request,      \* the questions of the call and the names the schema lacks, or NoRequest
  seen,         \* per question, the true answers there were since the call began
  reply         \* what it returned, or NoReply

promiseVars == << request, seen, reply >>

NoRequest == [kind |-> "none"]
NoReply   == [status |-> "none"]

Request == [kind : {"call"}, questions : SUBSET Question, unknown : SUBSET Names]

Init == request = NoRequest /\ seen = << >> /\ reply = NoReply

Ask ==
  /\ request = NoRequest
  /\ request' \in Request
  /\ seen' \in [request'.questions -> {{TRUE}, {FALSE}}]
  /\ UNCHANGED reply

OntologyMoves ==
  /\ request # NoRequest /\ reply = NoReply
  /\ DOMAIN seen' = DOMAIN seen
  /\ \A q \in DOMAIN seen : seen[q] \subseteq seen'[q]
  /\ UNCHANGED << request, reply >>

(* Findings are negative or unavailable; silence is a yes. *)
Justified(issues) ==
  \A q \in request.questions :
    /\ [about |-> q, code |-> "no"] \in issues => FALSE \in seen[q]
    /\ (\A i \in issues : i.about # q) => TRUE \in seen[q]

Report ==
  /\ request # NoRequest /\ reply = NoReply
  /\ request.unknown = {}
  /\ reply'.status = "report"
  /\ reply'.issues \subseteq [about : request.questions, code : {"no", "unavailable"}]
  /\ Justified(reply'.issues)
  /\ UNCHANGED << request, seen >>

RefuseAnnotations ==
  /\ request # NoRequest /\ reply = NoReply
  /\ \E name \in request.unknown : reply' = [status |-> "unknown field", field |-> name]
  /\ UNCHANGED << request, seen >>

Take ==
  /\ reply # NoReply
  /\ request' = NoRequest /\ seen' = << >> /\ reply' = NoReply

Next == Ask \/ OntologyMoves \/ Report \/ RefuseAnnotations \/ Take

Spec == Init /\ [][Next]_promiseVars

(* A call returns. *)
Responsive == request # NoRequest ~> reply # NoReply
=============================================================================
