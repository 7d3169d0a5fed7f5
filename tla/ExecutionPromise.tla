-------------------------- MODULE ExecutionPromise --------------------------
(***************************************************************************)
(* What executing migrations promises to a caller who knows only the two   *)
(* ends of the run: the structure at the start and at the end, and the     *)
(* document handed in.  The hops in between do not show.                   *)
(***************************************************************************)
CONSTANTS
  FieldLists,
  Documents,
  Outcome       \* what validate() says of a document under a field list

VARIABLES
  request,      \* the run asked for, or NoRequest
  reply         \* what it returned, or NoReply

promiseVars == << request, reply >>

NoRequest == [kind |-> "none"]
NoReply   == [status |-> "none"]

(* pre and post: the structures at both ends.  checked: the first hop does *)
(* not waive pre-validation.  kind: a plan, one direct apply or            *)
(* apply_reverse, or the plan with no hop.                                 *)
Request ==
  [ kind : {"plan", "direct"}, pre : FieldLists, post : FieldLists, doc : Documents,
    checked : BOOLEAN ]
    \cup [kind : {"empty"}, doc : Documents]

Delivers(doc) ==
  /\ request.kind # "empty" => Outcome[request.post, doc] = "valid"
  /\ request.kind # "empty" /\ request.checked => Outcome[request.pre, request.doc] = "valid"
  /\ request.kind = "empty" => doc = request.doc
  /\ reply' = [status |-> "ok", doc |-> doc]

(* A run is refused for its input only when the input does not satisfy the *)
(* structure it starts from; NotReversible never comes from a plan.        *)
Refuses(status) ==
  /\ request.kind # "empty"
  /\ status = "PreValidationFailed" =>
       request.checked /\ Outcome[request.pre, request.doc] = "invalid"
  /\ status = "PreValidationUnavailable" =>
       request.checked /\ Outcome[request.pre, request.doc] = "unavailable"
  /\ status = "NotReversible" => request.kind = "direct"
  /\ reply' = [status |-> status]

Failures == { "PreValidationFailed", "PreValidationUnavailable", "TransformFailed",
              "PostValidationFailed", "PostValidationUnavailable", "NotReversible" }

Init == request = NoRequest /\ reply = NoReply

Ask ==
  /\ request = NoRequest
  /\ request' \in Request
  /\ UNCHANGED reply

Reply ==
  /\ request # NoRequest /\ reply = NoReply
  /\ \/ \E doc \in Documents : Delivers(doc)
     \/ \E status \in Failures : Refuses(status)
  /\ UNCHANGED request

Take ==
  /\ reply # NoReply
  /\ request' = NoRequest
  /\ reply' = NoReply

Next == Ask \/ Reply \/ Take

Spec == Init /\ [][Next]_promiseVars

(* A run asked for returns. *)
Responsive == request # NoRequest ~> reply # NoReply
=============================================================================
