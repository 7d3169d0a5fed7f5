------------------------- MODULE MigrationExecution -------------------------
(***************************************************************************)
(* Migration::apply, apply_reverse and run, and MigrationPlan::execute,    *)
(* over the registry of MigrationGraph: each hop pre-validates, transforms *)
(* and post-validates, one step each.  Transforms are opaque closures: any *)
(* document, or a failure.  validate() is a function of the field list and *)
(* the document.                                                           *)
(***************************************************************************)
EXTENDS MigrationGraph

CONSTANTS
  Documents,
  NoDocument,   \* no call is running
  Outcome       \* what validate() says of a document under a field list

ASSUME NoDocumentAssumption == NoDocument \notin Documents
ASSUME OutcomeAssumption ==
  Outcome \in [FieldLists \X Documents -> {"valid", "invalid", "unavailable"}]

VARIABLES
  plan,         \* the plan the caller holds, or NoPlan
  pc,           \* "idle", "pre", "transform", "post", "last" or "returned"
  hops,         \* the hops of the running call: the plan's, or a single one
  at,           \* index of the hop being run
  op,           \* the running call: "execute" of a plan, a direct "apply", or "none"
  input,        \* the document the caller handed in
  doc,          \* the document as the hops have transformed it
  reply         \* what the call returned, or NoReply

callVars == << pc, hops, at, op, input, doc, reply >>
vars     == << graphVars, plan, callVars >>

NoPlan  == [kind |-> "none"]
Plan    == [kind : {"plan"}, from : SchemaId, to : SchemaId, hops : Seq(Hops(migrations))]
Held    == plan.kind = "plan"
NoReply == [status |-> "none"]

Validate(schema, document) == Outcome[schema.fields, document]

Hop == hops[at]

-----------------------------------------------------------------------------
ExecutionInit ==
  /\ Init
  /\ plan = NoPlan
  /\ pc = "idle" /\ hops = << >> /\ at = 1 /\ op = "none"
  /\ input = NoDocument /\ doc = NoDocument /\ reply = NoReply

(* A plan borrows the graph, so register() waits for it to be dropped. *)
RegisterWhenFree ==
  /\ pc = "idle" /\ ~Held
  /\ \E m \in Offered : Register(m)
  /\ UNCHANGED << plan, callVars >>

(* Any plan the planner hands out: a path plan() recommends or attaches to *)
(* AmbiguousMigration, or one of available_paths().                        *)
ObtainPlan(from, to) ==
  /\ pc = "idle" /\ ~Held
  /\ \E p \in SimplePaths(migrations, from, to) \cup (IF from = to THEN {<< >>} ELSE {}) :
       plan' = [kind |-> "plan", from |-> from, to |-> to, hops |-> p]
  /\ UNCHANGED << graphVars, callVars >>

DropPlan ==
  /\ pc = "idle" /\ Held
  /\ plan' = NoPlan
  /\ UNCHANGED << graphVars, callVars >>

(* execute(): the loop over the steps; an empty plan returns a clone. *)
Execute(document) ==
  /\ pc = "idle" /\ Held
  /\ hops' = plan.hops /\ at' = 1 /\ op' = "execute"
  /\ input' = document /\ doc' = document
  /\ pc' = IF plan.hops = << >> THEN "last" ELSE "pre"
  /\ UNCHANGED << graphVars, plan, reply >>

(* apply() or apply_reverse() called on a registered migration. *)
ApplyDirectly(m, reverse, document) ==
  /\ pc = "idle" /\ ~Held
  /\ hops' = << [migration |-> m, reverse |-> reverse] >> /\ at' = 1 /\ op' = "apply"
  /\ input' = document /\ doc' = document
  /\ pc' = "pre"
  /\ UNCHANGED << graphVars, plan, reply >>

-----------------------------------------------------------------------------
(* One hop. *)

Fail(status) ==
  /\ reply' = [status |-> status]
  /\ pc' = "returned"
  /\ UNCHANGED << graphVars, plan, hops, at, op, input, doc >>

(* apply_reverse() without a reverse transform, before any validation. *)
NotReversible ==
  /\ pc = "pre" /\ ~IsHop(migrations, Hop)
  /\ Fail("NotReversible")

(* Faulty: the policy waives pre-validation in both directions. *)
WaivedEitherWay == migrations[Hop.migration].policy = "PostOnly"

(* Only forward, and only under PostOnly. *)
PreWaived == ~Hop.reverse /\ migrations[Hop.migration].policy = "PostOnly"

PreOutcome == Validate(PreSchema(migrations, Hop), doc)

PrePasses ==
  /\ pc = "pre" /\ IsHop(migrations, Hop)
  /\ PreWaived \/ PreOutcome = "valid"
  /\ pc' = "transform"
  /\ UNCHANGED << graphVars, plan, hops, at, op, input, doc, reply >>

PreFails ==
  /\ pc = "pre" /\ IsHop(migrations, Hop) /\ ~PreWaived
  /\ \/ PreOutcome = "unavailable" /\ Fail("PreValidationUnavailable")
     \/ PreOutcome = "invalid" /\ Fail("PreValidationFailed")

TransformSucceeds(document) ==
  /\ pc = "transform"
  /\ doc' = document
  /\ pc' = "post"
  /\ UNCHANGED << graphVars, plan, hops, at, op, input, reply >>

TransformFails ==
  /\ pc = "transform"
  /\ Fail("TransformFailed")

(* Faulty: PostOnly read as "validate nothing". *)
PostWaived ==
  IF PreWaived THEN "valid" ELSE Validate(PostSchema(migrations, Hop), doc)

(* Never waived. *)
PostOutcome == Validate(PostSchema(migrations, Hop), doc)

(* Faulty: one hop too many, or only the first. *)
MoreHopsOffByOne == at <= Len(hops)
FirstHopOnly == at < 1

MoreHops == at < Len(hops)

PostPasses ==
  /\ pc = "post" /\ PostOutcome = "valid"
  /\ IF MoreHops THEN pc' = "pre" /\ at' = at + 1
                 ELSE pc' = "last" /\ UNCHANGED at
  /\ UNCHANGED << graphVars, plan, hops, op, input, doc, reply >>

(* Faulty: a validation that could not be made is not handled. *)
PostFailsOnlyInvalid == pc = "post" /\ PostOutcome = "invalid" /\ Fail("PostValidationFailed")

PostFails ==
  /\ pc = "post"
  /\ \/ PostOutcome = "unavailable" /\ Fail("PostValidationUnavailable")
     \/ PostOutcome = "invalid" /\ Fail("PostValidationFailed")

Succeed ==
  /\ pc = "last"
  /\ reply' = [status |-> "ok", doc |-> doc]
  /\ pc' = "returned"
  /\ UNCHANGED << graphVars, plan, hops, at, op, input, doc >>

(* The caller takes the reply; the call's locals are gone. *)
TakeReply ==
  /\ pc = "returned"
  /\ reply' = NoReply
  /\ pc' = "idle" /\ hops' = << >> /\ at' = 1 /\ op' = "none"
  /\ input' = NoDocument /\ doc' = NoDocument
  /\ UNCHANGED << graphVars, plan >>

HopStep ==
  \/ NotReversible \/ PrePasses \/ PreFails
  \/ \E document \in Documents : TransformSucceeds(document)
  \/ TransformFails
  \/ PostPasses \/ PostFails \/ Succeed

ExecutionNext ==
  \/ RegisterWhenFree
  \/ \E from, to \in SchemaId : ObtainPlan(from, to)
  \/ DropPlan
  \/ \E document \in Documents :
       \/ Execute(document)
       \/ \E m \in DOMAIN migrations, reverse \in BOOLEAN : ApplyDirectly(m, reverse, document)
  \/ HopStep
  \/ TakeReply

(* A call that has started runs on: it is sequential code, and transforms  *)
(* are taken to return.                                                    *)
ExecutionSpec == ExecutionInit /\ [][ExecutionNext]_vars /\ WF_vars(HopStep)
-----------------------------------------------------------------------------
(* Properties. *)

Failures == { "PreValidationFailed", "PreValidationUnavailable", "TransformFailed",
              "PostValidationFailed", "PostValidationUnavailable", "NotReversible" }

(* Types of the caller's and the call's state. *)
ExecutionTypeOK ==
  /\ plan \in {NoPlan} \cup Plan
  /\ pc \in {"idle", "pre", "transform", "post", "last", "returned"}
  /\ hops \in Seq([migration : DOMAIN migrations, reverse : BOOLEAN])
  /\ at \in Nat \ {0}
  /\ pc \in {"pre", "transform", "post"} => at \in DOMAIN hops
  /\ op \in {"none", "execute", "apply"}
  /\ input \in Documents \cup {NoDocument} /\ doc \in Documents \cup {NoDocument}
  /\ pc = "idle" <=> input = NoDocument
  /\ pc = "idle" <=> doc = NoDocument
  /\ reply \in {NoReply} \cup [status : {"ok"}, doc : Documents] \cup [status : Failures]

(* What a plan delivers satisfies the structure that register() recorded   *)
(* for the node the plan was asked to reach, whatever PostOnly hops and    *)
(* reverse hops it ran through.                                            *)
OutputFitsTarget ==
  reply.status = "ok" /\ op = "execute" /\ hops # << >> =>
    Outcome[schemaById[plan.to].fields, reply.doc] = "valid"

(* A transform sees a document that satisfies the schema it is written     *)
(* for; only the first hop, forward under PostOnly, may be fed anything.   *)
TransformInputFits ==
  /\ pc = "transform"
  /\ at > 1 \/ Hop.reverse \/ migrations[Hop.migration].policy = "Strict"
  => PreOutcome = "valid"

(* error.rs:54-59: register() turns what would be an execute()-time        *)
(* failure hops later into an authoring error.  Once past its first hop, a *)
(* plan never fails, nor gets stuck, on the input of a hop.                *)
InputFailsOnlyAtFirstHop ==
  reply.status \in {"PreValidationFailed", "PreValidationUnavailable"} => at = 1

(* The run as its caller sees it: the two ends, and no hop. *)
Asked ==
  LET ends == IF op = "execute" THEN << schemaById[plan.from].fields, schemaById[plan.to].fields >>
                         ELSE << PreSchema(migrations, hops[1]).fields,
                                 PostSchema(migrations, hops[1]).fields >>
      first == hops[1]
  IN  CASE pc = "idle" -> [kind |-> "none"]
        [] pc # "idle" /\ hops = << >> -> [kind |-> "empty", doc |-> input]
        [] OTHER ->
             [ kind |-> IF op = "execute" THEN "plan" ELSE "direct",
               pre |-> ends[1], post |-> ends[2], doc |-> input,
               checked |-> first.reverse \/ migrations[first.migration].policy = "Strict" ]

Promise == INSTANCE ExecutionPromise WITH request <- Asked

(* A run moves the document between its ends in one piece, or refuses with *)
(* a cause the caller can see from the ends.                               *)
KeepsPromise == Promise!Spec

(* No outcome of validate() and no transform leaves execute(), apply() or  *)
(* apply_reverse() without a reply.                                        *)
CallReturns == Promise!Responsive
=============================================================================
