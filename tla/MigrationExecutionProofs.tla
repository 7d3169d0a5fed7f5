---------------------- MODULE MigrationExecutionProofs ----------------------
(***************************************************************************)
(* Proofs about MigrationExecution, for every value of its constants: any  *)
(* set of offered migrations, any documents, any validate() function and   *)
(* any registry length.  Then: hop by hop, seen from the two ends of a     *)
(* run, it implements ExecutionPromise.                                    *)
(***************************************************************************)
EXTENDS MigrationExecution, MigrationGraphProofs

-----------------------------------------------------------------------------
(* The registry under the composed specification. *)

GraphInv == TypeOK /\ Consistent

LEMMA ExecutionStepOnGraph == [ExecutionNext]_vars => [Next]_graphVars
BY DEF ExecutionNext, RegisterWhenFree, Next, ObtainPlan, DropPlan, Execute, ApplyDirectly,
   HopStep, NotReversible, PrePasses, PreFails, TransformSucceeds, TransformFails, PostPasses,
   PostFails, Succeed, TakeReply, Fail, vars, graphVars

LEMMA GraphInvHolds == ExecutionSpec => []GraphInv
<1>1. ExecutionInit => GraphInv
  BY InitTyped, InitConsistent DEF ExecutionInit, GraphInv
<1>2. GraphInv /\ [ExecutionNext]_vars => GraphInv'
  BY ExecutionStepOnGraph, StepTyped, RegisterKeepsConsistent DEF GraphInv
<1>3. QED
  BY <1>1, <1>2, PTL DEF ExecutionSpec

(* Both schemas of a hop have the fields the guard recorded for their node. *)
LEMMA HopEndsRecorded ==
  ASSUME GraphInv, NEW hop \in Hops(migrations)
  PROVE  /\ schemaById[HopFrom(migrations, hop)].fields = PreSchema(migrations, hop).fields
         /\ schemaById[HopTo(migrations, hop)].fields = PostSchema(migrations, hop).fields
<1>1. \A side \in Sides :
        schemaById[EndNode(hop.migration, side)].fields = EndSchema(hop.migration, side).fields
  BY DEF GraphInv, Consistent, EndsRecorded, Hops
<1>2. /\ schemaById[NodeOf(migrations[hop.migration].source)].fields
             = migrations[hop.migration].source.fields
      /\ schemaById[NodeOf(migrations[hop.migration].target)].fields
             = migrations[hop.migration].target.fields
  BY <1>1 DEF Sides, EndNode, EndSchema
<1>3. QED
  BY <1>2 DEF HopFrom, HopTo, PreSchema, PostSchema

-----------------------------------------------------------------------------
(* The inductive invariant. *)

(* What is held is a path of the registry, or the empty plan. *)
PlanIsWalk ==
  Held => \/ plan.hops = << >>
               \/ IsWalk(migrations, plan.hops, plan.from, plan.to)

(* A running call is the held plan, or one hop of its own. *)
CallIsPlanOrHop ==
  /\ pc = "idle" => hops = << >> /\ op = "none"
  /\ pc # "idle" => op \in {"execute", "apply"}
  /\ op = "execute" => Held /\ hops = plan.hops
  /\ op = "apply" => Len(hops) = 1
  /\ pc \in {"pre", "transform", "post"} => hops # << >>
  /\ pc # "idle" /\ hops # << >> => at \in DOMAIN hops
  /\ pc = "returned" <=> reply # NoReply
  /\ pc = "last" => hops = << >> \/ at = Len(hops)

(* The document fits the schema between two hops, and after the last one.  *)
DocumentFits ==
  /\ pc = "pre" /\ at > 1 => PreOutcome = "valid"
  /\ pc = "last" /\ hops # << >> => PostOutcome = "valid"

ReplyFits ==
  reply.status = "ok" /\ hops # << >> =>
    at = Len(hops) /\ Validate(PostSchema(migrations, Hop), reply.doc) = "valid"

CallInv ==
  /\ ExecutionTypeOK
  /\ PlanIsWalk
  /\ CallIsPlanOrHop
  /\ DocumentFits
  /\ TransformInputFits
  /\ ReplyFits
  /\ InputFailsOnlyAtFirstHop

-----------------------------------------------------------------------------
(* Each action keeps CallInv. *)

LEMMA InitCall == ExecutionInit => CallInv
<1> SUFFICES ASSUME ExecutionInit PROVE CallInv
  OBVIOUS
<1> USE DEF ExecutionInit, NoPlan, NoReply
<1>1. ExecutionTypeOK
  BY DEF ExecutionTypeOK
<1>2. PlanIsWalk
  BY DEF PlanIsWalk, Held
<1>3. CallIsPlanOrHop
  BY DEF CallIsPlanOrHop
<1>4. DocumentFits
  BY DEF DocumentFits
<1>5. TransformInputFits /\ InputFailsOnlyAtFirstHop
  BY DEF TransformInputFits, InputFailsOnlyAtFirstHop
<1>6. ReplyFits
  BY DEF ReplyFits
<1>7. QED
  BY <1>1, <1>2, <1>3, <1>4, <1>5, <1>6 DEF CallInv

(* Nothing runs and no plan is held: the registry alone may change. *)
LEMMA RegisterKeepsCall ==
  ASSUME CallInv, RegisterWhenFree
  PROVE  CallInv'
<1>1. /\ pc = "idle" /\ plan = NoPlan /\ hops = << >> /\ op = "none" /\ reply = NoReply
      /\ UNCHANGED << plan, callVars >>
  BY DEF RegisterWhenFree, CallInv, ExecutionTypeOK, CallIsPlanOrHop, Plan, Held
<1>2. QED
  BY <1>1 DEF CallInv, ExecutionTypeOK, PlanIsWalk, CallIsPlanOrHop, DocumentFits,
     TransformInputFits, ReplyFits, InputFailsOnlyAtFirstHop, NoPlan, NoReply, Held, callVars

(* The paths a plan may hold are walks of the registry. *)
LEMMA PathsAreWalks ==
  ASSUME NEW from, NEW to, NEW p \in SimplePaths(migrations, from, to)
  PROVE  p \in Seq(Hops(migrations)) /\ IsWalk(migrations, p, from, to)
BY DEF SimplePaths, IsSimplePath, IsWalk

LEMMA PlansKeepCall ==
  ASSUME CallInv, DropPlan \/ \E from, to \in SchemaId : ObtainPlan(from, to)
  PROVE  CallInv'
<1>1. /\ pc = "idle" /\ hops = << >> /\ op = "none" /\ reply = NoReply
      /\ UNCHANGED << graphVars, callVars >>
  BY DEF DropPlan, ObtainPlan, CallInv, CallIsPlanOrHop
<1>2. /\ (plan \in {NoPlan} \cup Plan)'
      /\ PlanIsWalk'
  <2>1. CASE DropPlan
    BY <2>1 DEF DropPlan, NoPlan, PlanIsWalk, Held
  <2>2. CASE \E from, to \in SchemaId : ObtainPlan(from, to)
    <3>1. PICK from \in SchemaId, to \in SchemaId : ObtainPlan(from, to)
      BY <2>2
    <3>2. PICK p \in SimplePaths(migrations, from, to) \cup (IF from = to THEN {<< >>} ELSE {}) :
            plan' = [kind |-> "plan", from |-> from, to |-> to, hops |-> p]
      BY <3>1 DEF ObtainPlan
    <3>3. p \in Seq(Hops(migrations)) /\ (p = << >> \/ IsWalk(migrations, p, from, to))
      <4>1. CASE p \in SimplePaths(migrations, from, to)
        BY <4>1, PathsAreWalks
      <4>2. CASE p = << >>
        BY <4>2
      <4>3. QED
        BY <4>1, <4>2
    <3>4. migrations' = migrations
      BY <1>1 DEF graphVars
    <3>5. plan' \in [kind : {"plan"}, from : SchemaId, to : SchemaId, hops : Seq(Hops(migrations))]
      BY <3>2, <3>3
    <3>6. (plan \in {NoPlan} \cup Plan)'
      BY <3>4, <3>5 DEF Plan
    <3>7. PlanIsWalk'
      BY <3>2, <3>3, <3>4 DEF PlanIsWalk, Held
    <3>8. QED
      BY <3>6, <3>7
  <2>3. QED
    BY <2>1, <2>2
<1>3. QED
  BY <1>1, <1>2 DEF CallInv, ExecutionTypeOK, CallIsPlanOrHop, DocumentFits,
     TransformInputFits, ReplyFits, InputFailsOnlyAtFirstHop, NoReply, callVars, graphVars

(* What a call in progress can rely on. *)
LEMMA RunningCall ==
  ASSUME CallInv, pc \in {"pre", "transform", "post"}
  PROVE  /\ hops \in Seq([migration : DOMAIN migrations, reverse : BOOLEAN])
         /\ hops # << >> /\ at \in Nat \ {0} /\ at \in DOMAIN hops /\ at <= Len(hops)
         /\ op \in {"execute", "apply"}
         /\ input \in Documents /\ doc \in Documents
         /\ reply = NoReply
BY DEF CallInv, ExecutionTypeOK, CallIsPlanOrHop

LEMMA ExecuteKeepsCall ==
  ASSUME CallInv, NEW document \in Documents, Execute(document)
  PROVE  CallInv'
<1> USE DEF Execute, graphVars
<1>1. /\ plan.hops \in Seq([migration : DOMAIN migrations, reverse : BOOLEAN])
      /\ reply = NoReply /\ NoDocument \notin Documents
  <2>1. plan \in Plan /\ pc = "idle"
    BY DEF CallInv, ExecutionTypeOK, NoPlan, Held
  <2>2. plan.hops \in Seq(Hops(migrations))
    BY <2>1 DEF Plan
  <2>3. Hops(migrations) \subseteq [migration : DOMAIN migrations, reverse : BOOLEAN]
    BY DEF Hops
  <2> DEFINE AnyHop == [migration : DOMAIN migrations, reverse : BOOLEAN]
  <2>4. plan.hops \in Seq(AnyHop)
    <3> HIDE DEF AnyHop
    <3>1. Hops(migrations) \subseteq AnyHop
      BY <2>3 DEF AnyHop
    <3>2. \A k \in 1..Len(plan.hops) : plan.hops[k] \in AnyHop
      BY <2>2, <3>1
    <3>3. QED
      BY <2>2, <3>2
  <2>5. QED
    BY <2>1, <2>4, NoDocumentAssumption DEF CallInv, CallIsPlanOrHop
<1>2. ExecutionTypeOK'
  BY <1>1 DEF CallInv, ExecutionTypeOK, Plan
<1>3. PlanIsWalk'
  BY DEF CallInv, PlanIsWalk, Held
<1>4. CallIsPlanOrHop'
  BY <1>1 DEF CallIsPlanOrHop, Held, NoReply
<1>5. DocumentFits' /\ TransformInputFits'
  BY DEF DocumentFits, TransformInputFits
<1>6. ReplyFits' /\ InputFailsOnlyAtFirstHop'
  BY <1>1 DEF ReplyFits, InputFailsOnlyAtFirstHop, NoReply
<1>7. QED
  BY <1>2, <1>3, <1>4, <1>5, <1>6 DEF CallInv

LEMMA ApplyKeepsCall ==
  ASSUME CallInv, NEW document \in Documents, NEW m \in DOMAIN migrations,
         NEW reverse \in BOOLEAN, ApplyDirectly(m, reverse, document)
  PROVE  CallInv'
<1> USE DEF ApplyDirectly, graphVars
<1>1. /\ reply = NoReply /\ NoDocument \notin Documents
      /\ hops' \in Seq([migration : DOMAIN migrations, reverse : BOOLEAN]) /\ Len(hops') = 1
  BY NoDocumentAssumption DEF CallInv, CallIsPlanOrHop
<1>2. ExecutionTypeOK'
  BY <1>1 DEF CallInv, ExecutionTypeOK, Plan
<1>3. PlanIsWalk'
  BY DEF CallInv, PlanIsWalk, Held
<1>4. CallIsPlanOrHop'
  BY <1>1 DEF CallIsPlanOrHop, Held, NoReply
<1>5. DocumentFits' /\ TransformInputFits'
  BY DEF DocumentFits, TransformInputFits
<1>6. ReplyFits' /\ InputFailsOnlyAtFirstHop'
  BY <1>1 DEF ReplyFits, InputFailsOnlyAtFirstHop, NoReply
<1>7. QED
  BY <1>2, <1>3, <1>4, <1>5, <1>6 DEF CallInv

(* A failure of any hop: only a pre-validation failure needs care. *)
LEMMA FailKeepsCall ==
  ASSUME CallInv, pc \in {"pre", "transform", "post"}, NEW status \in Failures, Fail(status),
         status \in {"PreValidationFailed", "PreValidationUnavailable"} => at = 1
  PROVE  CallInv'
<1> USE DEF Fail, graphVars
<1>1. ExecutionTypeOK'
  BY RunningCall DEF CallInv, ExecutionTypeOK, Plan
<1>2. PlanIsWalk'
  BY DEF CallInv, PlanIsWalk, Held
<1>3. CallIsPlanOrHop'
  BY RunningCall DEF CallInv, CallIsPlanOrHop, Held, NoReply, Failures
<1>4. DocumentFits' /\ TransformInputFits'
  BY DEF DocumentFits, TransformInputFits
<1>5. ReplyFits' /\ InputFailsOnlyAtFirstHop'
  BY DEF ReplyFits, InputFailsOnlyAtFirstHop, Failures
<1>6. QED
  BY <1>1, <1>2, <1>3, <1>4, <1>5 DEF CallInv

LEMMA FailuresKeepCall ==
  ASSUME CallInv, NotReversible \/ PreFails \/ TransformFails \/ PostFails
  PROVE  CallInv'
<1>1. CASE NotReversible
  BY <1>1, FailKeepsCall DEF NotReversible, Failures
<1>2. CASE PreFails
  <2>1. at = 1
    BY <1>2, RunningCall DEF PreFails, CallInv, DocumentFits
  <2>2. QED
    BY <1>2, <2>1, FailKeepsCall DEF PreFails, Failures
<1>3. CASE TransformFails
  BY <1>3, FailKeepsCall DEF TransformFails, Failures
<1>4. CASE PostFails
  BY <1>4, FailKeepsCall DEF PostFails, Failures
<1>5. QED
  BY <1>1, <1>2, <1>3, <1>4

LEMMA PrePassesKeepsCall ==
  ASSUME CallInv, PrePasses
  PROVE  CallInv'
<1> USE DEF PrePasses, graphVars
<1>1. ExecutionTypeOK'
  BY RunningCall DEF CallInv, ExecutionTypeOK, Plan
<1>2. PlanIsWalk'
  BY DEF CallInv, PlanIsWalk, Held
<1>3. CallIsPlanOrHop'
  BY RunningCall DEF CallInv, CallIsPlanOrHop, Held
<1>4. DocumentFits'
  BY DEF DocumentFits
<1>5. TransformInputFits'
  BY RunningCall DEF CallInv, DocumentFits, TransformInputFits, PreOutcome, PreWaived, Hop
<1>6. ReplyFits' /\ InputFailsOnlyAtFirstHop'
  BY RunningCall DEF ReplyFits, InputFailsOnlyAtFirstHop, NoReply
<1>7. QED
  BY <1>1, <1>2, <1>3, <1>4, <1>5, <1>6 DEF CallInv

LEMMA TransformKeepsCall ==
  ASSUME CallInv, NEW document \in Documents, TransformSucceeds(document)
  PROVE  CallInv'
<1> USE DEF TransformSucceeds, graphVars
<1>1. ExecutionTypeOK'
  BY RunningCall, NoDocumentAssumption DEF CallInv, ExecutionTypeOK, Plan
<1>2. PlanIsWalk'
  BY DEF CallInv, PlanIsWalk, Held
<1>3. CallIsPlanOrHop'
  BY RunningCall DEF CallInv, CallIsPlanOrHop, Held
<1>4. DocumentFits' /\ TransformInputFits'
  BY DEF DocumentFits, TransformInputFits
<1>5. ReplyFits' /\ InputFailsOnlyAtFirstHop'
  BY RunningCall DEF ReplyFits, InputFailsOnlyAtFirstHop, NoReply
<1>6. QED
  BY <1>1, <1>2, <1>3, <1>4, <1>5 DEF CallInv

(* Where two hops of a plan meet, the structures are equal. *)
LEMMA HopsMeet ==
  ASSUME GraphInv, CallInv, pc = "post", at < Len(hops)
  PROVE  PostSchema(migrations, hops[at]).fields = PreSchema(migrations, hops[at + 1]).fields
<1>1. IsWalk(migrations, hops, plan.from, plan.to)
  <2>1. op \in {"execute", "apply"} /\ hops # << >> /\ at \in Nat \ {0} /\ Len(hops) \in Nat
    BY RunningCall
  <2>2. Len(hops) # 1
    <3>1. SUFFICES ASSUME Len(hops) = 1 PROVE FALSE
      OBVIOUS
    <3>2. at \in Nat /\ at >= 1
      BY <2>1
    <3>3. at < 1
      BY <3>1, <3>2
    <3>4. QED
      BY <3>2, <3>3
  <2>3. Held /\ hops = plan.hops
    BY <2>1, <2>2 DEF CallInv, CallIsPlanOrHop
  <2>4. QED
    BY <2>1, <2>3 DEF CallInv, PlanIsWalk
<1>2. at \in 1..(Len(hops) - 1)
  BY RunningCall
<1>3. /\ hops[at] \in Hops(migrations) /\ hops[at + 1] \in Hops(migrations)
      /\ HopTo(migrations, hops[at]) = HopFrom(migrations, hops[at + 1])
  BY <1>1, <1>2 DEF IsWalk
<1>4. QED
  BY <1>3, HopEndsRecorded

LEMMA PostPassesKeepsCall ==
  ASSUME GraphInv, CallInv, PostPasses
  PROVE  CallInv'
<1> USE DEF PostPasses, MoreHops, graphVars
<1>1. ExecutionTypeOK'
  BY RunningCall DEF CallInv, ExecutionTypeOK, Plan
<1>2. PlanIsWalk'
  BY DEF CallInv, PlanIsWalk, Held
<1>3. CallIsPlanOrHop'
  BY RunningCall DEF CallInv, CallIsPlanOrHop, Held
<1>4. DocumentFits'
  <2>1. CASE at < Len(hops)
    BY <2>1, HopsMeet, RunningCall DEF DocumentFits, PreOutcome, PostOutcome, Validate, Hop
  <2>2. CASE ~(at < Len(hops))
    BY <2>2 DEF DocumentFits, PostOutcome, Hop, Validate
  <2>3. QED
    BY <2>1, <2>2
<1>5. TransformInputFits'
  BY DEF TransformInputFits
<1>6. ReplyFits' /\ InputFailsOnlyAtFirstHop'
  BY RunningCall DEF ReplyFits, InputFailsOnlyAtFirstHop, NoReply
<1>7. QED
  BY <1>1, <1>2, <1>3, <1>4, <1>5, <1>6 DEF CallInv

LEMMA SucceedKeepsCall ==
  ASSUME CallInv, Succeed
  PROVE  CallInv'
<1> USE DEF Succeed, graphVars
<1>1. ExecutionTypeOK'
  BY DEF CallInv, ExecutionTypeOK, Plan
<1>2. PlanIsWalk'
  BY DEF CallInv, PlanIsWalk, Held
<1>3. CallIsPlanOrHop'
  BY DEF CallInv, CallIsPlanOrHop, Held, NoReply
<1>4. DocumentFits' /\ TransformInputFits'
  BY DEF DocumentFits, TransformInputFits
<1>5. ReplyFits'
  BY DEF CallInv, CallIsPlanOrHop, DocumentFits, ReplyFits, PostOutcome, Hop, Validate
<1>6. InputFailsOnlyAtFirstHop'
  BY DEF InputFailsOnlyAtFirstHop
<1>7. QED
  BY <1>1, <1>2, <1>3, <1>4, <1>5, <1>6 DEF CallInv

LEMMA TakeReplyKeepsCall ==
  ASSUME CallInv, TakeReply
  PROVE  CallInv'
<1> USE DEF TakeReply, graphVars
<1>1. ExecutionTypeOK'
  BY DEF CallInv, ExecutionTypeOK, Plan
<1>2. PlanIsWalk'
  BY DEF CallInv, PlanIsWalk, Held
<1>3. CallIsPlanOrHop'
  BY DEF CallIsPlanOrHop
<1>4. DocumentFits' /\ TransformInputFits'
  BY DEF DocumentFits, TransformInputFits
<1>5. ReplyFits' /\ InputFailsOnlyAtFirstHop'
  BY DEF ReplyFits, InputFailsOnlyAtFirstHop, NoReply
<1>6. QED
  BY <1>1, <1>2, <1>3, <1>4, <1>5 DEF CallInv

-----------------------------------------------------------------------------
(* The theorems. *)

LEMMA CallInvKept ==
  ASSUME GraphInv, CallInv, [ExecutionNext]_vars
  PROVE  CallInv'
<1>1. CASE UNCHANGED vars
  <2> USE <1>1 DEF CallInv, vars, graphVars, callVars
  <2>1. ExecutionTypeOK'
    BY DEF ExecutionTypeOK, Plan
  <2>2. PlanIsWalk' /\ CallIsPlanOrHop'
    BY DEF PlanIsWalk, CallIsPlanOrHop, Held
  <2>3. DocumentFits' /\ TransformInputFits'
    BY DEF DocumentFits, TransformInputFits, PreOutcome, PostOutcome, PreWaived, Hop, Validate
  <2>4. ReplyFits' /\ InputFailsOnlyAtFirstHop'
    BY DEF ReplyFits, InputFailsOnlyAtFirstHop, Hop, Validate
  <2>5. QED
    BY <2>1, <2>2, <2>3, <2>4
<1>2. CASE RegisterWhenFree
  BY <1>2, RegisterKeepsCall
<1>3. CASE DropPlan \/ \E from, to \in SchemaId : ObtainPlan(from, to)
  BY <1>3, PlansKeepCall
<1>4. CASE \E document \in Documents :
             \/ Execute(document)
             \/ \E m \in DOMAIN migrations, reverse \in BOOLEAN :
                  ApplyDirectly(m, reverse, document)
  BY <1>4, ExecuteKeepsCall, ApplyKeepsCall
<1>5. CASE NotReversible \/ PreFails \/ TransformFails \/ PostFails
  BY <1>5, FailuresKeepCall
<1>6. CASE \E document \in Documents : TransformSucceeds(document)
  BY <1>6, TransformKeepsCall
<1>7. CASE PrePasses \/ PostPasses \/ Succeed \/ TakeReply
  BY <1>7, PrePassesKeepsCall, PostPassesKeepsCall, SucceedKeepsCall, TakeReplyKeepsCall
<1>8. QED
  BY <1>1, <1>2, <1>3, <1>4, <1>5, <1>6, <1>7 DEF ExecutionNext, HopStep

LEMMA CallInvHolds == ExecutionSpec => []CallInv
<1>1. ExecutionInit => CallInv
  BY InitCall
<1>2. GraphInv /\ CallInv /\ [ExecutionNext]_vars => CallInv'
  BY CallInvKept
<1>3. QED
  BY <1>1, <1>2, GraphInvHolds, PTL DEF ExecutionSpec

(* The types of the plan, the running call and its reply. *)
THEOREM ExecutionTypeCorrect == ExecutionSpec => []ExecutionTypeOK
<1>1. CallInv => ExecutionTypeOK
  BY DEF CallInv
<1>2. QED
  BY <1>1, CallInvHolds, PTL

(* A transform is fed a document valid for the schema it starts from,      *)
(* unless it is the first hop, forward, under PostOnly.                    *)
THEOREM TransformsAreFedValidInput == ExecutionSpec => []TransformInputFits
<1>1. CallInv => TransformInputFits
  BY DEF CallInv
<1>2. QED
  BY <1>1, CallInvHolds, PTL

(* Past its first hop a plan never fails on the input of a hop.            *)
THEOREM ChainsNeverBreak == ExecutionSpec => []InputFailsOnlyAtFirstHop
<1>1. CallInv => InputFailsOnlyAtFirstHop
  BY DEF CallInv
<1>2. QED
  BY <1>1, CallInvHolds, PTL

(* What a plan delivers is valid for the structure recorded at its target. *)
THEOREM DeliveredDocumentsFit == ExecutionSpec => []OutputFitsTarget
<1>1. GraphInv /\ CallInv => OutputFitsTarget
  <2>1. SUFFICES ASSUME GraphInv, CallInv, reply.status = "ok", op = "execute", hops # << >>
                 PROVE  Outcome[schemaById[plan.to].fields, reply.doc] = "valid"
    BY DEF OutputFitsTarget
  <2>2. IsWalk(migrations, hops, plan.from, plan.to)
    BY <2>1 DEF CallInv, PlanIsWalk, CallIsPlanOrHop
  <2>3. /\ hops[Len(hops)] \in Hops(migrations)
        /\ HopTo(migrations, hops[Len(hops)]) = plan.to
    BY <2>2 DEF IsWalk
  <2>4. PostSchema(migrations, hops[Len(hops)]).fields = schemaById[plan.to].fields
    BY <2>1, <2>3, HopEndsRecorded
  <2>5. QED
    BY <2>1, <2>4 DEF CallInv, ReplyFits, Hop, Validate
<1>2. QED
  BY <1>1, GraphInvHolds, CallInvHolds, PTL

-----------------------------------------------------------------------------
(* The refinement: what ties the document back to the input. *)

First == hops[1]

FirstChecked == First.reverse \/ migrations[First.migration].policy = "Strict"

PastFirstCheck == pc \in {"transform", "post", "last"} \/ (pc = "pre" /\ at > 1)

(* Until the first hop transforms it the document is the input, and past   *)
(* the first check the input has passed it.                                *)
InputInv ==
  /\ pc = "pre" /\ at = 1 => doc = input
  /\ pc = "last" /\ hops = << >> => doc = input
  /\ PastFirstCheck /\ hops # << >> /\ FirstChecked =>
       Validate(PreSchema(migrations, First), input) = "valid"

LEMMA InputInvKept ==
  ASSUME GraphInv, CallInv, InputInv, [ExecutionNext]_vars
  PROVE  InputInv'
<1>1. CASE \/ RegisterWhenFree
           \/ DropPlan
           \/ \E from, to \in SchemaId : ObtainPlan(from, to)
  <2>1. pc' = "idle"
    BY <1>1 DEF RegisterWhenFree, DropPlan, ObtainPlan, callVars
  <2>2. QED
    BY <2>1 DEF InputInv, PastFirstCheck
<1>2. CASE \E document \in Documents :
             \/ Execute(document)
             \/ \E m \in DOMAIN migrations, reverse \in BOOLEAN :
                  ApplyDirectly(m, reverse, document)
  <2>1. at' = 1 /\ doc' = input' /\ (pc' = "pre" \/ (pc' = "last" /\ hops' = << >>))
    BY <1>2 DEF Execute, ApplyDirectly
  <2>2. QED
    BY <2>1 DEF InputInv, PastFirstCheck
<1>3. CASE PrePasses
  <2>1. /\ pc = "pre" /\ pc' = "transform" /\ (PreWaived \/ PreOutcome = "valid")
        /\ UNCHANGED << graphVars, hops, at, input, doc >>
    BY <1>3 DEF PrePasses
  <2>2. /\ hops # << >> /\ at \in Nat \ {0}
        /\ at \in DOMAIN hops /\ hops \in Seq([migration : DOMAIN migrations, reverse : BOOLEAN])
    BY <2>1, RunningCall
  <2>3. FirstChecked => Validate(PreSchema(migrations, First), input) = "valid"
    <3>1. CASE at = 1
      BY <2>1, <2>2, <3>1
         DEF InputInv, FirstChecked, First, Hop, PreWaived, PreOutcome
    <3>2. CASE at > 1
      BY <2>1, <2>2, <3>2 DEF InputInv, PastFirstCheck
    <3>3. QED
      BY <2>2, <3>1, <3>2
  <2>4. QED
    BY <2>1, <2>3 DEF InputInv, FirstChecked, First, graphVars
<1>4. CASE NotReversible \/ PreFails \/ TransformFails \/ PostFails \/ Succeed \/ TakeReply
  <2>1. pc' \in {"idle", "returned"}
    BY <1>4 DEF NotReversible, PreFails, TransformFails, PostFails, Succeed, TakeReply, Fail
  <2>2. QED
    BY <2>1 DEF InputInv, PastFirstCheck
<1>5. CASE \E document \in Documents : TransformSucceeds(document)
  <2>1. /\ pc = "transform" /\ pc' = "post"
        /\ UNCHANGED << graphVars, hops, at, input >>
    BY <1>5 DEF TransformSucceeds
  <2>2. QED
    BY <2>1 DEF InputInv, PastFirstCheck, FirstChecked, First, graphVars
<1>6. CASE PostPasses
  <2>1. /\ pc = "post" /\ hops # << >>
        /\ (pc' = "pre" /\ at' = at + 1) \/ pc' = "last"
        /\ UNCHANGED << graphVars, hops, input, doc >>
    BY <1>6, RunningCall DEF PostPasses
  <2>2. QED
    BY <2>1, RunningCall DEF InputInv, PastFirstCheck, FirstChecked, First, graphVars
<1>7. CASE UNCHANGED vars
  BY <1>7 DEF vars, callVars, graphVars, InputInv, PastFirstCheck, FirstChecked, First
<1>8. QED
  BY <1>1, <1>2, <1>3, <1>4, <1>5, <1>6, <1>7 DEF ExecutionNext, HopStep

-----------------------------------------------------------------------------
(* The ends of a run. *)

LEMMA SchemasOfHop ==
  ASSUME GraphInv, NEW hop \in [migration : DOMAIN migrations, reverse : BOOLEAN]
  PROVE  /\ PreSchema(migrations, hop).fields \in FieldLists
         /\ PostSchema(migrations, hop).fields \in FieldLists
         /\ migrations[hop.migration].policy \in {"Strict", "PostOnly"}
<1>1. migrations[hop.migration] \in Migration
  BY DEF GraphInv, TypeOK
<1>2. QED
  BY <1>1 DEF Migration, Schema, PreSchema, PostSchema

(* A walk starts and ends at the structures recorded for its two nodes. *)
LEMMA WalkEnds ==
  ASSUME GraphInv, NEW p, NEW from, NEW to, IsWalk(migrations, p, from, to)
  PROVE  /\ schemaById[from].fields = PreSchema(migrations, p[1]).fields
         /\ schemaById[to].fields = PostSchema(migrations, p[Len(p)]).fields
         /\ p[1] \in Hops(migrations) /\ p[Len(p)] \in Hops(migrations)
<1>1. p[1] \in Hops(migrations) /\ p[Len(p)] \in Hops(migrations)
  BY DEF IsWalk
<1>2. HopFrom(migrations, p[1]) = from /\ HopTo(migrations, p[Len(p)]) = to
  BY DEF IsWalk
<1>3. QED
  BY <1>1, <1>2, HopEndsRecorded

(* What a running call is, to its caller. *)
Between(pre, post) ==
  [ kind |-> IF op = "execute" THEN "plan" ELSE "direct", pre |-> pre, post |-> post,
    doc |-> input, checked |-> FirstChecked ]

LEMMA HopsOfRun ==
  ASSUME CallInv, hops # << >>
  PROVE  /\ First \in [migration : DOMAIN migrations, reverse : BOOLEAN]
         /\ hops[Len(hops)] \in [migration : DOMAIN migrations, reverse : BOOLEAN]
<1> DEFINE AnyHop == [migration : DOMAIN migrations, reverse : BOOLEAN]
<1>1. hops \in Seq(AnyHop)
  BY DEF CallInv, ExecutionTypeOK
<1> HIDE DEF AnyHop
<1>2. hops[1] \in AnyHop /\ hops[Len(hops)] \in AnyHop
  BY <1>1
<1>3. QED
  BY <1>2 DEF AnyHop, First

LEMMA AskedOfRun ==
  ASSUME GraphInv, CallInv, pc # "idle", hops # << >>
  PROVE  Asked = Between(PreSchema(migrations, First).fields,
                         PostSchema(migrations, hops[Len(hops)]).fields)
<1>1. op \in {"execute", "apply"}
  BY DEF CallInv, CallIsPlanOrHop
<1>2. CASE op = "execute"
  <2>1. IsWalk(migrations, hops, plan.from, plan.to)
    BY <1>2 DEF CallInv, CallIsPlanOrHop, PlanIsWalk
  <2>2. /\ schemaById[plan.from].fields = PreSchema(migrations, First).fields
        /\ schemaById[plan.to].fields = PostSchema(migrations, hops[Len(hops)]).fields
    BY <2>1, WalkEnds DEF First
  <2>3. Asked = [ kind |-> "plan", pre |-> schemaById[plan.from].fields,
                  post |-> schemaById[plan.to].fields, doc |-> input,
                  checked |-> FirstChecked ]
    BY <1>2 DEF Asked, FirstChecked, First
  <2>4. QED
    BY <1>2, <2>2, <2>3 DEF Between
<1>3. CASE op = "apply"
  <2>1. Len(hops) = 1
    BY <1>3 DEF CallInv, CallIsPlanOrHop
  <2>2. Asked = [ kind |-> "direct", pre |-> PreSchema(migrations, hops[1]).fields,
                  post |-> PostSchema(migrations, hops[1]).fields, doc |-> input,
                  checked |-> FirstChecked ]
    BY <1>3 DEF Asked, FirstChecked, First
  <2>3. QED
    BY <1>3, <2>1, <2>2 DEF Between, First
<1>4. QED
  BY <1>1, <1>2, <1>3

LEMMA RunIsRequest == GraphInv /\ CallInv /\ pc # "idle" => Asked \in Promise!Request
<1> SUFFICES ASSUME GraphInv, CallInv, pc # "idle" PROVE Asked \in Promise!Request
  OBVIOUS
<1>1. input \in Documents
  BY DEF CallInv, ExecutionTypeOK
<1>2. CASE hops = << >>
  BY <1>1, <1>2 DEF Asked, Promise!Request
<1>3. CASE hops # << >>
  <2>1. /\ PreSchema(migrations, First).fields \in FieldLists
        /\ PostSchema(migrations, hops[Len(hops)]).fields \in FieldLists
    BY <1>3, HopsOfRun, SchemasOfHop
  <2>2. FirstChecked \in BOOLEAN
    BY <1>3, HopsOfRun DEF FirstChecked
  <2>3. QED
    BY <1>1, <1>3, <2>1, <2>2, AskedOfRun DEF Between, Promise!Request
<1>4. QED
  BY <1>2, <1>3

-----------------------------------------------------------------------------
(* Each step is a step of ExecutionPromise, or a stutter. *)

LEMMA CallerKeepsPromise ==
  ASSUME CallInv, \/ RegisterWhenFree
                  \/ DropPlan
                  \/ \E from, to \in SchemaId : ObtainPlan(from, to)
  PROVE  UNCHANGED Promise!promiseVars
BY DEF RegisterWhenFree, DropPlan, ObtainPlan, callVars, Promise!promiseVars, Asked

LEMMA AskKeepsPromise ==
  ASSUME GraphInv', CallInv, CallInv',
         \E document \in Documents :
           \/ Execute(document)
           \/ \E m \in DOMAIN migrations, reverse \in BOOLEAN : ApplyDirectly(m, reverse, document)
  PROVE  Promise!Ask
<1>1. pc = "idle" /\ pc' # "idle" /\ reply' = reply
  BY DEF Execute, ApplyDirectly
<1>2. Asked = [kind |-> "none"]
  BY <1>1 DEF Asked
<1>3. (GraphInv /\ CallInv /\ pc # "idle" => Asked \in Promise!Request)'
  BY RunIsRequest, PTL
<1>4. (Asked \in Promise!Request)'
  BY <1>1, <1>3
<1>5. QED
  BY <1>1, <1>2, <1>4 DEF Promise!Ask, Promise!NoRequest, Promise!Request

LEMMA RunIsSteady ==
  ASSUME pc # "idle", pc' # "idle", UNCHANGED << graphVars, plan, hops, op, input >>
  PROVE  Asked' = Asked
BY DEF Asked, graphVars

(* A running call, seen by its caller. *)
LEMMA RequestStands ==
  ASSUME GraphInv, CallInv, pc # "idle"
  PROVE  /\ Asked # [kind |-> "none"]
         /\ Asked.kind # "empty" <=> hops # << >>
         /\ Asked.doc = input
<1>1. CASE hops = << >>
  BY <1>1 DEF Asked
<1>2. CASE hops # << >>
  BY <1>2, AskedOfRun DEF Between
<1>3. QED
  BY <1>1, <1>2

(* A hop that fails the run gives the caller a cause it can see. *)
LEMMA FailureIsRefusal ==
  ASSUME GraphInv, CallInv, pc \in {"pre", "transform", "post"}, NEW status \in Failures,
         Fail(status),
         status \in {"PreValidationFailed", "PreValidationUnavailable"} =>
           /\ FirstChecked
           /\ Validate(PreSchema(migrations, First), input) =
                IF status = "PreValidationFailed" THEN "invalid" ELSE "unavailable",
         status = "NotReversible" => op = "apply"
  PROVE  Promise!Reply
<1>1. reply = NoReply /\ hops # << >>
  BY RunningCall
<1>2. Asked = Between(PreSchema(migrations, First).fields,
                      PostSchema(migrations, hops[Len(hops)]).fields)
  BY <1>1, AskedOfRun
<1>3. Asked' = Asked
  BY RunIsSteady DEF Fail
<1>4. Promise!Refuses(status)
  <2>1. Asked.kind # "empty" /\ reply' = [status |-> status]
    BY <1>2 DEF Fail, Between
  <2>2. status = "NotReversible" => Asked.kind = "direct"
    BY <1>2 DEF Between
  <2>3. /\ Asked.checked = FirstChecked /\ Asked.doc = input
        /\ Asked.pre = PreSchema(migrations, First).fields
    BY <1>2 DEF Between
  <2>4. /\ status = "PreValidationFailed" =>
             Asked.checked /\ Outcome[Asked.pre, Asked.doc] = "invalid"
        /\ status = "PreValidationUnavailable" =>
             Asked.checked /\ Outcome[Asked.pre, Asked.doc] = "unavailable"
    BY <2>3 DEF Validate
  <2>5. QED
    BY <2>1, <2>2, <2>4 DEF Promise!Refuses
<1>5. status \in Promise!Failures
  BY DEF Failures, Promise!Failures
<1>6. Asked # [kind |-> "none"]
  BY RequestStands
<1>7. QED
  BY <1>1, <1>3, <1>4, <1>5, <1>6 DEF Promise!Reply, Promise!NoRequest, Promise!NoReply, NoReply

LEMMA FailuresKeepPromise ==
  ASSUME GraphInv, CallInv, InputInv, NotReversible \/ PreFails \/ TransformFails \/ PostFails
  PROVE  Promise!Reply
<1>1. CASE NotReversible
  <2>1. pc = "pre" /\ Fail("NotReversible") /\ ~IsHop(migrations, Hop)
    BY <1>1 DEF NotReversible
  <2>2. op = "apply"
    <3>1. SUFFICES ASSUME op # "apply" PROVE FALSE
      OBVIOUS
    <3>2. IsWalk(migrations, hops, plan.from, plan.to)
      BY <2>1, <3>1, RunningCall DEF CallInv, CallIsPlanOrHop, PlanIsWalk
    <3>3. hops[at] \in Hops(migrations)
      BY <2>1, <3>2, RunningCall DEF IsWalk
    <3>4. QED
      BY <2>1, <3>3 DEF Hops, Hop
  <2>3. QED
    BY <2>1, <2>2, FailureIsRefusal DEF Failures
<1>2. CASE PreFails
  <2>1. pc = "pre" /\ ~PreWaived
    BY <1>2 DEF PreFails
  <2>2. at = 1
    BY <1>2, RunningCall DEF PreFails, CallInv, DocumentFits
  <2>3. Hop = First /\ doc = input
    BY <2>1, <2>2 DEF Hop, First, InputInv
  <2>4. FirstChecked
    <3>1. First \in [migration : DOMAIN migrations, reverse : BOOLEAN]
      BY <2>1, RunningCall, HopsOfRun
    <3>2. migrations[First.migration].policy \in {"Strict", "PostOnly"}
      BY <3>1, SchemasOfHop
    <3>3. QED
      BY <2>1, <2>3, <3>1, <3>2 DEF PreWaived, FirstChecked
  <2>5. PICK status \in {"PreValidationFailed", "PreValidationUnavailable"} :
          /\ Fail(status)
          /\ PreOutcome = IF status = "PreValidationFailed" THEN "invalid" ELSE "unavailable"
    BY <1>2 DEF PreFails
  <2>6. QED
    BY <2>1, <2>3, <2>4, <2>5, FailureIsRefusal DEF Failures, PreOutcome
<1>3. CASE TransformFails
  BY <1>3, FailureIsRefusal DEF TransformFails, Failures
<1>4. CASE PostFails
  BY <1>4, FailureIsRefusal DEF PostFails, Failures
<1>5. QED
  BY <1>1, <1>2, <1>3, <1>4

LEMMA SucceedKeepsPromise ==
  ASSUME GraphInv, CallInv, InputInv, Succeed
  PROVE  Promise!Reply
<1>1. /\ pc = "last" /\ pc' = "returned" /\ reply' = [status |-> "ok", doc |-> doc]
      /\ UNCHANGED << graphVars, plan, hops, op, input >>
  BY DEF Succeed
<1>2. reply = NoReply /\ doc \in Documents
  BY <1>1 DEF CallInv, CallIsPlanOrHop, ExecutionTypeOK
<1>3. Asked' = Asked
  BY <1>1, RunIsSteady
<1>4. Promise!Delivers(doc)
  <2>1. CASE hops = << >>
    BY <1>1, <2>1, RequestStands DEF Promise!Delivers, InputInv
  <2>2. CASE hops # << >>
    <3>1. Asked = Between(PreSchema(migrations, First).fields,
                          PostSchema(migrations, hops[Len(hops)]).fields)
      BY <1>1, <2>2, AskedOfRun
    <3>2. at = Len(hops) /\ PostOutcome = "valid"
      BY <1>1, <2>2 DEF CallInv, CallIsPlanOrHop, DocumentFits
    <3>3. Outcome[PostSchema(migrations, hops[Len(hops)]).fields, doc] = "valid"
      BY <3>2 DEF PostOutcome, Validate, Hop
    <3>4. FirstChecked => Outcome[PreSchema(migrations, First).fields, input] = "valid"
      BY <1>1, <2>2 DEF InputInv, PastFirstCheck, Validate
    <3>5. /\ Asked.kind # "empty" /\ Asked.doc = input /\ Asked.checked = FirstChecked
          /\ Asked.pre = PreSchema(migrations, First).fields
          /\ Asked.post = PostSchema(migrations, hops[Len(hops)]).fields
      BY <3>1 DEF Between
    <3>6. QED
      BY <1>1, <3>3, <3>4, <3>5 DEF Promise!Delivers
  <2>3. QED
    BY <2>1, <2>2
<1>5. Asked # [kind |-> "none"]
  BY <1>1, RequestStands
<1>6. QED
  BY <1>2, <1>3, <1>4, <1>5 DEF Promise!Reply, Promise!NoRequest, Promise!NoReply, NoReply

LEMMA HopsAreHidden ==
  ASSUME \/ PrePasses \/ PostPasses
         \/ \E document \in Documents : TransformSucceeds(document)
  PROVE  UNCHANGED Promise!promiseVars
<1>1. /\ pc # "idle" /\ pc' # "idle"
      /\ UNCHANGED << graphVars, plan, hops, op, input >> /\ reply' = reply
  BY DEF PrePasses, PostPasses, TransformSucceeds
<1>2. QED
  BY <1>1, RunIsSteady DEF Promise!promiseVars

LEMMA TakeKeepsPromise ==
  ASSUME CallInv, TakeReply
  PROVE  Promise!Take
BY DEF TakeReply, CallInv, CallIsPlanOrHop, Promise!Take, Promise!NoReply, Promise!NoRequest,
   NoReply, Asked

LEMMA StepKeepsPromise ==
  ASSUME GraphInv, GraphInv', CallInv, CallInv', InputInv, [ExecutionNext]_vars
  PROVE  [Promise!Next]_Promise!promiseVars
<1>1. CASE \/ RegisterWhenFree
           \/ DropPlan
           \/ \E from, to \in SchemaId : ObtainPlan(from, to)
  BY <1>1, CallerKeepsPromise
<1>2. CASE \E document \in Documents :
             \/ Execute(document)
             \/ \E m \in DOMAIN migrations, reverse \in BOOLEAN :
                  ApplyDirectly(m, reverse, document)
  BY <1>2, AskKeepsPromise DEF Promise!Next
<1>3. CASE NotReversible \/ PreFails \/ TransformFails \/ PostFails
  BY <1>3, FailuresKeepPromise DEF Promise!Next
<1>4. CASE Succeed
  BY <1>4, SucceedKeepsPromise DEF Promise!Next
<1>5. CASE \/ PrePasses \/ PostPasses
           \/ \E document \in Documents : TransformSucceeds(document)
  BY <1>5, HopsAreHidden
<1>6. CASE TakeReply
  BY <1>6, TakeKeepsPromise DEF Promise!Next
<1>7. CASE UNCHANGED vars
  BY <1>7 DEF vars, graphVars, callVars, Promise!promiseVars, Asked
<1>8. QED
  BY <1>1, <1>2, <1>3, <1>4, <1>5, <1>6, <1>7 DEF ExecutionNext, HopStep

-----------------------------------------------------------------------------
(* However many hops a run takes, and whatever its transforms do to the    *)
(* document, execute(), apply() and apply_reverse() deliver or refuse only *)
(* what ExecutionPromise allows of the two ends (migration.rs:114-175,     *)
(* graph.rs:45-55).                                                        *)
THEOREM ExecutionKeepsPromise == ExecutionSpec => KeepsPromise
<1>1. ExecutionInit => InputInv /\ Promise!Init
  BY DEF ExecutionInit, InputInv, PastFirstCheck, Promise!Init, Promise!NoRequest,
     Promise!NoReply, NoReply, Asked
<1>2. GraphInv /\ CallInv /\ InputInv /\ [ExecutionNext]_vars => InputInv'
  BY InputInvKept
<1>3. /\ GraphInv /\ GraphInv' /\ CallInv /\ CallInv' /\ InputInv
      /\ [ExecutionNext]_vars
      => [Promise!Next]_Promise!promiseVars
  BY StepKeepsPromise
<1>4. QED
  BY <1>1, <1>2, <1>3, GraphInvHolds, CallInvHolds, PTL
     DEF ExecutionSpec, KeepsPromise, Promise!Spec
=============================================================================
