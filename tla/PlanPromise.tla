---------------------------- MODULE PlanPromise -----------------------------
(***************************************************************************)
(* What MigrationGraph::plan and available_paths promise, whatever search  *)
(* they use: a question about two nodes is answered in one step, from the  *)
(* registered migrations alone, with the paths of module Migrations.       *)
(***************************************************************************)
EXTENDS Migrations

VARIABLES
  migrations,   \* the registered migrations
  query,        \* the question being asked, or NoQuery
  answer        \* its answer, or NoAnswer

promiseVars == << migrations, query, answer >>

NoQuery  == [op |-> "none"]
NoAnswer == [kind |-> "none"]

Query == [op : {"plan", "available_paths"}, from : SchemaId, to : SchemaId]

(* plan: the empty plan, the one best path, all best paths when several    *)
(* remain tied, or MissingMigration.                                       *)
PlanAnswer(from, to) ==
  LET best == BestPaths(migrations, from, to)
  IN  CASE from = to              -> [kind |-> "plan", paths |-> {<< >>}]
        [] from # to /\ best = {} -> [kind |-> "missing"]
        [] OTHER -> [ kind  |-> IF Cardinality(best) = 1 THEN "plan" ELSE "ambiguous",
                      paths |-> best ]

(* available_paths: the simple paths, and the empty one between a node and *)
(* itself.                                                                 *)
PathsAnswer(from, to) ==
  [ kind  |-> "paths",
    paths |-> SimplePaths(migrations, from, to) \cup (IF from = to THEN {<< >>} ELSE {}) ]

Init ==
  /\ migrations = << >>
  /\ query = NoQuery
  /\ answer = NoAnswer

(* The plans an answer lends out borrow the graph: it cannot grow while a  *)
(* question or its answer is held.                                         *)
Grow ==
  /\ query = NoQuery
  /\ Len(migrations') = Len(migrations) + 1
  /\ SubSeq(migrations', 1, Len(migrations)) = migrations
  /\ UNCHANGED << query, answer >>

Ask ==
  /\ query = NoQuery
  /\ query' \in Query
  /\ UNCHANGED << migrations, answer >>

Reply ==
  /\ query # NoQuery /\ answer = NoAnswer
  /\ answer' # NoAnswer
  /\ answer' = IF query.op = "plan" THEN PlanAnswer(query.from, query.to)
                                    ELSE PathsAnswer(query.from, query.to)
  /\ UNCHANGED << migrations, query >>

Release ==
  /\ answer # NoAnswer
  /\ query' = NoQuery
  /\ answer' = NoAnswer
  /\ UNCHANGED migrations

Next == Grow \/ Ask \/ Reply \/ Release

Spec == Init /\ [][Next]_promiseVars

(* A question asked is answered. *)
Responsive == query # NoQuery ~> answer # NoAnswer
=============================================================================
