-------------------------- MODULE MigrationPlanner --------------------------
(***************************************************************************)
(* The searches of MigrationGraph, step by step: plan() runs               *)
(* bfs_shortest_length, one frontier node a step, then dfs_bounded, one    *)
(* edge a step, then chooses among the paths found; available_paths() runs *)
(* dfs_all.  Between questions the graph grows by register().              *)
(***************************************************************************)
EXTENDS MigrationGraph

VARIABLES
  query,          \* the call being executed, or NoQuery
  answer,         \* its result, or NoAnswer
  pc,             \* "idle", "trivial", "bfs", "dfs_bounded", "dfs_all", "choose" or "answered"
  visited,        \* the HashSet of nodes of the running search
  frontier,       \* BFS: nodes of the current level still to expand
  nextFrontier,   \* BFS: nodes found for the next level
  depth,          \* BFS: levels completed; in the DFS, the length it found
  stack,          \* DFS: frames [node, todo, remaining], innermost first
  path,           \* DFS: the hops from the start to the innermost frame
  results         \* DFS: the paths recorded so far

bfsVars    == << frontier, nextFrontier, depth >>
dfsVars    == << stack, path, results >>
searchVars == << visited, bfsVars, dfsVars >>
vars       == << graphVars, query, answer, pc, searchVars >>

Promise == INSTANCE PlanPromise

NoQuery  == Promise!NoQuery
NoAnswer == Promise!NoAnswer

-----------------------------------------------------------------------------
(* Asking a question and taking its answer. *)

Quiet ==
  /\ visited = {} /\ frontier = {} /\ nextFrontier = {} /\ depth = 0
  /\ stack = << >> /\ path = << >> /\ results = {}

PlannerInit ==
  /\ Init
  /\ query = NoQuery /\ answer = NoAnswer /\ pc = "idle"
  /\ Quiet

(* The caller owns the graph mutably only while no plan borrows it. *)
RegisterWhenIdle ==
  /\ pc = "idle"
  /\ \E m \in Offered : Register(m)
  /\ UNCHANGED << query, answer, pc, searchVars >>

Answer(a) ==
  /\ answer' = a
  /\ pc' = "answered"
  /\ visited' = {} /\ frontier' = {} /\ nextFrontier' = {} /\ depth' = 0
  /\ stack' = << >> /\ path' = << >> /\ results' = {}
  /\ UNCHANGED << graphVars, query >>

(* available_paths() records the trivial path before it searches. *)
AskAvailablePaths(from, to) ==
  /\ pc = "idle"
  /\ query' = [op |-> "available_paths", from |-> from, to |-> to]
  /\ pc' = "dfs_all"
  /\ results' = IF from = to THEN {<< >>} ELSE {}
  /\ visited' = {from}
  /\ stack' = << [node |-> from, todo |-> EdgesFrom(migrations, from), remaining |-> 0] >>
  /\ UNCHANGED << graphVars, answer, bfsVars, path >>

AskPlan(from, to) ==
  /\ pc = "idle"
  /\ query' = [op |-> "plan", from |-> from, to |-> to]
  /\ \/ /\ from = to
        /\ pc' = "trivial"
        /\ UNCHANGED searchVars
     \/ /\ from # to
        /\ pc' = "bfs"
        /\ visited' = {from}
        /\ frontier' = {from}
        /\ UNCHANGED << nextFrontier, depth, dfsVars >>
  /\ UNCHANGED << graphVars, answer >>

Release ==
  /\ pc = "answered"
  /\ pc' = "idle"
  /\ query' = NoQuery
  /\ answer' = NoAnswer
  /\ UNCHANGED << graphVars, searchVars >>

-----------------------------------------------------------------------------
(* plan(): the early return when from == to, then bfs_shortest_length. *)

PlanNothing ==
  /\ pc = "trivial"
  /\ Answer([kind |-> "plan", paths |-> {<< >>}])

Successors(node) == { HopTo(migrations, hop) : hop \in EdgesFrom(migrations, node) }

(* Faulty: the length of the path to the node itself. *)
LengthThroughOffByOne == depth

(* Some(depth + 1): the length of a path whose last hop leaves this level. *)
LengthThrough == depth + 1

(* Faulty: what a node leads to joins the node's own level. *)
LevelWithSuccessors(node) == (frontier \ {node}) \cup (Successors(node) \ visited)

(* What is left of the level, of the next one, and the nodes seen, once a  *)
(* node is expanded.                                                       *)
LevelAfter(node)     == frontier \ {node}
NextLevelAfter(node) == nextFrontier \cup (Successors(node) \ visited)

(* Faulty: queued but not marked. *)
SeenUnmarked(node) == visited

SeenAfter(node) == visited \cup Successors(node)

(* The length is known: plan() starts dfs_bounded with it. *)
BfsFinds(node) ==
  /\ pc = "bfs"
  /\ node \in frontier
  /\ query.to \in Successors(node)
  /\ pc' = "dfs_bounded"
  /\ depth' = LengthThrough
  /\ frontier' = {} /\ nextFrontier' = {}
  /\ visited' = {query.from}
  /\ stack' = << [ node |-> query.from, todo |-> EdgesFrom(migrations, query.from),
                   remaining |-> LengthThrough ] >>
  /\ UNCHANGED << graphVars, query, answer, path, results >>

BfsExpands(node) ==
  /\ pc = "bfs"
  /\ node \in frontier
  /\ query.to \notin Successors(node)
  /\ frontier' = LevelAfter(node)
  /\ nextFrontier' = NextLevelAfter(node)
  /\ visited' = SeenAfter(node)
  /\ UNCHANGED << graphVars, query, answer, pc, depth, dfsVars >>

BfsNextLevel ==
  /\ pc = "bfs"
  /\ frontier = {} /\ nextFrontier # {}
  /\ depth' = depth + 1
  /\ frontier' = nextFrontier
  /\ nextFrontier' = {}
  /\ UNCHANGED << graphVars, query, answer, pc, visited, dfsVars >>

BfsFails ==
  /\ pc = "bfs"
  /\ frontier = {} /\ nextFrontier = {}
  /\ Answer([kind |-> "missing"])

-----------------------------------------------------------------------------
(* dfs_bounded and dfs_all: one edge of the innermost frame a step, in the *)
(* order edges_from lists them.                                            *)

Searching == pc \in {"dfs_bounded", "dfs_all"}
Frame == Head(stack)

(* edges_from goes by migration, forward before reverse. *)
Earlier(g, h) ==
  \/ g.migration < h.migration
  \/ g.migration = h.migration /\ ~g.reverse

NextHop == CHOOSE hop \in Frame.todo : \A other \in Frame.todo \ {hop} : Earlier(hop, other)

(* Faulty: an edge passed over stays the next one. *)
TodoUnchanged(frames, hop) == frames

Todo(frames, hop) ==
  << [frames[1] EXCEPT !.todo = @ \ {hop}] >> \o Tail(frames)

(* Faulty: the bound handed down whole. *)
RemainingUnspent == Frame.remaining

(* What the recursive call may still spend; dfs_all has no bound. *)
RemainingBelow == IF pc = "dfs_all" THEN 0 ELSE Frame.remaining - 1

(* Faulty: the node stays visited after its recursive call. *)
VisitedForever == visited

VisitedOnReturn == visited \ {Frame.node}

(* The edge leads back to a node of the current path. *)
DfsSkips ==
  /\ Searching /\ Frame.todo # {}
  /\ HopTo(migrations, NextHop) \in visited
  /\ stack' = Todo(stack, NextHop)
  /\ UNCHANGED << graphVars, query, answer, pc, visited, bfsVars, path, results >>

(* The edge reaches the target: recorded, by dfs_bounded only at the exact *)
(* length.                                                                 *)
DfsReaches ==
  /\ Searching /\ Frame.todo # {}
  /\ HopTo(migrations, NextHop) = query.to
  /\ query.to \notin visited
  /\ results' = IF pc = "dfs_all" \/ Frame.remaining = 1
                THEN results \cup {Append(path, NextHop)}
                ELSE results
  /\ stack' = Todo(stack, NextHop)
  /\ UNCHANGED << graphVars, query, answer, pc, visited, bfsVars, path >>

DfsDescends ==
  /\ Searching /\ Frame.todo # {}
  /\ LET next == HopTo(migrations, NextHop)
     IN  /\ next \notin visited \cup {query.to}
         /\ pc = "dfs_all" \/ Frame.remaining > 1
         /\ visited' = visited \cup {next}
         /\ path' = Append(path, NextHop)
         /\ stack' = << [ node      |-> next,
                          todo      |-> EdgesFrom(migrations, next),
                          remaining |-> RemainingBelow ] >>
                       \o Todo(stack, NextHop)
  /\ UNCHANGED << graphVars, query, answer, pc, bfsVars, results >>

(* dfs_bounded gives up on an edge that cannot reach the target in time. *)
DfsPrunes ==
  /\ pc = "dfs_bounded" /\ Frame.todo # {}
  /\ HopTo(migrations, NextHop) \notin visited \cup {query.to}
  /\ Frame.remaining <= 1
  /\ stack' = Todo(stack, NextHop)
  /\ UNCHANGED << graphVars, query, answer, pc, visited, bfsVars, path, results >>

(* The recursive call returns; its caller forgets the node and the hop. *)
DfsBacktracks ==
  /\ Searching /\ Frame.todo = {} /\ Len(stack) > 1
  /\ visited' = VisitedOnReturn
  /\ path' = SubSeq(path, 1, Len(path) - 1)
  /\ stack' = Tail(stack)
  /\ UNCHANGED << graphVars, query, answer, pc, bfsVars, results >>

(* available_paths() returns what dfs_all recorded. *)
DfsAllReturns ==
  /\ pc = "dfs_all" /\ Frame.todo = {} /\ Len(stack) = 1
  /\ Answer([kind |-> "paths", paths |-> results])

(* dfs_bounded's outermost call returns to plan(). *)
DfsBoundedReturns ==
  /\ pc = "dfs_bounded" /\ Frame.todo = {} /\ Len(stack) = 1
  /\ pc' = "choose"
  /\ stack' = << >>
  /\ UNCHANGED << graphVars, query, answer, visited, bfsVars, path, results >>

(* Faulty: every shortest path, reversals ignored. *)
AnyReversals == results

(* plan() keeps the candidates with the fewest reverse hops. *)
FewestReversals == { p \in results : \A q \in results : ReverseCount(p) <= ReverseCount(q) }

PlanChooses ==
  /\ pc = "choose"
  /\ results # {}
  /\ Answer([ kind  |-> IF Cardinality(FewestReversals) = 1 THEN "plan" ELSE "ambiguous",
              paths |-> FewestReversals ])

-----------------------------------------------------------------------------
SearchStep ==
  \/ PlanNothing
  \/ \E node \in SchemaId : BfsFinds(node) \/ BfsExpands(node)
  \/ BfsNextLevel \/ BfsFails
  \/ DfsSkips \/ DfsReaches \/ DfsDescends \/ DfsPrunes \/ DfsBacktracks
  \/ DfsAllReturns \/ DfsBoundedReturns \/ PlanChooses

PlannerNext ==
  \/ RegisterWhenIdle
  \/ \E from, to \in SchemaId : AskPlan(from, to) \/ AskAvailablePaths(from, to)
  \/ SearchStep
  \/ Release

(* A call that has started runs: the search is sequential code. *)
PlannerSpec == PlannerInit /\ [][PlannerNext]_vars /\ WF_vars(SearchStep)
-----------------------------------------------------------------------------
(* Properties. *)

FrameType == [node : SchemaId, todo : SUBSET Hops(migrations), remaining : Nat]

(* Types of the search state, and that nothing of it outlives a call. *)
PlannerTypeOK ==
  /\ query \in {NoQuery} \cup Promise!Query
  /\ pc \in { "idle", "trivial", "bfs", "dfs_bounded", "dfs_all", "choose", "answered" }
  /\ visited \subseteq SchemaId /\ frontier \subseteq visited /\ nextFrontier \subseteq visited
  /\ depth \in 0..Cardinality(SchemaId)
  /\ stack \in Seq(FrameType)
  /\ path \in Seq(Hops(migrations))
  /\ results \subseteq Seq(Hops(migrations))
  /\ pc \in {"idle", "trivial", "answered"} => Quiet
  /\ query = NoQuery <=> pc = "idle"
  /\ answer = NoAnswer <=> pc # "answered"

(* Backtracking undoes exactly what descending did (graph.rs:183-187 and   *)
(* :236-240): the visited set is the set of nodes on the stack, none twice,*)
(* and the path's hops lead from each frame to the next.                   *)
BacktrackingIsExact ==
  Searching =>
    LET frame(k) == stack[Len(stack) + 1 - k]   \* the k-th frame from the start
    IN  /\ visited = { stack[k].node : k \in DOMAIN stack }
        /\ Cardinality(visited) = Len(stack)
        /\ frame(1).node = query.from
        /\ Len(path) = Len(stack) - 1
        /\ \A k \in DOMAIN path :
             /\ HopFrom(migrations, path[k]) = frame(k).node
             /\ HopTo(migrations, path[k]) = frame(k + 1).node

(* bfs_shortest_length hands dfs_bounded the length of a shortest path,    *)
(* whatever order the frontier is expanded in (graph.rs:191-212).          *)
BfsFindsShortestLength ==
  pc = "dfs_bounded" =>
    LET simple == SimplePaths(migrations, query.from, query.to)
    IN  /\ \E p \in simple : Len(p) = depth
        /\ \A p \in simple : depth <= Len(p)

(* graph.rs:232-234, "shouldn't happen": dfs_bounded never meets the       *)
(* target above or below the depth that bfs_shortest_length gave it.       *)
TargetMetOnlyAtFullDepth ==
  pc = "dfs_bounded" /\ Frame.todo # {} /\ HopTo(migrations, NextHop) = query.to
    => Frame.remaining = 1

(* graph.rs:284: the expect() cannot fail, the bounded search finds a path *)
(* whenever the breadth-first one found a length.                          *)
SearchesAgree == pc = "choose" => results # {}

(* plan() and available_paths() answer as promised, whatever the searches  *)
(* went through.                                                           *)
KeepsPromise == Promise!Spec

(* Reverse edges make the graph cyclic, and both searches still end.       *)
CallReturns == Promise!Responsive

(* graph.rs:147-148: available_paths(n, n) lists, beside the empty path,   *)
(* the genuine cycles back to n.                                           *)
CyclesAreListed ==
  pc = "answered" /\ query.op = "available_paths" /\ query.from = query.to =>
    SimpleCycles(migrations, query.from) \subseteq answer.paths
=============================================================================
