----------------------------- MODULE Migrations -----------------------------
(***************************************************************************)
(* Vocabulary of obserde-migrate: contracts, the SchemaIds they project    *)
(* to, schemas, migrations, and the hops and paths that a list of          *)
(* registered migrations offers.  No state: the registry, the planner and  *)
(* the executor are state machines over these definitions.                 *)
(***************************************************************************)
EXTENDS Integers, Sequences, FiniteSets

CONSTANTS
  Families,        \* namespace.name of a contract
  Versions,        \* declared schema versions
  Revisions,       \* build stamps, dropped by SchemaId
  FieldLists,      \* the Vec<Field> of a schema, one value per distinct list
  NaNFieldLists,   \* those with a NaN Range bound: == says they differ from themselves
  MigrationNames   \* a migration's id() string; nothing makes it unique

ASSUME VocabularyAssumption == NaNFieldLists \subseteq FieldLists

(* Names and versions are finitely many: nodes can be counted, and a path  *)
(* without repetition is bounded by their number.                          *)
ASSUME FiniteAssumption == IsFiniteSet(Families) /\ IsFiniteSet(Versions)

Contract == [family : Families, version : Versions, revision : Revisions]
SchemaId == [family : Families, version : Versions]
Schema   == [contract : Contract, fields : FieldLists]

(* What a reversible migration adds is a capability, not a flag: TRUE when *)
(* a reverse transform was supplied.                                       *)
Migration == [ id : MigrationNames, source : Schema, target : Schema,
               policy : {"Strict", "PostOnly"}, reversible : BOOLEAN ]

(* The node of a schema: its contract without the revision. *)
NodeOf(schema) == [ family  |-> schema.contract.family,
                    version |-> schema.contract.version ]

(* Vec<Field>'s derived equality, irreflexive on NaN bounds. *)
FieldsEqual(f, g) == f = g /\ f \notin NaNFieldLists

-----------------------------------------------------------------------------
(* Hops.  A hop names a registered migration by its index and a direction. *)

IsHop(migrations, hop) ==
  /\ hop \in [migration : DOMAIN migrations, reverse : BOOLEAN]
  /\ hop.reverse => migrations[hop.migration].reversible

Hops(migrations) ==
  { hop \in [migration : DOMAIN migrations, reverse : BOOLEAN] : IsHop(migrations, hop) }

(* The schemas a hop starts from and arrives at. *)
PreSchema(migrations, hop) ==
  IF hop.reverse THEN migrations[hop.migration].target
                 ELSE migrations[hop.migration].source

PostSchema(migrations, hop) ==
  IF hop.reverse THEN migrations[hop.migration].source
                 ELSE migrations[hop.migration].target

HopFrom(migrations, hop) == NodeOf(PreSchema(migrations, hop))
HopTo(migrations, hop)   == NodeOf(PostSchema(migrations, hop))

EdgesFrom(migrations, node) ==
  { hop \in Hops(migrations) : HopFrom(migrations, hop) = node }

-----------------------------------------------------------------------------
(* Paths.  The declarative reference that the searches are compared with.  *)

(* A walk: hops that chain from one node to another. *)
IsWalk(migrations, p, from, to) ==
  /\ p \in Seq(Hops(migrations)) /\ p # << >>
  /\ HopFrom(migrations, p[1]) = from
  /\ HopTo(migrations, p[Len(p)]) = to
  /\ \A k \in 1..(Len(p) - 1) : HopTo(migrations, p[k]) = HopFrom(migrations, p[k + 1])

(* A walk that visits no node twice, its start included. *)
IsSimplePath(migrations, p, from, to) ==
  /\ IsWalk(migrations, p, from, to)
  /\ \A k \in DOMAIN p : HopTo(migrations, p[k]) # from
  /\ \A j, k \in DOMAIN p : HopTo(migrations, p[j]) = HopTo(migrations, p[k]) => j = k

(* A walk back to its start that repeats no other node. *)
IsSimpleCycle(migrations, p, node) ==
  /\ IsWalk(migrations, p, node, node)
  /\ \A j, k \in DOMAIN p : HopTo(migrations, p[j]) = HopTo(migrations, p[k]) => j = k

(* The walks of each length from a node, grown hop by hop. *)
WalksFrom(migrations, from, maxLen) ==
  LET walks[n \in 1..maxLen] ==
        IF n = 1 THEN { << hop >> : hop \in EdgesFrom(migrations, from) }
        ELSE UNION { { Append(p, hop) : hop \in EdgesFrom(migrations, HopTo(migrations, p[n - 1])) }
                     : p \in walks[n - 1] }
  IN  UNION { walks[n] : n \in 1..maxLen }

(* A simple path has fewer hops than there are nodes. *)
SimplePaths(migrations, from, to) ==
  { p \in WalksFrom(migrations, from, Cardinality(SchemaId) - 1) :
      IsSimplePath(migrations, p, from, to) }

SimpleCycles(migrations, node) ==
  { p \in WalksFrom(migrations, node, Cardinality(SchemaId)) :
      IsSimpleCycle(migrations, p, node) }

ReverseCount(p) == Cardinality({ k \in DOMAIN p : p[k].reverse })

(* The paths plan() may recommend: among the shortest, the fewest reverse  *)
(* hops.                                                                   *)
BestPaths(migrations, from, to) ==
  LET simple   == SimplePaths(migrations, from, to)
      shortest == { p \in simple : \A q \in simple : Len(p) <= Len(q) }
  IN  { p \in shortest : \A q \in shortest : ReverseCount(p) <= ReverseCount(q) }
=============================================================================
