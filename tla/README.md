# A TLA+ verification project for Obserde

Obserde is a set of Rust crates about data contracts: schemas with versions,
documents checked against them, their canonical form and JSON encoding, the
analysis of schema changes, and migrations between versions. It is sequential
library code: nothing runs in the background, nothing is persisted. What is
hard about it is order (which registrations, searches, hops and versions came
before), partial failure, and whether two parts that must agree on what a
schema means really do.

Source paths below are relative to `src/crates/`.

## 1. Inventory

| Component | State it keeps | Operations | What makes it correct |
|---|---|---|---|
| `obserde-core` (`contract.rs`, `version.rs`) | none; a `Contract` is namespace, name, version, revision | construct, parse, print | the text of a contract is its identity |
| `obserde-schema` | none; an immutable `Schema` (contract, `Vec<Field>`) | `Schema::new`, `field` | no field name twice; derived equality (irreflexive on a NaN `Range` bound) |
| `obserde-value` | none; `Document`, a value tree whose maps may hold a key twice; `Path` | `get` finds the first entry; `field`, `index` extend a path | duplicates stay observable; a path leads to one value |
| `obserde-validate` (`validator.rs`) | none | `validate(schema, doc)`: issues, or an error for an unknown grammar | validity is what every other crate reasons about; an issue's path leads to the fault |
| `obserde-compat` (`diff.rs`, `compatibility.rs`) | none | `diff`, `analyze`, and the texts of both | a verdict must agree with what `validate` accepts, across many versions; a text shows every effect and says of it what is true |
| `obserde-migrate`, registry (`graph.rs`, `schema_id.rs`) | `migrations: Vec<Migration>`, `schema_by_id: HashMap<SchemaId, (Schema, String)>` | `register`, `check_and_record` | `SchemaId` drops the revision: one structure per `SchemaId` among registered migrations |
| `obserde-migrate`, planner (`graph.rs`) | locals of the searches: visited set, queue, recursion, path, results | `plan`, `available_paths` | shortest paths, fewest reverse hops, all ties; termination on cyclic graphs |
| `obserde-migrate`, execution (`graph.rs`, `migration.rs`) | the document on its way through the hops | `execute`, `apply`, `apply_reverse` | no document delivered that does not fit the target; no failure halfway for want of fit |
| `obserde-canonical` | none | `canonicalize`, `schema_hash`, `document_hash` | idempotence; equal documents hash alike, different ones and different schemas apart |
| `obserde-json` | none | `encode`, `decode_with_limits` | round trip with named exceptions; limits |
| `obserde-padagonia` | `SemanticAnnotations` (field to concept and relations), `StaticResolver` | `annotate`, `validate_semantic` against a resolver that may fail | fail closed, complete reports |
| `SemanticId` (`semantic_id.rs`) | none | `parse` | accepts the path of every contract |

How they interact. Everything reads schemas and documents. `Migration::run`
calls `validate` before and after a transform, a closure the caller supplied.
A `MigrationPlan` borrows the `MigrationGraph`, so the registry cannot change
while a plan, a list of paths or an ambiguity error is held; the models keep
that exclusion, and it is the only concurrency control there is. `diff` and
`analyze` never call `validate`, they predict it. `validate_semantic` is
independent of `validate` and calls a resolver, in practice a remote ontology.

Which behaviours are hard: the registry after rejected calls (a call may record
one of its two ends and then fail); two searches that must agree on a length;
backtracking in a cyclic graph; chains of hops that each waive part of the
checks; chains of versions judged pairwise; NaN; duplicate keys; a resolver
that changes its mind between two calls. `PROJECT.json` lists each at its line
under `hazards`.

## 2. Modules

| Module | Models | Extends |
|---|---|---|
| `Migrations` | vocabulary: contracts, `SchemaId`, schemas, migrations, hops; walks, simple paths and best paths, the declarative reference for the searches | |
| `MigrationGraph` | `register`, `check_and_record` | `Migrations` |
| `MigrationGraphProofs` | theorems about it | `MigrationGraph` |
| `PlanPromise` | abstract: a question about two nodes is answered in one step, from the registry alone | `Migrations` |
| `MigrationPlanner` | `plan`, `bfs_shortest_length`, `dfs_bounded`, `available_paths`, `dfs_all`, interleaved with `register`; implements `PlanPromise` | `MigrationGraph` |
| `MigrationPlannerProofs` | theorems about walks and simple paths, about its types and its backtracking, about what the searches find, and that they implement `PlanPromise` | `MigrationPlanner`, `MigrationGraphProofs` |
| `ExecutionPromise` | abstract: a run moves a document from one structure to another, or is refused for a cause visible from its ends | |
| `MigrationExecution` | `MigrationPlan::execute`, `Migration::apply`, `apply_reverse`, `run`, over the registry; implements `ExecutionPromise` | `MigrationGraph` |
| `MigrationExecutionProofs` | theorems about it, and that it implements `ExecutionPromise` | `MigrationExecution`, `MigrationGraphProofs` |
| `Validation` | schemas, documents, paths, `validate` and its issues as functions | |
| `DataLemmas` | lemmas that the proofs about schemas, documents and hashes share: sequences, streams read back from where they start, values by their depth, the levels of a type | `Validation` |
| `Compatibility` | `diff`, `classify_level`, `analyze` as functions | `Validation` |
| `Findings` | `describe`, and what the two `Display` texts show | `Compatibility` |
| `SchemaEvolution` | an (external) team publishing versions that `analyze` calls compatible, over stored documents | `Findings` |
| `SchemaEvolutionProofs` | theorems about it, and with them about `Compatibility` and `Validation` | `SchemaEvolution`, `DataLemmas` |
| `Contracts` | `Contract::new`, `parse`, `Display`; `SchemaVersion`; `SchemaId`; the three dotted grammars | |
| `Hashing` | `schema_hash` as the stream it feeds to SHA-256 | `Contracts`, `Compatibility` |
| `Publication` | contracts and schemas being built, and an (external) store that compares hashes | `Hashing` |
| `PublicationProofs` | theorems about it, and with them about `Contracts` and `Hashing` | `Publication`, `DataLemmas` |
| `SemanticPromise` | abstract: a call to `validate_semantic` is refused for an unknown name, or answered by one report that is complete, fails closed and was true finding by finding | |
| `SemanticValidation` | `annotate`, the `StaticResolver` builders, `validate_semantic` one resolver call a step; implements `SemanticPromise` | |
| `SemanticValidationProofs` | theorems about it | `SemanticValidation` |
| `WirePipeline` | `canonicalize`, `document_hash`, `encode`, `decode_with_limits`, between (external) holders who pass a document on | `Validation` |
| `WirePipelineProofs` | theorems about it | `WirePipeline`, `DataLemmas` |
| `MC*` | the instances TLC checks | the module named |

### State and actions against the code

**MigrationGraph.** `migrations` is the vector; `schemaById` the map, of which
the field list and the registering migration's id are kept; `registration` is
the result of the last call. `register` checks and records the source, then the
target. As it is one call on `&mut self` it is one action, split by result:
`RegisterAccepts`, `RegisterRejectsSource`, `RegisterRejectsTarget`. The last
keeps what the source recorded, as the code does. `FieldsEqual` is the derived
`PartialEq`: irreflexive on schemas with a NaN bound (`NaNFieldLists`).

**MigrationPlanner.** `pc` tells which function runs. The breadth-first queue is
modelled as two levels (`frontier`, `nextFrontier`), of which any node may be
expanded next, more orders than the queue's. The recursion of the
depth-first searches is the explicit `stack`; each edge looked at is one step
(`DfsSkips`, `DfsReaches`, `DfsDescends`, `DfsPrunes`, `DfsBacktracks`), in the
order of `edges_from`. `results` is a set: `plan` does not depend on the order
of candidates. Strings rendered for errors are left out.

**MigrationExecution.** One hop is three steps: pre-validation, transform,
post-validation, each of which may fail in the ways `MigrationError` lists.
`Outcome` is a constant function standing for `validate`, with values valid,
invalid and unavailable (the `ValidateError` case), arbitrary in the proofs.
A transform is a closure: any document, or a failure.

**Validation, Compatibility.** Types are the chain of their constructors, with
a map's key type kept as an attribute, since the code compares it in the diff
and in the hash and nowhere else. Numbers keep their order, with NaN and
absence apart; above `Precision`, which stands for 2^53, they are integers of
which `f64` has every other one, and `AsFloat` rounds to the even neighbour.
`validate` rounds an `i64` before it compares (`Satisfied`), `parse_bound`
rounds the bounds of a `Length` (`Parsed`). `TypeIssues` goes down a type level
by level, extending the path at each, and stops below a value that does not
fit. `Issues` is a set of paths and codes; messages are left out. The
entries of a diff carry values where the code carries their rendered text;
`Parsed` is `parse_bound`, which reads "none" as an infinity. Entries form a
set: two bounds of one field that move alike, one of a Range and one of a
Length, make one entry, which no verdict depends on.

**Findings.** `Describe` is `describe`: path, level, previous and new, impact,
and whether an action is required. An impact sentence is reduced to the claim it
makes; `BorneOut`, in `SchemaEvolution`, says when the claim is true.
`PrintedDiff` is the three lists of `SchemaDiff`'s `Display`, `PrintedInFull`
the findings that the report's `Display` explains rather than mentions.

**SchemaEvolution.** `origin` is the version the stored documents were written
for, `current` the one in force. `Publish`, `Withhold` and `Rewrite` are the
team's and external; the verdict and the readings are the code's. The shapes
the Rust types give schemas and documents (`WellFormedSchema`,
`WellFormedDocument`) are assumptions on `Schemas` and `Documents` that TLC
evaluates in every run of the module: any `f64` as a bound, NaN and infinities
included, integers and lengths up to twice `Precision`, as far as `AsFloat`
says how they round, and no value of 2^53 elements.

**Contracts.** A text is a sequence of words and of the separators `.`, `/` and
`+`. A word is known by the classes of its characters and, if it is made of
digits, by its value; `IsU32` takes leading zeros and one sign, as Rust's parser
does, and `Decimal` gives the one word `Display` prints. `Parse` cuts where
`splitn`, `rsplit_once` and `split_once` cut. `IsSegment`, `IsIdentifier` and
`IsSemanticId` are the three copies of the dotted grammar, in `obserde-core`,
`obserde-validate` and `obserde-padagonia`.

**Hashing, Publication.** A stream is a sequence of tags, counts, flags, bits
and texts. How many bytes each takes is determined by the ones before it, so
two streams of bytes are equal if and only if the sequences are; that SHA-256
keeps different streams apart is assumed. The store of `Publication` is
external (`hash.rs:133-138`: no storage layer exists yet): it keeps the first
schema published under a contract's text and compares the hash of any later one
with it. `RefuseContract` and `RefuseFields` are the errors of `Contract::new`,
`Contract::parse` and `Schema::new`. The shape of a `Vec<Field>`
(`FieldListsAssumption`) is an assumption on the lists offered; the key type of
a map is one of the primitive types, which feed one tag each.

**SemanticValidation.** The `StaticResolver` is borrowed while a call runs and
keeps still; a live resolver is an external ontology that may change between
two calls of it and fail at any. `pc`, `at` and `n` are the position in the two
nested loops of `validate_semantic`; `NamesFail` and `NamesPass` are the check
that comes before them, which may report any of the unknown names because the
map of annotations has no order. After a relation's target is looked up its
permission is asked in any case (`AfterTarget`), as two findings may be due.
`seen` is a history variable: what was true of each question at some moment
since the call began. Issues keep the question and the kind of finding; paths
and wording are left out.

**WirePipeline.** JSON text is modelled as the value it parses to, with entries
in order (the `preserve_order` feature is on); its length is left open, so any
text may be refused. Floats have a zero of either sign, NaN and infinities.
`HashStream` is what `document_hash` feeds to SHA-256, modelled like
`Hashing`; a text with the length before it is one item. Documents and JSON
values are trees (`Trees`), and each of the four recursive functions is a fold
over them: `CanonicalNode`, `HashStream`, `EncodedNode` and `DecodedNode` say
what the code makes of one value, given what it makes of those inside, and
`Folded` does so from the leaves up. `Nesting` bounds how deep a document nests;
any number will do, and the code has no bound but `max_depth` on what is
decoded. Holders are external, in the order of
`obserde-json/tests/pipeline.rs`: canonicalize, encode, decode, pass on.

## 3. Runs

Passing runs:

| Run | Instance | What it shows |
|---|---|---|
| `planner` | four versions, five migrations that form a diamond, reverse edges, a self-loop, parallel edges by registering twice; registries of up to four | the searches' invariants (`BacktrackingIsExact`, `BfsFindsShortestLength`, `TargetMetOnlyAtFullDepth`, `SearchesAgree`); `KeepsPromise`: refinement of `PlanPromise`; `CallReturns`: every question is answered |
| `execution` | three versions, two revisions, seven migrations (reverse, PostOnly, self-loop, a conflicting source, another revision, a NaN bound), three documents that each field list accepts, rejects or cannot judge; up to three registered, any number of rejected calls | of the registry, `TypeOK`; `EndsRecorded`: the guard knows both ends of every registered migration; `OneStructurePerNode`: dropping the revision is safe; `RejectionIsFinal`: a refused migration stays refused. Of the calls, `ExecutionTypeOK`, `OutputFitsTarget`, `TransformInputFits`, `InputFailsOnlyAtFirstHop`, `KeepsPromise`: refinement of `ExecutionPromise`, and `CallReturns`: every run ends |
| `evolution` | 113 schemas of at most two fields in either order: ranges one-sided and split in two, lengths on both sides of `Precision`, timestamps, patterns known and unknown, custom constraints, map keys, descriptions; types up to a map of lists; documents with every kind of value, nested ones, a duplicate key and a non-map among them | `StoredStaysReadable` and `CompatibilityIsTransitive` over chains of published versions; `EnvelopeIsConjunction`; `EveryEffectIsShown`: a field that judges some document differently is listed in the printed diff, and one that turns one down is explained in the report; `ImpactIsBorneOut`: the impact texts come true; `IssuesLocateFaults`: an issue's path leads to a value at fault |
| `publication` | twelve texts, in several spellings of a contract or none; ten namespaces and names; twelve field lists that differ in one thing each; up to two published schemas | `HashIdentifiesStructure`: the hash tells apart what differs in more than descriptions, and nothing else; `EqualHashIsCompatible`: `analyze` agrees, NaN bounds included; `PrintedIdentity`: a contract's text is read back as that contract, a `SchemaId`'s forgets the revision alone; `GrammarsAgree` |
| `semantic` | two fields and a name no schema has, two concepts, one relation; every state of annotations and ontology the builders reach, up to two changes of a live ontology during a call, any resolver call failing | `ReportIsJustified`: each finding in a report was true at some moment of the call, and a question without a finding had the answer yes at some moment; `PermittedEndsAreKnown`: a static resolver's report never passes a relation and finds one of its ends unknown; `KeepsPromise`: refinement of `SemanticPromise`; `CallReturns`: every call returns |
| `wire` | 82 documents: up to three entries over four keys, every kind of value, nested maps and lists at and over the limits, duplicate keys, both zeros, NaN, infinities; two schemas; three hops | `HashSurvives` and `ValidOnArrival` for documents without bytes and duplicate keys; `LossIsConfinedToFirstHop` and `AcceptedIsPassedOn` for all; `CanonicalIsIdempotent` and `OrderDoesNotMatter`, on the bits hashed; `HashTellsDocumentsApart`: no two canonically different documents feed the hash the same |

Runs that show a disagreement between code and documentation (details under
`findings` in `PROJECT.json`):

| Run | What it shows |
|---|---|
| `registration_conflict` | a rejected registration leaves its source in `schema_by_id`; a later one is refused over a schema no registered migration has |
| `revision_bridge` | a self-loop bridging two structures of one version, which `migration.rs:56-58` calls legitimate, can be built but never registered |
| `available_paths_cycles` | `available_paths(n, n)` never lists the cycles `graph.rs:147-148` announces |
| `undeclared_key` | adding an optional field is Compatible although it can invalidate a document with an undeclared key of that name |
| `diff_reflexive` | with a NaN bound, `diff(S, S)` is not empty |
| `moved_bound` | a moved Length bound is explained with the field's Range when it has both |

### Why the bounds are enough

The registry, in `execution`: a conflict needs two schemas at one node, a
leftover needs a rejected call, drift would need a third migration; rejected
calls are not bounded. The theorems cover every other instance. `planner`: four
nodes are the fewest with two tied shortest paths of two hops, one of which has a reverse hop; with a self-loop, reverse edges and
parallel edges every branch of the searches is taken. `execution`: three
registered migrations allow a chain of three hops that mixes directions and
policies, and a fourth differing one to be rejected. `evolution`: one field
varies in every way the classification tells apart, the second comes, goes,
moves and changes its being required; chains of versions are not bounded.
`Precision` is 4, so that 5 and 7 are integers without an `f64` of their own;
no document is as long as that, as none has 2^53 elements.
`publication`: a collision or a drift needs two schemas under one text, a clash
of identities two contracts.
`semantic`: two fields with a relation each are the fewest where a change of the
ontology can fall between two fields, between target and permission, and
between two relations' findings; two changes let an answer flip and flip back.
`wire`: one hop loses what is lost, the second shows that nothing more is, the
third that this was no accident; the limits (depth 2, strings of 8, collections
of 3) are met exactly and exceeded. Documents nest three deep (`Nesting`), one
level more than the limit.
Deadlock checking is off everywhere: a registry at its bound with nothing left
to ask, a schema with no successor, or a document that was refused, is no error.

### Fairness

`PlannerSpec` has `WF_vars(SearchStep)` and `ExecutionSpec` has
`WF_vars(HopStep)`: a call that has started is sequential code without locks or
waits, so it takes its next step. Transforms are taken to return; one that
does not hangs `execute`, and nothing in the crate prevents that. `SemanticSpec`
has `WF_vars(CallStep)`: a resolver is taken to return, with an answer or with an
error; one that blocks for ever blocks `validate_semantic`, which has no
timeout. An ontology is under no fairness. Callers are
under no fairness: they may never ask, register or drop a plan.

## 4. Proofs

For every value of the constants that meets the named assumptions of the
modules, which TLC evaluates in the runs: `VocabularyAssumption`,
`FiniteAssumption` (finitely many families and versions, so that there are
finitely many nodes; needed for paths only), `OfferedAssumption` (callers offer
well-typed migrations), `BoundAssumption`, `NoDocumentAssumption`,
`OutcomeAssumption` (`validate` has three outcomes), the typing of the constants
of `SemanticValidation`, and `PrecisionAssumption`, `InfinityAssumption`,
`SchemasAssumption` and `DocumentsAssumption` of the modules about schemas,
`KeysAssumption` and `BoundsAssumption` of `WirePipeline`, and
`WordsAssumption`, `DigitsAssumption` (each number has one decimal form),
`TextsAssumption`, `PartsAssumption` and `FieldListsAssumption` of those about
contracts and hashes.
Three theorems of `SchemaEvolutionProofs` have one hypothesis more, stated with
them. `Spec` in the modules named `*Promise` is their safety part; what it
promises of calls that must return is `Responsive`, which TLC checks as
`CallReturns`.

`MigrationGraphProofs`:

- `TypeCorrect`: `Spec => []TypeOK`.
- `RegistryIsRecorded`, `RegistryIsConsistent`: `EndsRecorded` and
  `OneStructurePerNode` always hold. Neither needs a condition on which calls
  were rejected. `OneStructurePerNode` is not inductive alone: a new end is
  compared with the guard's entry, not with the old ends, so the invariant is
  `TypeOK /\ EndsRecorded /\ OneStructurePerNode`; `AcceptedAgrees` is the
  heart of the step: an accepted migration's ends equal what the guard then
  knows, in the derived equality for entries known before.
- `RejectionsAreFinal`: the action property `RejectionIsFinal`. Entries are
  never removed nor changed (`EntriesStay`), and a clash with one therefore
  stays.

`MigrationExecutionProofs`:

- `ExecutionTypeCorrect`, `TransformsAreFedValidInput`, `ChainsNeverBreak`,
  `DeliveredDocumentsFit`: the four invariants of `MigrationExecution`, for any
  registry, any plan, any `validate`. Every execution step is a registry step
  or leaves the registry alone, so the registry's invariant holds throughout
  (`GraphInvHolds`). On top, `CallInv` says that the held plan is a walk of the
  registry, that the running hops are the plan's or a single one, and that the
  document fits the schema at the current program point. From hop to hop it
  fits because the target of one hop and the source of the next are at one
  node, where the guard recorded the fields of both (`HopEndsRecorded`): that
  is why `ChainsNeverBreak` needs the theorems about the registry.
- `ExecutionKeepsPromise`: the hops, one by one, implement `ExecutionPromise`.
  The steps of a run are stutters until it replies; `InputInv` says what is
  known by then of the document the run began with.

`MigrationPlannerProofs`:

- `SimplePathsAreAll`: the reference definition `SimplePaths` bounds the length
  of the walks it enumerates by the number of nodes, and this cuts no simple
  path off. A simple path visits no node twice, and injects its positions into
  the nodes. What `WalksFrom` computes by recursion on the length is
  characterised for every length by a least counterexample (`<` on `Nat`
  is well founded), as induction theorems with an operator parameter cannot be
  used.
- `PlannerTypeCorrect` and `BacktrackingExact`: in any graph, at every step of
  both depth-first searches, the visited set is the set of nodes on the stack,
  none twice, and the path leads along it. `SearchState` is the inductive form.
  That depths stay within their type needs a count: each level of the
  breadth-first search has visited a node more than the one before
  (`BfsCount`).
- `BfsLengthIsShortest`, `TargetOnlyAtFullDepth`, `PlanHasCandidates`: the two
  searches, written apart, agree. `BfsState` says that every walk up to the
  current length ends in a visited node, that only the frontier is still to be
  expanded, and that it holds ends of walks of just that length; `DfsState`,
  that nothing unwanted is in `results`, and that a wanted path is, or follows
  the current one as far as some frame and goes on with an edge that frame has
  still to look at. `SearchInv` joins them with the length handed over and what
  each frame has left of it.
- `PlannerKeepsPromise`: `plan` and `available_paths`, one edge a step,
  implement `PlanPromise`, which answers from the registry in one step: a best
  path, the error with all tied candidates, or no path exactly if there is
  none; every simple path.

`SemanticValidationProofs`:

- `SemanticTypeCorrect`, `ReportsAreJustified`, `StaticReportsAgree`: the
  invariant is `ReportIsJustified` of the questions asked so far
  (`IssuesAreJustified`), with the facts that the ontology as it is now has
  been seen (`SeenIsCurrent`) and that a static resolver answers and keeps
  still (`StaticAnswers`). Nothing is assumed of how a live ontology changes,
  nor of the number of changes.
- `ReportsKeepPromise`: the resolver calls, one by one, implement
  `SemanticPromise`.

`SchemaEvolutionProofs`, for any schemas, fields, constraints and documents:

- `EnvelopeAcceptsTheSame`: the bounds that `diff` folds out of any number of
  constraints accept exactly what satisfies them all, NaN bounds included. A
  finite set of numbers has a tightest one (`SomeTightest`), and what it lets
  through they all do (`EffectiveBoundAccepts`).
- `CompatibleStepsAddUp`, `StoredDocumentsStayReadable`: `SchemaVerdict` reads
  off the entries what a compatible verdict says of two schemas
  (`SchemaCompat`): fields are kept with their types, none becomes required, no
  constraint appears and no effective bound narrows. That relation is reflexive
  and transitive, so that `SchemaCompat(origin, current)` is inductive, and a
  document read under one side is read under the other (`CompatibleReads`).
  Where `f64` rounds, in the bounds of a length, `NotNarrowedAccepts` shows that
  no document is long enough to tell.
- `EffectsAreShown`: two fields with no entry between them decide every document
  alike (`EqualFieldsDecide`), and two with no breaking entry satisfy
  `FieldCompat`, under which what was valid stays valid.
- `IssuesAreLocated`: an issue's path leads to a value of the document, and
  that value is at fault at the depth of the type that rejects it. `ChainIssues`
  goes down the type and `ValueAt` down the path; both are recursions on a
  number, so each step of one is matched with a step of the other, by least
  counterexample on the depth.
- `ImpactsAreBorneOut`: the claim of each impact text, one kind of entry after
  the other, holds of every document the schemas read differently for it.
- `CompatibleStepsAddUp`, `StoredDocumentsStayReadable` and `EffectsAreShown`
  suppose that no bound is NaN (`NaNFree`), and need it: with a Range from NaN
  added to the instance (`MCNaNBounds`) TLC finds each of the three violated.
  A bound may go from none to NaN, which accepts everything too, and from
  there to 1, each step called compatible.

`PublicationProofs`, for any words, texts, contracts and fields:

- `PrintedTextIsIdentity`: the parts of a good contract (`GoodContract`, which
  `Contract::new` and `parse` establish) hold none of the separators that
  `parse` looks for before it reaches them, so that each cut falls where
  `Display` joined (`CutInTwo`, `TextIsReadBack`). Two `SchemaId` texts are made
  equal contract texts by the revision of one of them.
- `GrammarsAlwaysAgree`: a text that is not cut is one piece (`OnePiece`), and a
  segment appended adds itself to the pieces (`JoinedPieces`).
- `HashIsStructure`: `At(s, p, x)` says that `x` is found in `s` from `p` on.
  For each kind of data, what is found at one offset decides what was fed there
  (`TextIsRead`, `BoundIsRead`, `ConstraintIsRead`, `TypeIsRead`,
  `FieldIsRead`); one after the other, by the first difference
  (`FlattenIsRead`). This is where the lengths, the tags of absent bounds and
  the tag of a map's key are needed. The invariant `Inv` says that an entry is
  keyed by its contract's text and hashed as it is, and that the answer was
  given by that hash; that the contracts are equal too needs `TextIsReadBack`.
- `HashImpliesCompatible`: between schemas of one structure `diff` lists changed
  descriptions and NaN bounds (`Harmless`), and neither is breaking.

`WirePipelineProofs`, for any documents, schemas, limits, nesting and number of
holders. What holds of a value once it holds of those inside holds of every
document (`TreeInduction`, by least counterexample on the depth), and each fold
does what its step says (`Unfolded`). On that rest:

- `CanonicalIsAlwaysIdempotent`: sorting by place leaves what is in order alone
  (`SortedInPlace`), at the top by the schema and below by name
  (`CanonicalTwice`). Keys that compare equal keep their order, so that this
  holds of duplicate keys too.
- `OrderNeverMatters`: entries without a key twice have one order by place
  (`OrderedOnce`): the place of an entry is how many keys come before it
  (`PlacedByRank`).
- `HashAlwaysSurvives`: decoding undoes encoding where nothing is excluded
  (`RoundTrip`), and what is canonical stays so. The inductive invariant `Inv`
  says of the holder what it has: the original or its canonical form if nothing
  is lost (`IntactInv`), and after the first arrival something without bytes,
  without a key twice, encodable, within the limits, canonically what arrived
  first (`ArrivedInv`).
- `LossIsAlwaysConfined` and `AcceptedIsAlwaysPassedOn` follow from `ArrivedInv`:
  decoding yields nothing that the next encoding loses (`DecodedIsClean`), and
  neither canonicalizing nor encoding makes such a value larger or deeper
  (`CanonicalStaysClean`, `EncodedStaysWithin`).
- `HashAlwaysTellsApart`: found at one offset, the streams of two documents are
  streams of one (`Decides`, by induction over the trees); the tags and the
  counts before collections are needed for it. The reading of joined streams
  (`FlattenIsRead`) is shared with `PublicationProofs`.
- `ValidIsValidOnArrival`: keys keep their values (`EntriesAsBefore`), every level
  of a type holds what it held, canonicalized (`LevelsAsBefore`), and constraints
  cannot tell -0.0 from 0.0 (`ConstraintsHoldAsBefore`).

Model-checked only:

- `CallReturns` of the planner, the execution and semantic validation:
  liveness under fairness is out of the prover's reach.

## 5. Not modelled, and why

- The RFC 3339 grammar: an attribute of a text here. It is a scan of the bytes
  of one string, with no state and no other part that must agree with it.
- Wording of messages and error codes; `Display` of a path and of a type; the
  hexadecimal form of a hash.
- `Deserialize` of contracts and schemas, which bypasses `Contract::new` and
  `Schema::new`: no code of the workspace deserializes one except tests and the
  generators of fixtures.
- NaN bounds in the passing evolution run: `diff` and `analyze` are already
  known to disagree with their documentation there, and a bound that moves from
  NaN to a number is a narrowing they do not see. `publication` and `execution`
  have NaN bounds. A bound of -0.0, equal to 0.0 and hashed apart.
- JSON syntax errors and integers out of `i64`, which only foreign text can
  hold; the length of keys and of the text. `decode` counts depth at each value,
  so an accepted document may have, below `max_depth` levels, one more
  collection if it is empty, where `limits.rs:29` counts every `List` and `Map`;
  the model has this behaviour, and no property is stated about it.
- Two impact texts are not held to their word everywhere (`Solid` in
  `SchemaEvolution`): that of a changed type is false of timestamps that become
  strings and of empty collections, that of an unknown grammar is true of
  strings only.
- Which of several unknown annotated fields `validate_semantic` reports: the first
  in the iteration order of a `HashMap` (`validate.rs:88`), any of them in the
  model. No property fixes the name.
- The migration of a document that travels as JSON: no code of the workspace
  joins `obserde-json` with `obserde-migrate`.
- Crash, restart, loss and retries: nothing is persisted and nothing is sent.

## 6. Plan

1. *(done)* registry, planner, execution, with their proofs.
2. *(done)* validation, diff and compatibility, findings and issues.
3. *(done)* semantic validation against static and live resolvers.
4. *(done)* the wire pipeline and the document hash.
5. *(done)* contracts, their grammars, and the schema hash.
6. *(done)* the promises of planner, execution and semantic validation, the
   searches' invariants, and the order that compatibility verdicts form.
7. *(done)* proofs of the above, but for liveness.
