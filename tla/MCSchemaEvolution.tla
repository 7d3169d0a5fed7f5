-------------------------- MODULE MCSchemaEvolution --------------------------
(***************************************************************************)
(* Instance of SchemaEvolution: every schema of at most two fields, in     *)
(* either order.  Field a ranges over types, ranges (one-sided, split in   *)
(* two, empty), lengths, patterns known and unknown, and annotations;      *)
(* field b over required and optional.                                     *)
(***************************************************************************)
EXTENDS SchemaEvolution

CONSTANT BoundsOfA   \* extra lists of ranges for field a

Chain(constructors) == [ k \in DOMAIN constructors |-> [of |-> constructors[k]] ]
MapType(key, of) == << [of |-> "map", key |-> key], [of |-> of] >>

RangeOf(low, high)  == [kind |-> "range", minimum |-> low, maximum |-> high]
LengthOf(low, high) == [kind |-> "length", minimum |-> low, maximum |-> high]
NonEmpty == [kind |-> "nonempty"]
Pattern(grammar) == [kind |-> "pattern", grammar |-> grammar]
Custom(text) == [kind |-> "custom", text |-> text]

FieldOf(name, ty, required, constraints, description) ==
  [ name |-> name, ty |-> ty, required |-> required, constraints |-> constraints,
    description |-> description ]

IntegerType == Chain(<< "integer" >>)
StringType  == Chain(<< "string" >>)

ListsOfA == { << >>, << RangeOf(Num(0), Num(2)) >>, << RangeOf(Num(1), None) >>,
              << RangeOf(Num(0), None), RangeOf(Num(1), Num(2)) >>, << RangeOf(None, Num(4)) >> } \cup BoundsOfA

VariantsOfA ==
  { FieldOf("a", IntegerType, TRUE, cs, "plain") : cs \in ListsOfA }
    \cup { FieldOf("a", IntegerType, FALSE, << >>, "plain"),
           FieldOf("a", MapType("string", "integer"), TRUE, << >>, "plain"),
           FieldOf("a", MapType("integer", "integer"), TRUE, << >>, "other"),
           FieldOf("a", MapType("integer", "integer"), TRUE, << >>, "plain"),
           FieldOf("a", Chain(<< "list", "integer" >>), TRUE, << NonEmpty >>, "plain") }
    \cup { FieldOf("a", StringType, TRUE, cs, "plain") :
           cs \in { << LengthOf(Num(1), Num(2)) >>, << LengthOf(Num(1), None), NonEmpty >>,
                    << RangeOf(Num(0), None), LengthOf(Num(0), Num(2)) >>,
                    << RangeOf(Num(0), None), LengthOf(Num(0), None) >>,
                    << Pattern("identifier") >>, << Pattern("other"), Custom("x") >>,
                    << Custom("y") >>, << LengthOf(Num(4), None) >>, << LengthOf(Num(5), None) >> } }
    \cup { FieldOf("a", Chain(<< "timestamp" >>), TRUE, << >>, "plain"),
           FieldOf("a", Chain(<< "list", "integer" >>), TRUE, << >>, "plain"),
           FieldOf("a", << [of |-> "map", key |-> "string"] >> \o Chain(<< "list", "integer" >>),
                   TRUE, << >>, "plain") }

VariantsOfB == { FieldOf("b", IntegerType, required, << >>, "plain") : required \in BOOLEAN }

MCSchemas ==
  { << >> }
    \cup { << f >> : f \in VariantsOfA \cup VariantsOfB }
    \cup { << f, g >> : f \in VariantsOfA, g \in VariantsOfB }
    \cup { << g, f >> : f \in VariantsOfA, g \in VariantsOfB }

-----------------------------------------------------------------------------
IntOf(n)      == [kind |-> "integer", num |-> Num(n)]
Text(n, form) == [kind |-> "string", len |-> n, form |-> form]
MapOf(v)      == [kind |-> "map", entries |-> << [key |-> "k", value |-> v] >>]

ValuesOfA ==
  { IntOf(0), IntOf(1), IntOf(3), IntOf(5), IntOf(7), [kind |-> "float", num |-> NaN], [kind |-> "null"],
    Text(0, "other"), Text(1, "identifier"), Text(3, "other"), Text(3, "timestamp"),
    MapOf(IntOf(0)), MapOf(Text(1, "identifier")),
    [kind |-> "list", items |-> << >>], [kind |-> "list", items |-> << IntOf(0) >>],
    [kind |-> "list", items |-> << IntOf(0), Text(0, "other") >>],
    MapOf([kind |-> "list", items |-> << IntOf(0), Text(0, "other") >>]),
    [kind |-> "map", entries |-> << [key |-> "k", value |-> IntOf(0)],
                                    [key |-> "k", value |-> Text(0, "other")] >>] }

EntriesOf(key, values) == { << >> } \cup { << [key |-> key, value |-> v] >> : v \in values }

(* One document holds a twice: valid by its first value alone. *)
MCDocuments ==
  { [kind |-> "map", entries |-> a \o b] :
      a \in EntriesOf("a", ValuesOfA), b \in EntriesOf("b", {IntOf(0), Text(1, "other")}) }
    \cup { [kind |-> "map", entries |-> << [key |-> "a", value |-> IntOf(1)],
                                          [key |-> "a", value |-> Text(0, "other")] >>],
           [kind |-> "null"] }

MCNaNBounds == { << RangeOf(NaN, None) >> }

(* Without the extra lists, no bound is NaN. *)
ASSUME NaNFreeAssumption == BoundsOfA = {} => \A s \in Schemas : NaNFree(s)
=============================================================================
