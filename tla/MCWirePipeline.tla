--------------------------- MODULE MCWirePipeline ---------------------------
(***************************************************************************)
(* Instance of WirePipeline: maps of up to three entries over four keys,   *)
(* two of which the schemas declare, with every kind of value, nested maps *)
(* and lists at and over the limits, keys twice, zeros, NaN, infinities.   *)
(***************************************************************************)
EXTENDS WirePipeline

FieldOf(name, of, constraints) ==
  [ name |-> name, ty |-> << [of |-> of] >>, required |-> FALSE, constraints |-> constraints,
    description |-> "plain" ]

NotNegative == [kind |-> "range", minimum |-> Num(0), maximum |-> None]

MCSchemas ==
  { << FieldOf("y", "float", << NotNegative >>), FieldOf("b", "integer", << NotNegative >>) >>,
    << FieldOf("b", "bytes", << >>) >> }

MCLexicographic == << "a", "b", "x", "y" >>

IntOf(n)      == [kind |-> "integer", num |-> Num(n)]
FloatOf(num)  == [kind |-> "float", num |-> num]
TextOf(n)     == [kind |-> "string", len |-> n, form |-> "other"]
ListOf(items) == [kind |-> "list", items |-> items]
MapOf(es)     == [kind |-> "map", entries |-> es]
Entry(key, v) == [key |-> key, value |-> v]

Leaves ==
  { IntOf(0), FloatOf(Zero), FloatOf(NegZero), FloatOf(NaN), FloatOf(Infinite), TextOf(2),
    TextOf(9), [kind |-> "bytes", len |-> 1], [kind |-> "bytes", len |-> 7], [kind |-> "null"],
    [kind |-> "bool", value |-> TRUE], [kind |-> "bool", value |-> FALSE] }

Collections ==
  { ListOf(<< >>), ListOf(<< ListOf(<< >>) >>), ListOf(<< ListOf(<< IntOf(1) >>) >>),
    ListOf(<< ListOf(<< >>), IntOf(1) >>),
    ListOf(<< IntOf(0), IntOf(0), IntOf(1), IntOf(1) >>),
    MapOf(<< Entry("x", IntOf(0)), Entry("a", FloatOf(NegZero)) >>),
    MapOf(<< Entry("x", IntOf(0)), Entry("x", IntOf(1)) >>) }

MCDocuments ==
  { MapOf(<< Entry(k, v) >>) : k \in {"b", "y", "x"}, v \in Leaves \cup Collections }
    \cup { MapOf(<< Entry("x", IntOf(1)), Entry(k, v), Entry(l, w) >>) :
           k \in {"a", "b"}, v \in {IntOf(0), TextOf(2)},
           l \in {"b", "y"}, w \in {IntOf(1), FloatOf(NegZero), FloatOf(NaN)} }
    \cup { IntOf(0) }
=============================================================================
