--------------------------- MODULE MCPublication ---------------------------
(***************************************************************************)
(* Instance of Publication: three contracts in several spellings and many  *)
(* texts that are none, and field lists that differ in one thing each:     *)
(* order, map key, bound and its side, NaN, the split of a text.           *)
(***************************************************************************)
EXTENDS Publication

MCFirst ==
  [ elci |-> "lower", uni_2 |-> "lower", snap |-> "lower", Uni |-> "upper", sNap |-> "lower",
    _x |-> "underscore" ] @@ ("a-b" :> "lower")
    @@ [ d \in {"0", "1", "2", "3", "01", "4"} |-> "digit" ] @@ ("1a" :> "digit")

MCRest ==
  [ elci |-> {"lower"}, uni_2 |-> {"lower", "underscore", "digit"}, snap |-> {"lower"},
    Uni |-> {"lower"}, sNap |-> {"lower", "upper"}, _x |-> {"lower"} ]
    @@ ("a-b" :> {"lower", "other"})
    @@ [ d \in {"0", "1", "2", "3", "4"} |-> {} ] @@ ("01" :> {"digit"}) @@ ("1a" :> {"lower"})

MCValueOf ==
  ("0" :> 0) @@ ("1" :> 1) @@ ("2" :> 2) @@ ("3" :> 3) @@ ("01" :> 1) @@ ("4" :> 4)

MCDecimal == (0 :> "0") @@ (1 :> "1") @@ (2 :> "2") @@ (3 :> "3")

Path == << "elci", ".", "uni_2", ".", "snap", "/" >>
Version(major) == << major, ".", "2", ".", "0" >>

MCTexts ==
  { Path \o Version("1"), Path \o Version("01") \o << "+", "0" >>,
    Path \o Version("1") \o << "+", "+", "2" >>, Path \o Version("1") \o << "+", "4" >>,
    Path \o << "1", ".", "2" >>, Path \o Version("1") \o << ".", "0" >>, Path,
    Path \o Version("1") \o << "/", "0" >>, << "snap", "/" >> \o Version("1"),
    << ".", "snap", "/" >> \o Version("1"), << "elci", ".", "Uni", "/" >> \o Version("1"), << >> }

PartOf(namespace, name) ==
  [namespace |-> namespace, name |-> name, version |-> << 1, 2, 0 >>, revision |-> 0]

MCParts ==
  { PartOf(<< "elci", ".", "uni_2" >>, << "snap" >>), PartOf(<< "elci" >>, << "uni_2" >>),
    PartOf(<< "elci" >>, << "uni_2", ".", "snap" >>), PartOf(<< >>, << "snap" >>),
    PartOf(<< "elci", "." >>, << "snap" >>), PartOf(<< "elci" >>, << "sNap" >>),
    PartOf(<< "elci" >>, << "a-b" >>), PartOf(<< "_x" >>, << "snap" >>),
    PartOf(<< "1a" >>, << "snap" >>), PartOf(<< "Uni" >>, << "snap" >>) }

-----------------------------------------------------------------------------
IntegerType == << [of |-> "integer"] >>
MapFrom(key) == << [of |-> "map", key |-> key], [of |-> "integer"] >>

FieldOf(name, ty, required, constraints, description) ==
  [ name |-> name, ty |-> ty, required |-> required, constraints |-> constraints,
    description |-> description ]

A(constraints) == FieldOf(<< "a" >>, IntegerType, TRUE, constraints, "plain")
B == FieldOf(<< "b" >>, IntegerType, FALSE, << >>, "plain")

RangeOf(low, high) == [kind |-> "range", minimum |-> low, maximum |-> high]
Custom(name, description) == [kind |-> "custom", name |-> name, description |-> description]

MCFieldLists ==
  { << A(<< >>), B >>, << B, A(<< >>) >>, << A(<< >>), A(<< >>) >>,
    << A(<< RangeOf(Num(0), None) >>) >>, << A(<< RangeOf(None, Num(0)) >>) >>,
    << A(<< RangeOf(NaN, None) >>) >>,
    << [A(<< RangeOf(NaN, None) >>) EXCEPT !.description = "other"] >>,
    << A(<< Custom(<< "x" >>, << "y", "z" >>) >>) >>,
    << A(<< Custom(<< "x", "y" >>, << "z" >>) >>) >>,
    << [A(<< >>) EXCEPT !.ty = MapFrom("string")] >>,
    << [A(<< >>) EXCEPT !.ty = MapFrom("integer"), !.required = FALSE] >>,
    << [A(<< >>) EXCEPT !.ty = MapFrom("integer")] >> }
=============================================================================
