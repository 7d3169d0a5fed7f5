------------------------------ MODULE Hashing ------------------------------
(***************************************************************************)
(* schema_hash: what is fed to SHA-256, number by number.  How wide a      *)
(* number is follows from the ones before it, so two streams of bytes are  *)
(* the same if and only if the two sequences are; that SHA-256 tells two   *)
(* streams apart is assumed.  A text is fed with its length in front.      *)
(***************************************************************************)
EXTENDS Contracts, Compatibility, SequencesExt

Tag(what) == [tag |-> what]
Count(n)  == [count |-> n]
Bits(b)   == [bits |-> b]
Flag(b)   == [flag |-> b]

TextStream(text) == << Count(Len(text)) >> \o [ i \in DOMAIN text |-> [text |-> text[i]] ]

(* Faulty: an absent bound leaves no trace. *)
UntaggedBound(bound) == IF bound = None THEN << >> ELSE << Bits(bound) >>

BoundStream(bound) ==
  IF bound = None THEN << Tag("none") >> ELSE << Tag("some"), Bits(bound) >>

(* The key type of a map is fed before its value type; key types here are  *)
(* primitive ones, one tag each.                                           *)
TypeStream(ty) ==
  FlattenSeq([ k \in DOMAIN ty |->
    IF ty[k].of = "map" THEN << Tag("map"), Tag(ty[k].key) >> ELSE << Tag(ty[k].of) >> ])

ConstraintStream(c) ==
  << Tag(c.kind) >> \o
    CASE c.kind \in {"range", "length"} -> BoundStream(c.minimum) \o BoundStream(c.maximum)
      [] c.kind = "pattern"  -> TextStream(c.grammar)
      [] c.kind = "custom"   -> TextStream(c.name) \o TextStream(c.description)
      [] c.kind = "nonempty" -> << >>

(* Faulty: whether the field is required is not fed. *)
FieldStreamOptional(f) ==
  TextStream(f.name) \o TypeStream(f.ty)
    \o << Count(Len(f.constraints)) >>
    \o FlattenSeq([ k \in DOMAIN f.constraints |-> ConstraintStream(f.constraints[k]) ])

(* The description is not part of the structure. *)
FieldStream(f) ==
  TextStream(f.name) \o TypeStream(f.ty) \o << Flag(f.required) >>
    \o << Count(Len(f.constraints)) >>
    \o FlattenSeq([ k \in DOMAIN f.constraints |-> ConstraintStream(f.constraints[k]) ])

SchemaHash(contract, fields) ==
  TextStream(ShownContract(contract)) \o << Count(Len(fields)) >>
    \o FlattenSeq([ k \in DOMAIN fields |-> FieldStream(fields[k]) ])
=============================================================================
