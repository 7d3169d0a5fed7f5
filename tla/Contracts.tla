----------------------------- MODULE Contracts -----------------------------
(***************************************************************************)
(* The identities of obserde and their texts: Contract, SchemaVersion,     *)
(* SchemaId and SemanticId, with the three copies of the dotted grammar.   *)
(*                                                                         *)
(* A text is a sequence of words and of the three separators, no two words *)
(* adjacent.  A word is known by the class of its first character, the     *)
(* classes of the others and, if it has only digits, its value.            *)
(***************************************************************************)
EXTENDS Integers, Sequences, FiniteSets, FiniteSetsExt

CONSTANTS
  First,     \* word -> class of its first character
  Rest,      \* word -> classes of the characters after the first
  ValueOf,   \* words of digits only -> number
  Decimal,   \* number -> the word that Display of u32 writes
  MaxU32

Words      == DOMAIN First
Separators == {".", "/", "+"}
Classes    == {"lower", "upper", "digit", "underscore", "other"}

ASSUME WordsAssumption ==
  /\ First \in [Words -> Classes] /\ Rest \in [Words -> SUBSET Classes]
  /\ Words \cap Separators = {}
ASSUME DigitsAssumption ==
  /\ DOMAIN ValueOf = { w \in Words : First[w] = "digit" /\ Rest[w] \subseteq {"digit"} }
  /\ ValueOf \in [DOMAIN ValueOf -> Nat]
  /\ MaxU32 \in Nat /\ Decimal \in [0..MaxU32 -> DOMAIN ValueOf]
  /\ \A n \in 0..MaxU32 : ValueOf[Decimal[n]] = n

-----------------------------------------------------------------------------
(* split, split_once and rsplit_once. *)

Cuts(text, separator) == { i \in DOMAIN text : text[i] = separator }

UpTo(text, cut)   == SubSeq(text, 1, cut - 1)
Beyond(text, cut) == SubSeq(text, cut + 1, Len(text))

Pieces(text, separator) ==
  LET ends == {0, Len(text) + 1} \cup Cuts(text, separator)
  IN  { SubSeq(text, p[1] + 1, p[2] - 1) :
          p \in { q \in ends \X ends : q[1] < q[2] /\ \A k \in ends : k <= q[1] \/ q[2] <= k } }

(* parse::<u32>: a sign is allowed, leading zeros are, no more than u32. *)
IsU32(text) ==
  \E w \in DOMAIN ValueOf : text \in {<< w >>, << "+", w >>} /\ ValueOf[w] <= MaxU32

U32(text) == ValueOf[text[Len(text)]]

-----------------------------------------------------------------------------
(* Three copies of one grammar. *)

(* obserde_core, validate_segment *)
IsSegment(piece) ==
  /\ Len(piece) = 1 /\ piece[1] \in Words
  /\ First[piece[1]] = "lower"
  /\ Rest[piece[1]] \subseteq {"lower", "digit", "underscore"}

(* Faulty: the copy in obserde_validate without the underscore. *)
IsPlainIdentifier(text) ==
  text # << >> /\ \A piece \in Pieces(text, ".") :
    Len(piece) = 1 /\ piece[1] \in Words
      /\ First[piece[1]] = "lower" /\ Rest[piece[1]] \subseteq {"lower", "digit"}

(* obserde_validate, is_identifier *)
IsIdentifier(text) ==
  text # << >> /\ \A piece \in Pieces(text, ".") :
    Len(piece) = 1 /\ piece[1] \in Words
      /\ First[piece[1]] = "lower" /\ Rest[piece[1]] \subseteq {"lower", "digit", "underscore"}

(* obserde_padagonia, SemanticId::parse *)
IsSemanticId(text) ==
  \A piece \in Pieces(text, ".") :
    Len(piece) = 1 /\ piece[1] \in Words
      /\ First[piece[1]] \in {"lower", "upper"}
      /\ Rest[piece[1]] \subseteq {"lower", "upper", "digit", "underscore"}

-----------------------------------------------------------------------------
NoContract == [is |-> "none"]

ContractOf(namespace, name, version, revision) ==
  [ is |-> "contract", namespace |-> namespace, name |-> name, version |-> version,
    revision |-> revision ]

(* Contract::new *)
NewContract(namespace, name, version, revision) ==
  IF /\ namespace # << >>
     /\ \A piece \in Pieces(namespace, ".") : IsSegment(piece)
     /\ IsSegment(name)
  THEN ContractOf(namespace, name, version, revision)
  ELSE NoContract

(* SchemaVersion::parse: exactly three numbers. *)
VersionParts(text) ==
  LET cuts == Cuts(text, ".")
  IN  << UpTo(text, Min(cuts)), SubSeq(text, Min(cuts) + 1, Max(cuts) - 1),
         Beyond(text, Max(cuts)) >>

IsVersion(text) ==
  Cardinality(Cuts(text, ".")) = 2 /\ \A k \in 1..3 : IsU32(VersionParts(text)[k])

VersionOf(text) == [ k \in 1..3 |-> U32(VersionParts(text)[k]) ]

(* Faulty: the path is cut at its first dot. *)
PathCutFirst(path) == Min(Cuts(path, "."))

(* rsplit_once('.'): the name is the last segment. *)
PathCut(path) == Max(Cuts(path, "."))

(* Contract::parse: the first slash ends the path, the first plus ends the *)
(* version, and without a plus the revision is 0.                          *)
Parse(text) ==
  LET slashes  == Cuts(text, "/")
      path     == UpTo(text, Min(slashes))
      rest     == Beyond(text, Min(slashes))
      pluses   == Cuts(rest, "+")
      version  == IF pluses = {} THEN rest ELSE UpTo(rest, Min(pluses))
      revision == IF pluses = {} THEN << Decimal[0] >> ELSE Beyond(rest, Min(pluses))
  IN  IF slashes # {} /\ Cuts(path, ".") # {} /\ IsVersion(version) /\ IsU32(revision)
      THEN NewContract(UpTo(path, PathCut(path)), Beyond(path, PathCut(path)),
                       VersionOf(version), U32(revision))
      ELSE NoContract

-----------------------------------------------------------------------------
(* Display *)

ShownVersion(v) == << Decimal[v[1]], ".", Decimal[v[2]], ".", Decimal[v[3]] >>

ShownContract(c) ==
  c.namespace \o << "." >> \o c.name \o << "/" >> \o ShownVersion(c.version)
    \o << "+", Decimal[c.revision] >>

(* SchemaId::from drops the revision. *)
SchemaIdOf(c) == [namespace |-> c.namespace, name |-> c.name, version |-> c.version]

ShownSchemaId(id) ==
  id.namespace \o << "." >> \o id.name \o << "/" >> \o ShownVersion(id.version)
=============================================================================
