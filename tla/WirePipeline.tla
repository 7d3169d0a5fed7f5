---------------------------- MODULE WirePipeline ----------------------------
(***************************************************************************)
(* obserde_canonical and obserde_json: a document is canonicalized,        *)
(* encoded, decoded under limits by whoever receives it, and passed on.    *)
(* JSON text is the value it parses to; how long the text is, is left      *)
(* open.  Nothing here but the four functions is the code's: the holders   *)
(* are external, in the order of obserde-json/tests/pipeline.rs.           *)
(***************************************************************************)
EXTENDS Validation, SequencesExt

CONSTANTS
  Schemas,          \* field lists
  Documents,        \* what the first holder may hold
  Lexicographic,    \* every key, in the order of str
  MaxDepth,         \* DecodeLimits
  MaxStringLen,
  MaxCollectionLen,
  Nesting,          \* bound on how deep lists and maps nest in a document
  MaxHops           \* bound on how often a document is passed on

VARIABLES
  schema,           \* the schema all holders use
  original,         \* the document of the first holder
  stage,            \* "held", "wire", "unencodable" or "refused"
  held,             \* the document of the present holder
  wire,             \* the JSON value on its way
  first,            \* the document as it first arrived
  hops              \* arrivals so far

vars == << schema, original, stage, held, wire, first, hops >>

Nothing == [kind |-> "nothing"]

(* -0.0 is equal to 0.0, and another bit pattern. *)
Zero    == Num(0)
NegZero == [is |-> "number", n |-> 0, negative |-> TRUE]
Infinite == [is |-> "infinite"]

-----------------------------------------------------------------------------
(* Documents and JSON values are trees: lists and maps around scalars.     *)

Keys == Range(Lexicographic)

Whole == [is : {"number"}, n : Int]
Float == Whole \cup {NegZero}
Forms == {"identifier", "timestamp", "other"}

PlainScalars ==
  {[kind |-> "null"]} \cup [kind : {"bool"}, value : BOOLEAN]
    \cup [kind : {"string"}, len : Nat, form : Forms]

DocumentScalars ==
  PlainScalars \cup [kind : {"integer"}, num : Whole]
    \cup [kind : {"float"}, num : Float \cup {NaN, Infinite}]
    \cup [kind : {"bytes"}, len : Nat]

JsonScalars ==
  PlainScalars \cup [kind : {"number"}, num : Whole, point : {FALSE}]
    \cup [kind : {"number"}, num : Float, point : {TRUE}]

(* The trees, by how deep they nest. *)
Trees(scalars) ==
  LET upTo[depth \in 0..Nesting] ==
        IF depth = 0 THEN scalars
        ELSE upTo[depth - 1]
               \cup [kind : {"list"}, items : Seq(upTo[depth - 1])]
               \cup [kind : {"map"}, entries : Seq([key : Keys, value : upTo[depth - 1]])]
  IN  upTo

DocumentTrees == Trees(DocumentScalars)
JsonTrees     == Trees(JsonScalars)

(* What step makes of each tree, given what it makes of those inside. *)
Folded(trees, step(_, _)) ==
  LET upTo[depth \in 0..Nesting] == [ v \in trees[depth] |-> step(v, upTo[depth - 1]) ]
  IN  upTo[Nesting]

(* A list or a map with its elements converted. *)
Converted(v, convert) ==
  CASE v.kind = "list" -> [kind |-> "list", items |-> [ i \in DOMAIN v.items |-> convert[v.items[i]] ]]
    [] v.kind = "map"  ->
         [kind |-> "map", entries |-> [ i \in DOMAIN v.entries |->
            [key |-> v.entries[i].key, value |-> convert[v.entries[i].value]] ]]
    [] OTHER -> v

ASSUME BoundsAssumption ==
  {Nesting, MaxDepth, MaxStringLen, MaxCollectionLen, MaxHops} \subseteq Nat
ASSUME KeysAssumption == IsSequence(Lexicographic)
ASSUME DocumentsAssumption == Documents \subseteq DocumentTrees[Nesting]
ASSUME SchemasAssumption ==
  \A fields \in Schemas :
    /\ IsSequence(fields)
    /\ \A f \in Range(fields) :
         /\ IsSequence(f.ty)
         /\ \A c \in Range(f.constraints) :
              c.kind \in {"range", "length", "pattern", "nonempty", "custom"}

-----------------------------------------------------------------------------
(* canonicalize() *)

Position(order, key) == CHOOSE i \in DOMAIN order : order[i] = key

(* Faulty: undeclared keys left where they were. *)
DeclaredFirst(order, a, b) ==
  a \in Range(order) /\ (b \in Range(order) => Position(order, a) < Position(order, b))

(* compare_keys: declared keys by declaration, then the others by name. *)
Precedes(order, a, b) ==
  IF a \in Range(order)
  THEN b \in Range(order) => Position(order, a) < Position(order, b)
  ELSE b \notin Range(order) /\ Position(Lexicographic, a) < Position(Lexicographic, b)

(* Faulty: keys that compare equal change places. *)
UnstablyBefore(order, entries, i, j) ==
  \/ Precedes(order, entries[i].key, entries[j].key)
  \/ i > j /\ ~Precedes(order, entries[j].key, entries[i].key)

(* sort_by is stable. *)
Before(order, entries, i, j) ==
  \/ Precedes(order, entries[i].key, entries[j].key)
  \/ i < j /\ ~Precedes(order, entries[j].key, entries[i].key)

Sorted(order, entries) ==
  LET rank(i) == Cardinality({ j \in DOMAIN entries : Before(order, entries, j, i) }) + 1
  IN  [ k \in DOMAIN entries |-> entries[CHOOSE i \in DOMAIN entries : rank(i) = k] ]

Normalized(num) == IF num = NegZero THEN Zero ELSE num

Arranged(order, v) ==
  CASE v.kind = "map"   -> [v EXCEPT !.entries = Sorted(order, @)]
    [] v.kind = "float" -> [v EXCEPT !.num = Normalized(@)]
    [] OTHER -> v

CanonicalNode(v, inner) == Arranged(<< >>, Converted(v, inner))

(* Only the top-level map knows the schema's order. *)
Canonical(fields, doc) ==
  Arranged([ i \in DOMAIN fields |-> fields[i].name ],
           Converted(doc, Folded(DocumentTrees, CanonicalNode)))

(* document_hash: what is fed to SHA-256, number by number; how wide a     *)
(* number is follows from the ones before it.  A text or bytes, with the   *)
(* length in front, is one of them here.                                   *)

(* Faulty: only the elements of a collection are fed. *)
Uncounted(elements) == << >>

Counted(elements) == << [count |-> Len(elements)] >>

HashStream(v, inner) ==
  << [tag |-> v.kind] >> \o
    CASE v.kind = "bool" -> << [flag |-> v.value] >>
      [] v.kind \in {"integer", "float"} -> << [bits |-> v.num] >>
      [] v.kind = "string" -> << [text |-> << v.len, v.form >>] >>
      [] v.kind = "bytes"  -> << [bytes |-> v.len] >>
      [] v.kind = "list"   ->
           Counted(v.items) \o FlattenSeq([ i \in DOMAIN v.items |-> inner[v.items[i]] ])
      [] v.kind = "map"    ->
           Counted(v.entries) \o FlattenSeq([ i \in DOMAIN v.entries |->
             << [key |-> v.entries[i].key] >> \o inner[v.entries[i].value] ])
      [] OTHER -> << >>

Hash(doc) == Folded(DocumentTrees, HashStream)[doc]

-----------------------------------------------------------------------------
(* encode() *)

(* Faulty: serde_json's own treatment, null for what JSON cannot spell. *)
NothingRefused(doc) == TRUE

Encodable(doc) ==
  \A v \in Nested(doc, Nesting) : v.kind = "float" => v.num.is = "number"

(* serde_json::Map under preserve_order: an entry met again replaces the   *)
(* value and keeps the place.                                              *)
Collapsed(entries) ==
  LET firstOf(key) == CHOOSE i \in DOMAIN entries :
                        /\ entries[i].key = key
                        /\ \A j \in DOMAIN entries : entries[j].key = key => i <= j
      lastOf(key)  == CHOOSE i \in DOMAIN entries :
                        /\ entries[i].key = key
                        /\ \A j \in DOMAIN entries : entries[j].key = key => j <= i
      kept    == { i \in DOMAIN entries : firstOf(entries[i].key) = i }
      rank(i) == Cardinality({ j \in kept : j <= i })
  IN  [ k \in 1..Cardinality(kept) |->
          entries[lastOf(entries[CHOOSE i \in kept : rank(i) = k].key)] ]

Base64Len(n) == 4 * ((n + 2) \div 3)

(* Faulty: a whole float printed like an integer. *)
WholeWithoutPoint(v) == [kind |-> "number", num |-> v.num, point |-> FALSE]

(* A float is always printed with a point; NaN and infinities are null     *)
(* where they are not refused.                                             *)
EncodedNumber(v) ==
  IF v.num.is = "number" THEN [kind |-> "number", num |-> v.num, point |-> v.kind = "float"]
                         ELSE [kind |-> "null"]

EncodedNode(v, inner) ==
  CASE v.kind \in {"integer", "float"} -> EncodedNumber(v)
    [] v.kind = "bytes" -> [kind |-> "string", len |-> Base64Len(v.len), form |-> "other"]
    [] v.kind = "map"   -> [Converted(v, inner) EXCEPT !.entries = Collapsed(@)]
    [] OTHER -> Converted(v, inner)

Encoded(doc) == Folded(DocumentTrees, EncodedNode)[doc]

-----------------------------------------------------------------------------
(* decode_with_limits() *)

TooDeep(depth) == depth > MaxDepth

(* String values, not keys; entries, not what they hold. *)
TooLarge(v) ==
  \/ v.kind = "string" /\ v.len > MaxStringLen
  \/ v.kind \in {"list", "map"} /\ Size(v) > MaxCollectionLen

WithinLimits(json) ==
  \A depth \in 0..Nesting : \A v \in AtDepth(json, depth) : ~TooDeep(depth) /\ ~TooLarge(v)

(* A number with a point is a float. *)
DecodedNumber(json) ==
  [kind |-> IF json.point THEN "float" ELSE "integer", num |-> json.num]

(* Faulty: text of the length of base64 is read as the bytes of the text. *)
TextAsBytes(json) ==
  CASE json.kind = "number" -> DecodedNumber(json)
    [] json.kind = "string" /\ json.len % 4 = 0 -> [kind |-> "bytes", len |-> json.len]
    [] OTHER -> json

(* Faulty: null is read as the NaN that serde_json would have written so. *)
NullAsNaN(json) ==
  CASE json.kind = "number" -> DecodedNumber(json)
    [] json.kind = "null"   -> [kind |-> "float", num |-> NaN]
    [] OTHER -> json

DecodedScalar(json) == IF json.kind = "number" THEN DecodedNumber(json) ELSE json

DecodedNode(json, inner) == Converted(DecodedScalar(json), inner)

Decoded(json) == Folded(JsonTrees, DecodedNode)[json]

-----------------------------------------------------------------------------
Init ==
  /\ schema \in Schemas
  /\ original \in Documents
  /\ stage = "held" /\ held = original
  /\ wire = Nothing /\ first = Nothing /\ hops = 0

Send ==
  /\ stage = "held" /\ hops < MaxHops
  /\ Encodable(Canonical(schema, held))
  /\ wire' = Encoded(Canonical(schema, held))
  /\ stage' = "wire"
  /\ UNCHANGED << schema, original, held, first, hops >>

SendFails ==
  /\ stage = "held" /\ hops < MaxHops
  /\ ~Encodable(Canonical(schema, held))
  /\ stage' = "unencodable"
  /\ UNCHANGED << schema, original, held, wire, first, hops >>

Receive ==
  /\ stage = "wire"
  /\ WithinLimits(wire)
  /\ held' = Decoded(wire)
  /\ first' = IF hops = 0 THEN held' ELSE first
  /\ hops' = hops + 1
  /\ stage' = "held" /\ wire' = Nothing
  /\ UNCHANGED << schema, original >>

(* Any text may be longer than max_input_bytes allows. *)
ReceiveRefuses ==
  /\ stage = "wire"
  /\ stage' = "refused"
  /\ UNCHANGED << schema, original, held, wire, first, hops >>

Next == Send \/ SendFails \/ Receive \/ ReceiveRefuses

Spec == Init /\ [][Next]_vars

-----------------------------------------------------------------------------
(* Properties. *)

(* Without the two documented exclusions that a Document can meet          *)
(* (decode.rs:23-29): no bytes, no key twice in one map.                   *)
Portable(doc) ==
  \A v \in Nested(doc, Nesting) :
    /\ v.kind # "bytes"
    /\ v.kind = "map" =>
         \A i, j \in DOMAIN v.entries : v.entries[i].key = v.entries[j].key => i = j

(* tests/pipeline.rs: whatever arrives, after any number of holders, has   *)
(* the hash of what was sent; integers, floats and zeros stay apart.       *)
HashSurvives ==
  Portable(original) => Hash(Canonical(schema, held)) = Hash(Canonical(schema, original))

(* What was validated is what arrives: a valid document that reaches a     *)
(* receiver is valid there, one with NaN, which no range rejects, does not *)
(* reach one.                                                              *)
ValidOnArrival ==
  Portable(original) /\ Validate(schema, original) = "valid"
    => Validate(schema, held) = "valid"

(* The exclusions bite once (decode.rs:23-29): bytes and duplicate keys    *)
(* are lost to the first holder's encoding, and passing on what arrived    *)
(* changes nothing but the order of its keys.                              *)
LossIsConfinedToFirstHop ==
  hops > 0 => Canonical(schema, held) = Canonical(schema, first)

(* A document that a receiver accepted is encodable and accepted by the    *)
(* next one under the same limits on its shape.                            *)
AcceptedIsPassedOn ==
  hops > 0 =>
    LET again == Canonical(schema, held)
    IN  Encodable(again) /\ WithinLimits(Encoded(again))

(* hash.rs:9-10: the hash identifies the canonical representation.  No two *)
(* documents that are canonically different, in the nesting of what they   *)
(* hold, in a number's type or sign, in an order that counts, share one.   *)
HashTellsDocumentsApart ==
  \A doc \in Documents :
    LET mine   == Canonical(schema, held)
        theirs == Canonical(schema, doc)
    IN  Hash(mine) = Hash(theirs) => mine = theirs

(* ARCHITECTURE.md 15, items 2 and 4: canonicalizing twice changes no bit, *)
(* and the hash does not depend on the order in which the entries of a map *)
(* were written, whether the schema declares their keys or not.  Documents *)
(* are compared by what is hashed: a NaN is not == to itself, though it is *)
(* left as it was.                                                         *)
CanonicalIsIdempotent ==
  LET canonical == Canonical(schema, held)
  IN  Hash(Canonical(schema, canonical)) = Hash(canonical)

Swapped(doc, i, j) ==
  [doc EXCEPT !.entries[i] = doc.entries[j], !.entries[j] = doc.entries[i]]

OrderDoesNotMatter ==
  Portable(held) /\ held.kind = "map" =>
    \A i, j \in DOMAIN held.entries :
      Hash(Canonical(schema, Swapped(held, i, j))) = Hash(Canonical(schema, held))
=============================================================================
