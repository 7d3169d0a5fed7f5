----------------------------- MODULE Validation -----------------------------
(***************************************************************************)
(* Schemas, documents and obserde_validate::validate, as functions.        *)
(*                                                                         *)
(* A type is the chain of its constructors, outermost first: list and map  *)
(* nest in one position only, as the key type of a map is never looked at. *)
(* A number stands for its place in the order, and above Precision for its *)
(* place among the integers that f64 tells apart; text is its length and   *)
(* the grammar it matches.  An issue is its path and its code.             *)
(***************************************************************************)
EXTENDS Integers, Sequences, FiniteSets, Functions

CONSTANTS
  Precision,   \* 2^53: above it, f64 has only the even integers
  Infinity     \* no finite number in a schema or document reaches it

ASSUME PrecisionAssumption == Precision \in Nat /\ Precision % 4 = 0
ASSUME InfinityAssumption  == Infinity \in Nat /\ Infinity > 2 * Precision

-----------------------------------------------------------------------------
(* f64 and Option<f64>: a number, NaN, or no bound at all. *)

None   == [is |-> "none"]
NaN    == [is |-> "nan"]
Num(n) == [is |-> "number", n |-> n]

(* The < of f64, false on NaN; also false against an absent bound. *)
Less(x, y) == x.is = "number" /\ y.is = "number" /\ x.n < y.n

(* as f64, and parse::<f64>: an integer that f64 does not have goes to the *)
(* neighbour with the even mantissa; no number here exceeds 2 * Precision. *)
AsFloat(x) ==
  IF x.is = "number" /\ x.n \notin -Precision..Precision /\ x.n % 2 = 1
  THEN Num(CHOOSE m \in {x.n - 1, x.n + 1} : m % 4 = 0)
  ELSE x

-----------------------------------------------------------------------------
(* A Vec, or a text. *)
IsSequence(s) == s \in Seq(Range(s))

(* Documents: null, bool, integer, float, string, bytes, list and map.     *)

Sized == {"string", "bytes", "list", "map"}

Size(v) == CASE v.kind = "list" -> Len(v.items)
             [] v.kind = "map"  -> Len(v.entries)
             [] OTHER           -> v.len

(* The elements of a value, each with the path segment that leads to it. *)
Elements(v) ==
  CASE v.kind = "list" -> { [at |-> [index |-> i], value |-> v.items[i]] : i \in DOMAIN v.items }
    [] v.kind = "map"  -> { [at |-> [key |-> e.key], value |-> e.value] : e \in Range(v.entries) }
    [] OTHER           -> {}

Children(v) == { e.value : e \in Elements(v) }

(* The values nested in a value, at one depth and down to a depth. *)
AtDepth(v, depth) ==
  LET level[k \in 0..depth] ==
        IF k = 0 THEN {v} ELSE UNION { Children(w) : w \in level[k - 1] }
  IN  level[depth]

Nested(v, depth) == UNION { AtDepth(v, k) : k \in 0..depth }

Has(doc, key) == \E i \in DOMAIN doc.entries : doc.entries[i].key = key

(* Document::get: a map may hold a key twice, the first entry is found. *)
Get(doc, key) ==
  doc.entries[CHOOSE i \in DOMAIN doc.entries :
                /\ doc.entries[i].key = key
                /\ \A j \in DOMAIN doc.entries : doc.entries[j].key = key => i <= j].value

-----------------------------------------------------------------------------
(* Schemas.  A schema is its Vec<Field>, without a name twice. *)

IsSchema(fields) ==
  \A i, j \in DOMAIN fields : fields[i].name = fields[j].name => i = j

Names(fields)       == { fields[i].name : i \in DOMAIN fields }
Field(fields, name) == CHOOSE f \in Range(fields) : f.name = name

KindFits(constructor, v) ==
  IF constructor = "timestamp" THEN v.kind = "string" /\ v.form = "timestamp"
                               ELSE v.kind = constructor

Issue(path, code) == [path |-> path, code |-> code]

(* Faulty: an element is reported where its collection is. *)
Unextended(path, segment) == path

(* Path::field, Path::index *)
Extended(path, segment) == Append(path, segment)

(* Down the chain, every value is of the kind its depth says; below a      *)
(* value that is not, nothing is looked at.                                *)
ChainIssues(constructors, v, path) ==
  LET fits(k, node) == KindFits(constructors[k], node.value)
      level[k \in DOMAIN constructors] ==
        IF k = 1 THEN {[path |-> path, value |-> v]}
        ELSE UNION { { [path |-> Extended(node.path, e.at), value |-> e.value] :
                         e \in Elements(node.value) } :
                     node \in { m \in level[k - 1] : fits(k - 1, m) } }
  IN  UNION { { Issue(node.path, "type") : node \in { m \in level[k] : ~fits(k, m) } } :
              k \in DOMAIN constructors }

(* validate_type *)
TypeIssues(ty, v, path) == ChainIssues([ k \in DOMAIN ty |-> ty[k].of ], v, path)

(* A grammar the validator does not know, met on a string: validate fails. *)
Unevaluable(c, v) ==
  c.kind = "pattern" /\ v.kind = "string" /\ c.grammar # "identifier"

(* validate_constraint; a constraint on another kind of value is no issue. *)
Satisfied(c, v) ==
  CASE c.kind = "range" ->
         v.kind \in {"integer", "float"} =>
           LET n == IF v.kind = "integer" THEN AsFloat(v.num) ELSE v.num
           IN  ~Less(n, c.minimum) /\ ~Less(c.maximum, n)
    [] c.kind = "length" ->
         v.kind \in Sized => ~Less(Num(Size(v)), c.minimum) /\ ~Less(c.maximum, Num(Size(v)))
    [] c.kind = "pattern" -> v.kind = "string" => v.form = "identifier"
    [] c.kind = "nonempty" -> v.kind \in Sized => Size(v) > 0
    [] c.kind = "custom" -> TRUE

(* validate_field, or the missing field where there is no value. *)
FieldIssues(f, doc) ==
  LET path == << [key |-> f.name] >>
      v    == Get(doc, f.name)
  IN  CASE Has(doc, f.name) ->
             TypeIssues(f.ty, v, path)
               \cup { Issue(path, c.kind) : c \in { d \in Range(f.constraints) : ~Satisfied(d, v) } }
        [] ~Has(doc, f.name) /\ f.required -> {Issue(path, "missing")}
        [] OTHER -> {}

Issues(fields, doc) ==
  IF doc.kind = "map" THEN UNION { FieldIssues(f, doc) : f \in Range(fields) }
                      ELSE {Issue(<< >>, "not a map")}

(* The first pattern that cannot be evaluated, in any field present, is    *)
(* returned as an error, whatever issues there are; every issue is an      *)
(* error of the result.                                                    *)
Validate(fields, doc) ==
  CASE /\ doc.kind = "map"
       /\ \E f \in Range(fields) : Has(doc, f.name) /\
            \E c \in Range(f.constraints) : Unevaluable(c, Get(doc, f.name)) -> "unavailable"
    [] OTHER -> IF Issues(fields, doc) = {} THEN "valid" ELSE "invalid"
=============================================================================
