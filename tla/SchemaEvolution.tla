--------------------------- MODULE SchemaEvolution ---------------------------
(***************************************************************************)
(* What analyze() is for: a team publishes one version of a schema after   *)
(* another, each time only if the report calls the change compatible, and  *)
(* keeps reading documents written under an older version.  The team is    *)
(* external; the verdicts and the readings are the code's.                 *)
(***************************************************************************)
EXTENDS Findings

CONSTANTS
  Schemas,      \* the versions that may be proposed
  Documents     \* the documents that may be stored

-----------------------------------------------------------------------------
(* The shapes of schemas and documents. *)

Numbers == [is : {"number"}, n : Int]

(* i64, as far as AsFloat speaks of it; f64 but for NaN, infinities included. *)
IsInteger(x) == x \in Numbers /\ x.n \in -(2 * Precision)..(2 * Precision)
IsFloat(x)   == x \in Numbers /\ x.n \in -Infinity..Infinity /\ AsFloat(x) = x

IsASequence(s) == Len(s) \in Nat /\ DOMAIN s = 1..Len(s)

(* Constraint *)
WellFormedConstraint(c) ==
  /\ c.kind \in {"range", "length", "nonempty", "pattern", "custom"}
  /\ c.kind = "range" => \A side \in Sides : c[side] \in {NaN, None} \/ IsFloat(c[side])
  /\ c.kind = "length" =>
       \A side \in Sides : c[side] \in { Num(n) : n \in 0..(2 * Precision) } \cup {None}

(* ValueType: all but the last constructor have an element type. *)
WellFormedType(ty) ==
  /\ IsASequence(ty) /\ Len(ty) > 0
  /\ \A k \in DOMAIN ty : ty[k].of \in {"list", "map"} <=> k < Len(ty)

WellFormedField(f) ==
  /\ WellFormedType(f.ty) /\ IsASequence(f.constraints)
  /\ f.required \in BOOLEAN
  /\ \A c \in Range(f.constraints) : WellFormedConstraint(c)

WellFormedSchema(fields) == IsSchema(fields) /\ \A f \in Range(fields) : WellFormedField(f)

(* Nothing in memory has 2^53 elements. *)
WellFormedValue(v) ==
  /\ v.kind = "integer" => IsInteger(v.num)
  /\ v.kind = "float" => v.num = NaN \/ IsFloat(v.num)
  /\ v.kind \in Sized => Size(v) \in 0..(Precision - 1)
  /\ v.kind = "map" => IsASequence(v.entries)

WellFormedDocument(doc) ==
  doc.kind = "map" =>
    /\ IsASequence(doc.entries)
    /\ \A i \in DOMAIN doc.entries : WellFormedValue(doc.entries[i].value)

(* No bound of a range is NaN. *)
NaNFreeField(f) ==
  \A c \in Range(f.constraints), side \in Sides : c.kind = "range" => c[side] # NaN

NaNFree(fields) == \A f \in Range(fields) : NaNFreeField(f)

ASSUME SchemasAssumption   == \A s \in Schemas : WellFormedSchema(s)
(* Documents are well-formed as deep as some schema looks into them. *)
ASSUME DocumentsAssumption ==
  \A doc \in Documents :
    /\ WellFormedDocument(doc)
    /\ \A s \in Schemas : \A f \in Range(s) :
         \A v \in Nested(doc, Len(f.ty)) : WellFormedValue(v)

-----------------------------------------------------------------------------

VARIABLES
  origin,       \* the version the oldest stored documents were written under
  current,      \* the version in force
  verdict       \* level of the last report, or "none"

evolutionVars == << origin, current, verdict >>

Init ==
  /\ current \in Schemas
  /\ origin = current
  /\ verdict = "none"

Publish(after) ==
  /\ IsCompatible(Level(current, after))
  /\ current' = after
  /\ verdict' = Level(current, after)
  /\ UNCHANGED origin

Withhold(after) ==
  /\ ~IsCompatible(Level(current, after))
  /\ verdict' = Level(current, after)
  /\ UNCHANGED << origin, current >>

(* Every stored document is rewritten under the version in force. *)
Rewrite ==
  /\ origin # current
  /\ origin' = current
  /\ UNCHANGED << current, verdict >>

Next ==
  \/ \E after \in Schemas : Publish(after) \/ Withhold(after)
  \/ Rewrite

Spec == Init /\ [][Next]_evolutionVars

-----------------------------------------------------------------------------
(* Properties. *)

(* A document with no key but the fields of its schema. *)
Tidy(fields, doc) ==
  doc.kind = "map" => \A i \in DOMAIN doc.entries : doc.entries[i].key \in Names(fields)

(* However many compatible versions lie in between, a document valid under *)
(* the version it was written for is valid under the one in force          *)
(* (compatibility.rs:14-16, ARCHITECTURE.md 12): compatible steps add up.  *)
StoredStaysReadable ==
  \A doc \in Documents :
    Tidy(origin, doc) /\ Validate(origin, doc) = "valid" => Validate(current, doc) = "valid"

(* The same of every document that satisfies the older version, as         *)
(* compatibility.rs:14-16 has it.                                          *)
EveryValidDocumentStaysReadable ==
  \A doc \in Documents :
    Validate(origin, doc) = "valid" => Validate(current, doc) = "valid"

(* No chain of compatible changes hides a breaking one: analyze() over the *)
(* whole chain agrees.  Classification entry by entry, from rendered text, *)
(* must behave like an order on schemas.                                   *)
CompatibilityIsTransitive == IsCompatible(Level(origin, current))

(* What one field makes of a document. *)
FieldOutcome(fields, name, doc) ==
  IF name \in Names(fields) THEN Validate(<< Field(fields, name) >>, doc) ELSE "valid"

Maps == { doc \in Documents : doc.kind = "map" }

(* Nothing that validate() would notice escapes the reader of the two      *)
(* printed texts (diff.rs:34-36, compatibility.rs:72-74): a field that     *)
(* judges some document differently is listed in a section of the diff,    *)
(* and one that turns down a document is explained in full, with an action *)
(* required, in the report.  Stated of every pair: each schema is some     *)
(* team's first, before any verdict.                                       *)
EveryEffectIsShown ==
  verdict = "none" =>
    \A after \in Schemas : \A name \in Names(current) \cup Names(after) :
      LET was(doc) == FieldOutcome(current, name, doc)
          is(doc)  == FieldOutcome(after, name, doc)
      IN  /\ (\E doc \in Maps : was(doc) # is(doc)) =>
               \E section \in {"ADDED", "REMOVED", "CHANGED"} :
                 \E path \in PrintedDiff(current, after)[section] : path[1] = name
          /\ (\E doc \in Maps : Tidy(current, doc) /\ was(doc) = "valid" /\ is(doc) # "valid") =>
               \E finding \in PrintedInFull(current, after) :
                 finding.path[1] = name /\ finding.action

(* A value that is no timestamp and no empty collection, nor holds one as  *)
(* deep as a type looks into it.                                           *)
Solid(v, ty) ==
  \A w \in Nested(v, Len(ty)) :
    IF w.kind = "string" THEN w.form # "timestamp"
                         ELSE w.kind \in {"list", "map"} => Children(w) # {}

(* What an impact text says of a field's outcomes before and after. *)
BorneOut(impact, was, is, name, doc) ==
  LET given == Has(doc, name)
      v     == Get(doc, name)
  IN  CASE impact = "fails without the field" -> ~given => is = "invalid"
        [] impact \in {"stays valid", "only widens"} ->
             Tidy(current, doc) /\ was = "valid" => is = "valid"
        [] impact \in {"no outcome changes", "cosmetic"} -> is = was
        [] impact = "field silently lost" -> is = "valid"
        [] impact = "old type rejected" ->
             given /\ was = "valid" /\ Solid(v, Field(current, name).ty) => is = "invalid"
        [] impact = "other text rejected" ->
             given /\ v.kind = "string" /\ v.form # "identifier" => is # "valid"
        [] impact = "validation fails" -> given /\ v.kind = "string" => is = "unavailable"
        [] impact = "empty values rejected" ->
             given /\ v.kind \in Sized /\ Size(v) = 0 => is # "valid"
        [] impact = "values may be rejected" -> TRUE

(* compatibility.rs:11-16: a finding's impact is about documents nobody    *)
(* has tried.  Where it is the only finding about a field, validate()      *)
(* treats every document as its text foretells; a changed type is held to  *)
(* that for values that are neither timestamps nor empty, and a grammar    *)
(* that is not known for text.                                             *)
ImpactIsBorneOut ==
  verdict = "none" =>
    \A after \in Schemas : \A finding \in FindingsOf(current, after) :
      LET name == finding.path[1]
          only == \A other \in FindingsOf(current, after) : other.path[1] = name => other = finding
      IN  only => \A doc \in Maps :
            BorneOut(finding.impact, FieldOutcome(current, name, doc),
                     FieldOutcome(after, name, doc), name, doc)

(* The value at a path, as Document::get would find it. *)
ValueAt(doc, path) ==
  LET step(v, at) == IF "index" \in DOMAIN at THEN v.items[at.index] ELSE Get(v, at.key)
      reached[k \in 0..Len(path)] == IF k = 0 THEN doc ELSE step(reached[k - 1], path[k])
  IN  reached[Len(path)]

(* No map that the path goes through holds a key twice: a path cannot tell *)
(* the two entries apart.  Of the top, it is Document::get that is asked.  *)
KeysAreUnique(v) ==
  v.kind = "map" =>
    \A i, j \in DOMAIN v.entries : v.entries[i].key = v.entries[j].key => i = j

PathIsUnique(doc, path) ==
  \A k \in 1..Len(path) - 1 : KeysAreUnique(ValueAt(doc, SubSeq(path, 1, k)))

(* result.rs:9-10: an issue is located by its path.  Following the path    *)
(* leads to the very value at fault, at the depth of the type that rejects *)
(* it, to the value a constraint is unsatisfied by, or to the field that   *)
(* is missing.                                                             *)
IssuesLocateFaults ==
  \A doc \in Maps : \A issue \in Issues(current, doc) :
    PathIsUnique(doc, issue.path) =>
      LET path == issue.path
          f    == Field(current, path[1].key)
      IN  CASE issue.code = "missing" -> Len(path) = 1 /\ ~Has(doc, f.name)
            [] issue.code = "type" -> ~KindFits(f.ty[Len(path)].of, ValueAt(doc, path))
            [] OTHER -> \E c \in Range(f.constraints) :
                          c.kind = issue.code /\ ~Satisfied(c, ValueAt(doc, path))

(* diff.rs:54-59: the effective envelope that diff compares accepts what   *)
(* validate accepts, which checks every constraint of the field in turn.   *)
EnvelopeIsConjunction ==
  \A f \in Range(current), kind \in {"range", "length"}, doc \in Documents :
    doc.kind = "map" /\ Has(doc, f.name) =>
      LET v == Get(doc, f.name)
      IN  Satisfied(Envelope(f.constraints, kind), v)
            <=> \A c \in Range(f.constraints) : c.kind = kind => Satisfied(c, v)

(* ARCHITECTURE.md 15, item 6: diff(S, S) is always empty and              *)
(* analyze(S, S).level is Identical, for any schema S.                     *)
DiffIsReflexive == Level(current, current) = "Identical"

(* compatibility.rs:213-215: the finding of a moved bound shows the        *)
(* envelope that moved, so what it shows as previous and new differs.      *)
MovedBoundIsShown ==
  \A after \in Schemas : \A entry \in Diff(current, after) :
    entry.kind = "ConstraintChanged" =>
      LET shown == ShownEnvelope(current, after, entry.field)
      IN  shown.previous # shown.new
=============================================================================
