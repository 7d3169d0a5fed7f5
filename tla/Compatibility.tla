---------------------------- MODULE Compatibility ----------------------------
(***************************************************************************)
(* obserde_compat: diff() lists what changed between two schemas, analyze()*)
(* classifies every entry and aggregates.  An entry carries the values its *)
(* text is rendered from; classification reads them back from that text.   *)
(***************************************************************************)
EXTENDS Validation

-----------------------------------------------------------------------------
(* Effective envelopes: constraints of one kind folded into one.           *)

Sides == {"minimum", "maximum"}

Bounds(constraints, kind, side) ==
  { c[side] : c \in { d \in Range(constraints) : d.kind = kind } } \ {None}

(* Faulty: the first constraint of the kind stands for all. *)
FirstBound(constraints, kind, side) ==
  LET found == { i \in DOMAIN constraints : constraints[i].kind = kind }
      first == CHOOSE i \in found : \A j \in found : i <= j
  IN  IF found = {} THEN None ELSE constraints[first][side]

(* The tightest bound present.  f64::max and f64::min prefer a number to a *)
(* NaN.                                                                    *)
EffectiveBound(constraints, kind, side) ==
  LET bounds  == Bounds(constraints, kind, side)
      numbers == bounds \ {NaN}
      tightest(b) == \A o \in numbers : IF side = "minimum" THEN ~Less(b, o) ELSE ~Less(o, b)
  IN  CASE numbers # {} -> CHOOSE b \in numbers : tightest(b)
        [] numbers = {} /\ bounds # {} -> NaN
        [] bounds = {} -> None

HasKind(constraints, kind) == \E c \in Range(constraints) : c.kind = kind

Envelope(constraints, kind) ==
  [ kind    |-> kind,
    minimum |-> EffectiveBound(constraints, kind, "minimum"),
    maximum |-> EffectiveBound(constraints, kind, "maximum") ]

-----------------------------------------------------------------------------
(* diff(), as a set of entries. *)

TypesEqualIgnoringMapKeys(a, b) ==
  Len(a) = Len(b) /\ \A k \in DOMAIN a : a[k].of = b[k].of

(* Some(NaN) differs from itself. *)
SameBound(x, y) == x = y /\ x # NaN

Moved(name, b, a) ==
  { [ kind |-> "ConstraintChanged", field |-> name, side |-> side,
      before |-> b[side], after |-> a[side] ] :
    side \in { x \in Sides : ~SameBound(b[x], a[x]) } }

Added(name, constraint) ==
  [kind |-> "ConstraintAdded", field |-> name, constraint |-> constraint]
Removed(name, constraint) ==
  [kind |-> "ConstraintRemoved", field |-> name, constraint |-> constraint]

(* diff_range and diff_length: an envelope appears, disappears or moves. *)
DiffEnvelope(name, kind, before, after) ==
  LET b == Envelope(before, kind)
      a == Envelope(after, kind)
  IN  CASE HasKind(before, kind) /\ HasKind(after, kind)  -> Moved(name, b, a)
        [] ~HasKind(before, kind) /\ HasKind(after, kind) -> {Added(name, a)}
        [] HasKind(before, kind) /\ ~HasKind(after, kind) -> {Removed(name, b)}
        [] OTHER -> {}

(* diff_non_empty, diff_patterns and diff_customs: whole constraints come  *)
(* and go.                                                                 *)
DiffWhole(name, kinds, before, after) ==
  LET of(constraints) == { c \in Range(constraints) : c.kind \in kinds }
  IN  { Added(name, c) : c \in of(after) \ of(before) }
        \cup { Removed(name, c) : c \in of(before) \ of(after) }

DiffField(before, after) ==
  LET name == after.name
      changed(kind, same) == IF same THEN {} ELSE {[kind |-> kind, field |-> name]}
  IN  changed("TypeChanged", TypesEqualIgnoringMapKeys(before.ty, after.ty))
        \cup (IF before.required = after.required THEN {}
              ELSE {[kind |-> "RequiredChanged", field |-> name, required |-> after.required]})
        \cup DiffEnvelope(name, "range", before.constraints, after.constraints)
        \cup DiffEnvelope(name, "length", before.constraints, after.constraints)
        \cup DiffWhole(name, {"nonempty", "pattern", "custom"},
                       before.constraints, after.constraints)
        \cup changed("DescriptionChanged", before.description = after.description)

Diff(before, after) ==
  LET kept == Names(before) \cap Names(after)
  IN  { [kind |-> "FieldAdded", field |-> n, required |-> Field(after, n).required] :
          n \in Names(after) \ kept }
        \cup (UNION { DiffField(Field(before, n), Field(after, n)) : n \in kept })
        \cup { [kind |-> "FieldRemoved", field |-> n] : n \in Names(before) \ kept }

-----------------------------------------------------------------------------
(* analyze() *)

(* parse_bound: "none" is read as the infinity that bounds nothing, and a  *)
(* length, a u64, as the f64 next to it.                                   *)
Parsed(bound, side) ==
  IF bound # None THEN AsFloat(bound)
  ELSE IF side = "minimum" THEN Num(-Infinity) ELSE Num(Infinity)

(* Faulty: a lower bound that grows taken for a widening. *)
GrowsAsMaximum(side, before, after) == Less(Parsed(after, side), Parsed(before, side))

Narrower(side, before, after) ==
  IF side = "minimum" THEN Less(Parsed(before, side), Parsed(after, side))
                      ELSE Less(Parsed(after, side), Parsed(before, side))

(* Faulty: a field that becomes required counted as a relaxation. *)
RequiredIsRelaxed(entry) ==
  CASE entry.kind = "FieldAdded" -> entry.required
    [] entry.kind \in {"FieldRemoved", "TypeChanged"} -> TRUE
    [] entry.kind = "ConstraintAdded" -> entry.constraint.kind # "custom"
    [] entry.kind = "ConstraintChanged" -> Narrower(entry.side, entry.before, entry.after)
    [] OTHER -> FALSE

(* classify_level gives one of two levels. *)
IsBreaking(entry) ==
  CASE entry.kind \in {"FieldAdded", "RequiredChanged"} -> entry.required
    [] entry.kind \in {"FieldRemoved", "TypeChanged"} -> TRUE
    [] entry.kind = "ConstraintAdded" -> entry.constraint.kind # "custom"
    [] entry.kind = "ConstraintChanged" -> Narrower(entry.side, entry.before, entry.after)
    [] entry.kind \in {"ConstraintRemoved", "DescriptionChanged"} -> FALSE

ClassifyLevel(entry) == IF IsBreaking(entry) THEN "Breaking" ELSE "Compatible"

SeverityRank ==
  [ Identical |-> 0, Compatible |-> 0, ConditionallyCompatible |-> 1, Unknown |-> 2, Breaking |-> 3 ]

(* The worst level among the findings; Identical when there is none. *)
Level(before, after) ==
  LET levels == { ClassifyLevel(entry) : entry \in Diff(before, after) }
  IN  IF levels = {} THEN "Identical"
      ELSE CHOOSE l \in levels : \A m \in levels : SeverityRank[m] <= SeverityRank[l]

IsCompatible(level) == level \in {"Identical", "Compatible"}

(* range_or_length_envelope_text: what describe() shows as previous and as *)
(* new for a moved bound, the range whenever both schemas have one.        *)
ShownEnvelope(before, after, name) ==
  LET b == Field(before, name)
      a == Field(after, name)
      shown == IF HasKind(b.constraints, "range") /\ HasKind(a.constraints, "range")
               THEN "range" ELSE "length"
  IN  [ previous |-> << b.ty, Envelope(b.constraints, shown) >>,
        new      |-> << a.ty, Envelope(a.constraints, shown) >> ]
=============================================================================
