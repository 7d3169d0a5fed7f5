------------------------------ MODULE Findings ------------------------------
(***************************************************************************)
(* What a reader of a comparison is shown: describe(), which turns every   *)
(* entry of a diff into a finding, and the two Display texts.  A wording   *)
(* stands for the claim it makes about documents.                          *)
(***************************************************************************)
EXTENDS Compatibility

PathOf(entry) ==
  IF entry.kind = "ConstraintChanged" THEN << entry.field, entry.side >> ELSE << entry.field >>

-----------------------------------------------------------------------------
(* describe() *)

(* constraint_added_text *)
ImpactOfAdded(constraint) ==
  CASE constraint.kind = "custom"   -> "no outcome changes"
    [] constraint.kind = "nonempty" -> "empty values rejected"
    [] constraint.kind = "pattern" /\ constraint.grammar = "identifier" -> "other text rejected"
    [] constraint.kind = "pattern" /\ constraint.grammar # "identifier" -> "validation fails"
    [] constraint.kind \in {"range", "length"} -> "values may be rejected"

ImpactOf(entry) ==
  LET level == ClassifyLevel(entry)
  IN  CASE entry.kind \in {"FieldAdded", "RequiredChanged"} ->
             IF level = "Breaking" THEN "fails without the field" ELSE "stays valid"
        [] entry.kind = "FieldRemoved"       -> "field silently lost"
        [] entry.kind = "TypeChanged"        -> "old type rejected"
        [] entry.kind = "ConstraintAdded"    -> ImpactOfAdded(entry.constraint)
        [] entry.kind = "ConstraintRemoved"  -> "only widens"
        [] entry.kind = "ConstraintChanged"  -> "values may be rejected"
        [] entry.kind = "DescriptionChanged" -> "cosmetic"

Nothing == [text |-> "nothing"]

Texts(previous, new) == [previous |-> previous, new |-> new]

(* A moved bound shows an envelope, every other entry what it is about. *)
TextsOf(entry, before, after) ==
  LET b == Field(before, entry.field)
      a == Field(after, entry.field)
  IN  CASE entry.kind = "FieldAdded"         -> Texts(Nothing, << a.ty, a.required >>)
        [] entry.kind = "FieldRemoved"       -> Texts(<< b.ty, b.required >>, Nothing)
        [] entry.kind = "TypeChanged"        -> Texts(b.ty, a.ty)
        [] entry.kind = "RequiredChanged"    -> Texts(b.required, a.required)
        [] entry.kind = "ConstraintAdded"    -> Texts(Nothing, entry.constraint)
        [] entry.kind = "ConstraintRemoved"  -> Texts(entry.constraint, Nothing)
        [] entry.kind = "ConstraintChanged"  -> ShownEnvelope(before, after, entry.field)
        [] entry.kind = "DescriptionChanged" -> Texts(b.description, a.description)

(* required_action_for; ConditionallyCompatible is never produced. *)
ActionRequired(level) == level \in {"Breaking", "Unknown"}

Describe(entry, before, after) ==
  LET level == ClassifyLevel(entry)
  IN  [ path |-> PathOf(entry), level |-> level, texts |-> TextsOf(entry, before, after),
        impact |-> ImpactOf(entry), action |-> ActionRequired(level) ]

FindingsOf(before, after) == { Describe(entry, before, after) : entry \in Diff(before, after) }

-----------------------------------------------------------------------------
(* Display *)

(* Faulty: a kind missing from the list of one of the sections. *)
SectionOfMost(kind) ==
  CASE kind \in {"FieldAdded", "ConstraintAdded"}     -> "ADDED"
    [] kind \in {"FieldRemoved", "ConstraintRemoved"} -> "REMOVED"
    [] kind \in {"TypeChanged", "ConstraintChanged", "DescriptionChanged"} -> "CHANGED"
    [] OTHER -> "none"

SectionOf(kind) ==
  CASE kind \in {"FieldAdded", "ConstraintAdded"}     -> "ADDED"
    [] kind \in {"FieldRemoved", "ConstraintRemoved"} -> "REMOVED"
    [] kind \in {"TypeChanged", "RequiredChanged", "ConstraintChanged", "DescriptionChanged"} ->
         "CHANGED"

(* SchemaDiff::fmt: three lists of paths. *)
PrintedDiff(before, after) ==
  [ section \in {"ADDED", "REMOVED", "CHANGED"} |->
      { PathOf(entry) : entry \in { e \in Diff(before, after) : SectionOf(e.kind) = section } } ]

(* CompatibilityReport::fmt: a breaking finding in full, any other as its  *)
(* path and reason.                                                        *)
PrintedInFull(before, after) ==
  { finding \in FindingsOf(before, after) : finding.level \in {"Breaking", "Unknown"} }
=============================================================================
