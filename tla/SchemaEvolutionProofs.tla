------------------------ MODULE SchemaEvolutionProofs ------------------------
(***************************************************************************)
(* Proofs about SchemaEvolution, for any well-formed schemas and           *)
(* documents: the envelope stands for the constraints it folds, the        *)
(* verdicts form an order, what they call compatible keeps stored          *)
(* documents readable, what differs is shown, its impact is what the texts *)
(* say, and an issue's path leads to the fault.                            *)
(***************************************************************************)
EXTENDS SchemaEvolution, DataLemmas

-----------------------------------------------------------------------------
(* Numbers, bounds and their comparison. *)

LEMMA NumberFields ==
  ASSUME NEW x \in Numbers
  PROVE  x.is = "number" /\ x.n \in Int /\ x = Num(x.n) /\ x # None /\ x # NaN
BY DEF Numbers, Num, None, NaN

LEMMA NumIsNumber ==
  ASSUME NEW i \in Int
  PROVE  Num(i) \in Numbers /\ Num(i).n = i
<1>1. Num(i) = [is |-> "number", n |-> i]
  BY DEF Num
<1>2. QED
  BY <1>1 DEF Numbers

LEMMA LessIsLess ==
  ASSUME NEW x \in Numbers, NEW y \in Numbers
  PROVE  Less(x, y) <=> x.n < y.n
BY NumberFields DEF Less

(* NaN and the absent bound compare with nothing. *)
LEMMA NothingBounds ==
  ASSUME NEW x, NEW y \in {NaN, None}
  PROVE  ~Less(x, y) /\ ~Less(y, x)
BY DEF Less, NaN, None

LEMMA AsFloatOfNumber ==
  ASSUME NEW x \in Numbers
  PROVE  /\ AsFloat(x) \in Numbers
         /\ x.n \in -Precision..Precision => AsFloat(x) = x
         /\ x.n > Precision => AsFloat(x).n >= Precision
<1>1. x.is = "number" /\ x.n \in Int /\ Precision \in Nat
  BY NumberFields, PrecisionAssumption
<1>2. CASE x.n \notin -Precision..Precision /\ x.n % 2 = 1
  <2>1. (x.n - 1) % 4 = 0 \/ (x.n + 1) % 4 = 0
    BY <1>1, <1>2
  <2>2. PICK m \in {x.n - 1, x.n + 1} : AsFloat(x) = Num(m)
    BY <1>1, <1>2, <2>1 DEF AsFloat
  <2>3. m \in Int /\ (x.n > Precision => m >= Precision)
    BY <1>1, <2>2
  <2>4. AsFloat(x).n = m /\ AsFloat(x) \in Numbers
    BY <2>2, <2>3 DEF Num, Numbers
  <2>5. QED
    BY <1>2, <2>3, <2>4
<1>3. CASE ~(x.n \notin -Precision..Precision /\ x.n % 2 = 1)
  <2>1. AsFloat(x) = x
    BY <1>3 DEF AsFloat
  <2>2. QED
    BY <1>1, <2>1
<1>4. QED
  BY <1>2, <1>3

LEMMA AsFloatWithin ==
  ASSUME NEW x \in Numbers, x.n >= -(2 * Precision), x.n <= 2 * Precision
  PROVE  /\ AsFloat(x) \in Numbers
         /\ AsFloat(x).n >= -(2 * Precision) /\ AsFloat(x).n <= 2 * Precision
         /\ AsFloat(x).n > -Infinity /\ AsFloat(x).n < Infinity
<1>1. x.is = "number" /\ x.n \in Int /\ Precision \in Nat /\ Infinity \in Int
      /\ Infinity > 2 * Precision
  BY NumberFields, PrecisionAssumption, InfinityAssumption
<1>2. AsFloat(x) \in Numbers /\ AsFloat(x).n \in Int
  BY AsFloatOfNumber, NumberFields
<1>3. AsFloat(x).n >= -(2 * Precision) /\ AsFloat(x).n <= 2 * Precision
  <2>1. CASE AsFloat(x) = x
    BY <2>1
  <2>2. CASE AsFloat(x) # x
    <3>1. x.n % 2 = 1 /\ AsFloat(x) = Num(CHOOSE m \in {x.n - 1, x.n + 1} : m % 4 = 0)
      BY <1>1, <2>2 DEF AsFloat
    <3>2. \E m \in {x.n - 1, x.n + 1} : m % 4 = 0
      BY <1>1, <3>1
    <3>3. AsFloat(x).n \in {x.n - 1, x.n + 1}
      BY <3>1, <3>2 DEF Num
    <3>4. x.n # 2 * Precision /\ x.n # -(2 * Precision)
      BY <1>1, <3>1
    <3>5. x.n + 1 <= 2 * Precision /\ x.n - 1 >= -(2 * Precision)
      BY <1>1, <3>4
    <3>6. QED
      BY <1>1, <3>3, <3>5
  <2>3. QED
    BY <2>1, <2>2
<1>4. AsFloat(x).n > -Infinity /\ AsFloat(x).n < Infinity
  BY <1>1, <1>2, <1>3
<1>5. QED
  BY <1>2, <1>3, <1>4

(* Whether a bound lets a number through. *)
Accepts(side, bound, x) == IF side = "minimum" THEN ~Less(x, bound) ELSE ~Less(bound, x)

(* The tighter of two bounds lets through what both do. *)
LEMMA TighterAccepts ==
  ASSUME NEW x \in Numbers \cup {NaN}, NEW a \in Numbers, NEW b \in Numbers, NEW side \in Sides,
         IF side = "minimum" THEN ~Less(a, b) ELSE ~Less(b, a),
         Accepts(side, a, x)
  PROVE  Accepts(side, b, x)
<1>1. CASE x \in Numbers
  BY <1>1, NumberFields, LessIsLess DEF Accepts
<1>2. CASE x = NaN
  BY <1>2, NothingBounds DEF Accepts
<1>3. QED
  BY <1>1, <1>2

-----------------------------------------------------------------------------
(* The effective bound is the tightest. *)

(* A finite set of numbers has a largest and a smallest: the one with the  *)
(* fewest beyond it.                                                       *)
LEMMA SomeTightest ==
  ASSUME NEW S, S \subseteq Numbers, IsFiniteSet(S), S # {}, NEW side \in Sides
  PROVE  \E b \in S : \A o \in S : IF side = "minimum" THEN ~Less(b, o) ELSE ~Less(o, b)
<1> DEFINE before(b, o) == IF side = "minimum" THEN Less(b, o) ELSE Less(o, b)
           beyond(b) == { o \in S : before(b, o) }
           counts == { Cardinality(beyond(b)) : b \in S }
<1>1. \A b \in S : IsFiniteSet(beyond(b)) /\ Cardinality(beyond(b)) \in Nat
  BY FS_Subset, FS_CardinalityType
<1>2. counts \in SUBSET Nat /\ counts # {}
  BY <1>1
<1>3. PICK c \in counts : \A d \in counts : c <= d
  <2> HIDE DEF counts
  <2>1. QED
    BY <1>2, LeastOfNaturals
<1>4. PICK b \in S : Cardinality(beyond(b)) = c
  BY <1>3
<1>5. ASSUME NEW o \in S, before(b, o) PROVE FALSE
  <2>1. \A p \in S : before(o, p) => before(b, p)
    BY <1>5, NumberFields, LessIsLess
  <2>2. ~before(o, o)
    BY NumberFields, LessIsLess
  <2>3. beyond(o) \subseteq beyond(b) /\ beyond(o) # beyond(b)
    BY <1>5, <2>1, <2>2
  <2>4. /\ Cardinality(beyond(o)) <= Cardinality(beyond(b))
        /\ Cardinality(beyond(o)) # Cardinality(beyond(b))
    <3> HIDE DEF beyond
    <3>1. QED
      BY <1>1, <2>3, FS_Subset
  <2>5. Cardinality(beyond(o)) \in counts
    OBVIOUS
  <2>6. Cardinality(beyond(b)) <= Cardinality(beyond(o))
    BY <1>3, <1>4, <2>5
  <2> HIDE DEF beyond, counts
  <2>7. QED
    BY <1>1, <2>4, <2>6
<1>6. QED
  BY <1>5

LEMMA FiniteRange ==
  ASSUME NEW s, IsASequence(s)
  PROVE  IsFiniteSet(Range(s))
<1> DEFINE f == [i \in DOMAIN s |-> s[i]]
<1>1. IsFiniteSet(DOMAIN s)
  BY FS_Interval DEF IsASequence
<1>2. f \in Surjection(DOMAIN s, Range(s))
  BY DEF Surjection, Range
<1>3. QED
  BY <1>1, <1>2, FS_Surjection

LEMMA BoundsAreFinite ==
  ASSUME NEW cs, IsASequence(cs), \A c \in Range(cs) : WellFormedConstraint(c),
         NEW kind \in {"range", "length"}, NEW side \in Sides
  PROVE  IsFiniteSet(Bounds(cs, kind, side)) /\ Bounds(cs, kind, side) \subseteq Numbers \cup {NaN}
<1> DEFINE those == { d \in Range(cs) : d.kind = kind }
           all == { c[side] : c \in those }
           f == [c \in those |-> c[side]]
<1>1. IsFiniteSet(those)
  BY FiniteRange, FS_Subset
<1>2. f \in Surjection(those, all)
  BY DEF Surjection
<1>3. IsFiniteSet(all)
  <2> HIDE DEF those, all, f
  <2>1. QED
    BY <1>1, <1>2, FS_Surjection
<1>4. Bounds(cs, kind, side) = all \ {None}
  BY DEF Bounds
<1>5. all \subseteq Numbers \cup {NaN, None}
  <2>1. CASE kind = "range"
    BY <2>1 DEF WellFormedConstraint, IsFloat
  <2>2. CASE kind = "length"
    <3>1. \A n \in 0..(2 * Precision) : Num(n) \in Numbers
      BY NumIsNumber, PrecisionAssumption
    <3>2. QED
      BY <2>2, <3>1 DEF WellFormedConstraint
  <2>3. QED
    BY <2>1, <2>2
<1>6. IsFiniteSet(all \ {None})
  <2> HIDE DEF all
  <2>1. QED
    BY <1>3, FS_Subset
<1>7. QED
  BY <1>4, <1>5, <1>6

LEMMA EffectiveBoundIsTightest ==
  ASSUME NEW cs, IsASequence(cs), \A c \in Range(cs) : WellFormedConstraint(c),
         NEW kind \in {"range", "length"}, NEW side \in Sides,
         NEW bound, bound = EffectiveBound(cs, kind, side)
  PROVE  \/ /\ bound \in Numbers /\ bound \in Bounds(cs, kind, side)
            /\ \A o \in Bounds(cs, kind, side) \cap Numbers :
                 IF side = "minimum" THEN ~Less(bound, o) ELSE ~Less(o, bound)
         \/ /\ bound \in {NaN, None}
            /\ Bounds(cs, kind, side) \subseteq {NaN}
            /\ bound = NaN => NaN \in Bounds(cs, kind, side)
<1> DEFINE bounds == Bounds(cs, kind, side)
           numbers == bounds \ {NaN}
           tightest(b) == \A o \in numbers : IF side = "minimum" THEN ~Less(b, o) ELSE ~Less(o, b)
<1>1. IsFiniteSet(bounds) /\ bounds \subseteq Numbers \cup {NaN}
  BY BoundsAreFinite
<1> HIDE DEF bounds
<1>2. IsFiniteSet(numbers) /\ numbers \subseteq Numbers
  BY <1>1, FS_Subset
<1>3. \A o \in bounds \cap Numbers : o \in numbers
  BY NumberFields
<1>4. EffectiveBound(cs, kind, side) =
        CASE numbers # {} -> CHOOSE b \in numbers : tightest(b)
          [] numbers = {} /\ bounds # {} -> NaN
          [] bounds = {} -> None
  BY DEF EffectiveBound, bounds
<1>5. CASE numbers # {}
  <2>1. \E b \in numbers : tightest(b)
    <3> HIDE DEF numbers
    <3>1. QED
      BY <1>2, <1>5, SomeTightest
  <2>2. bound = CHOOSE b \in numbers : tightest(b)
    BY <1>4, <1>5
  <2>3. bound \in numbers /\ tightest(bound)
    BY <2>1, <2>2
  <2>4. QED
    BY <1>2, <1>3, <2>3 DEF bounds
<1>6. CASE numbers = {}
  <2>1. bounds \subseteq {NaN}
    BY <1>6
  <2>2. CASE bounds = {}
    <3>1. bound = None
      BY <1>4, <1>6, <2>2
    <3>2. None # NaN
      BY DEF None, NaN
    <3>3. QED
      BY <2>1, <3>1, <3>2 DEF bounds
  <2>3. CASE bounds # {}
    <3>1. bound = NaN
      BY <1>4, <1>6, <2>3
    <3>2. NaN \in bounds
      BY <2>1, <2>3
    <3>3. QED
      BY <2>1, <3>1, <3>2 DEF bounds
  <2>4. QED
    BY <2>2, <2>3
<1>7. QED
  BY <1>5, <1>6

(* An effective bound lets through what every bound folded into it does. *)
LEMMA EffectiveBoundAccepts ==
  ASSUME NEW cs, IsASequence(cs), \A c \in Range(cs) : WellFormedConstraint(c),
         NEW kind \in {"range", "length"}, NEW side \in Sides, NEW x \in Numbers \cup {NaN}
  PROVE  Accepts(side, EffectiveBound(cs, kind, side), x)
           <=> \A c \in Range(cs) : c.kind = kind => Accepts(side, c[side], x)
<1> DEFINE bound == EffectiveBound(cs, kind, side)
           bounds == Bounds(cs, kind, side)
<1>1. \A y \in {NaN, None} : Accepts(side, y, x)
  BY NothingBounds DEF Accepts
<1>2. \A c \in Range(cs) : c.kind = kind => c[side] \in bounds \/ c[side] = None
  BY DEF Bounds
<1>3. \A b \in bounds : \E c \in Range(cs) : c.kind = kind /\ c[side] = b
  BY DEF Bounds
<1>4. bounds \subseteq Numbers \cup {NaN}
  BY BoundsAreFinite
<1>5. CASE /\ bound \in Numbers /\ bound \in bounds
           /\ \A o \in bounds \cap Numbers :
                IF side = "minimum" THEN ~Less(bound, o) ELSE ~Less(o, bound)
  <2> HIDE DEF bound, bounds
  <2>1. ASSUME Accepts(side, bound, x), NEW c \in Range(cs), c.kind = kind
        PROVE  Accepts(side, c[side], x)
    <3>1. CASE c[side] \in Numbers
      <4>1. c[side] \in bounds
        BY <1>2, <2>1, <3>1, NumberFields
      <4>2. QED
        BY <1>5, <2>1, <3>1, <4>1, TighterAccepts
    <3>2. CASE c[side] \in {NaN, None}
      BY <1>1, <3>2
    <3>3. QED
      BY <1>2, <1>4, <2>1, <3>1, <3>2
  <2>2. ASSUME \A c \in Range(cs) : c.kind = kind => Accepts(side, c[side], x)
        PROVE  Accepts(side, bound, x)
    BY <1>3, <1>5, <2>2
  <2>3. QED
    BY <2>1, <2>2 DEF bound
<1>6. CASE bound \in {NaN, None} /\ bounds \subseteq {NaN}
  <2> HIDE DEF bound, bounds
  <2>1. Accepts(side, bound, x)
    BY <1>1, <1>6
  <2>2. \A c \in Range(cs) : c.kind = kind => Accepts(side, c[side], x)
    BY <1>1, <1>2, <1>6
  <2>3. QED
    BY <2>1, <2>2 DEF bound
<1>7. QED
  BY <1>5, <1>6, EffectiveBoundIsTightest

-----------------------------------------------------------------------------
(* EnvelopeIsConjunction. *)

(* What a range or a length measures of a value, if anything. *)
Measures(kind, v) == IF kind = "range" THEN v.kind \in {"integer", "float"} ELSE v.kind \in Sized

Measure(kind, v) ==
  CASE kind = "range" /\ v.kind = "integer" -> AsFloat(v.num)
    [] kind = "range" /\ v.kind # "integer" -> v.num
    [] OTHER -> Num(Size(v))

LEMMA MeasureIsNumber ==
  ASSUME NEW v, WellFormedValue(v), NEW kind \in {"range", "length"}, Measures(kind, v)
  PROVE  LET x == Measure(kind, v)
         IN  \/ x = NaN
             \/ x \in Numbers /\ x.n >= -Infinity /\ x.n <= Infinity
<1>1. CASE kind = "range" /\ v.kind = "integer"
  <2>1. v.num \in Numbers /\ v.num.n >= -(2 * Precision) /\ v.num.n <= 2 * Precision
    BY <1>1, PrecisionAssumption DEF WellFormedValue, IsInteger, Numbers
  <2>2. Measure(kind, v) = AsFloat(v.num)
    BY <1>1 DEF Measure
  <2>3. /\ AsFloat(v.num) \in Numbers
        /\ AsFloat(v.num).n > -Infinity /\ AsFloat(v.num).n < Infinity
    BY <2>1, AsFloatWithin
  <2>4. QED
    BY <2>2, <2>3, InfinityAssumption, NumberFields
<1>2. CASE kind = "range" /\ v.kind # "integer"
  <2>1. v.num = NaN \/ IsFloat(v.num)
    BY <1>2 DEF Measures, WellFormedValue
  <2>2. Measure(kind, v) = v.num
    BY <1>2 DEF Measure
  <2>3. \A n \in -Infinity..Infinity : n >= -Infinity /\ n <= Infinity
    BY InfinityAssumption
  <2>4. QED
    BY <2>1, <2>2, <2>3 DEF IsFloat
<1>3. CASE kind = "length"
  <2>1. Size(v) \in 0..(Precision - 1) /\ Measure(kind, v) = Num(Size(v))
    BY <1>3 DEF Measures, Measure, WellFormedValue
  <2>2. Size(v) \in Int /\ Size(v) >= -Infinity /\ Size(v) <= Infinity
    BY <2>1, PrecisionAssumption, InfinityAssumption
  <2>3. QED
    BY <2>1, <2>2, NumIsNumber
<1>4. QED
  BY <1>1, <1>2, <1>3

LEMMA SatisfiedIsAccepted ==
  ASSUME NEW c, NEW v, c.kind \in {"range", "length"}
  PROVE  Satisfied(c, v)
           <=> (Measures(c.kind, v) => \A side \in Sides : Accepts(side, c[side], Measure(c.kind, v)))
<1>1. CASE c.kind = "range"
  BY <1>1 DEF Satisfied, Measures, Measure, Accepts, Sides
<1>2. CASE c.kind = "length"
  BY <1>2 DEF Satisfied, Measures, Measure, Accepts, Sides
<1>3. QED
  BY <1>1, <1>2

(* Document::get finds the value of an entry. *)
LEMMA GetFindsEntry ==
  ASSUME NEW doc, doc.kind = "map", WellFormedDocument(doc), NEW key, Has(doc, key)
  PROVE  \E i \in DOMAIN doc.entries : doc.entries[i].key = key /\ Get(doc, key) = doc.entries[i].value
<1> DEFINE at == { i \in DOMAIN doc.entries : doc.entries[i].key = key }
<1>1. at \in SUBSET Nat /\ at # {}
  BY DEF WellFormedDocument, IsASequence, Has
<1>2. \E i \in at : \A j \in at : i <= j
  <2> HIDE DEF at
  <2>1. QED
    BY <1>1, LeastOfNaturals
<1>3. \E i \in DOMAIN doc.entries :
        doc.entries[i].key = key /\ \A j \in DOMAIN doc.entries : doc.entries[j].key = key => i <= j
  BY <1>2
<1>4. QED
  BY <1>3 DEF Get

LEMMA GetIsWellFormed ==
  ASSUME NEW doc, doc.kind = "map", WellFormedDocument(doc), NEW key, Has(doc, key)
  PROVE  WellFormedValue(Get(doc, key))
BY GetFindsEntry DEF WellFormedDocument

(* What the fold of all constraints of a kind accepts. *)
LEMMA EnvelopeAccepts ==
  ASSUME NEW cs, IsASequence(cs), \A c \in Range(cs) : WellFormedConstraint(c),
         NEW kind \in {"range", "length"}, NEW v, WellFormedValue(v)
  PROVE  Satisfied(Envelope(cs, kind), v)
           <=> \A c \in Range(cs) : c.kind = kind => Satisfied(c, v)
<1> DEFINE e == Envelope(cs, kind)
           x == Measure(kind, v)
<1>1. e.kind = kind /\ \A side \in Sides : e[side] = EffectiveBound(cs, kind, side)
  BY DEF Envelope, Sides
<1>2. CASE ~Measures(kind, v)
  <2>1. Satisfied(e, v)
    BY <1>1, <1>2, SatisfiedIsAccepted
  <2>2. \A c \in Range(cs) : c.kind = kind => Satisfied(c, v)
    BY <1>2, SatisfiedIsAccepted
  <2>3. QED
    BY <2>1, <2>2
<1>3. CASE Measures(kind, v)
  <2>1. x \in Numbers \cup {NaN}
    BY <1>3, MeasureIsNumber
  <2> HIDE DEF e, x
  <2>2. Satisfied(e, v) <=> \A side \in Sides : Accepts(side, EffectiveBound(cs, kind, side), x)
    BY <1>1, <1>3, SatisfiedIsAccepted DEF x
  <2>3. \A side \in Sides : Accepts(side, EffectiveBound(cs, kind, side), x)
                              <=> \A c \in Range(cs) : c.kind = kind => Accepts(side, c[side], x)
    BY <2>1, EffectiveBoundAccepts
  <2>4. \A c \in Range(cs) : c.kind = kind =>
          (Satisfied(c, v) <=> \A side \in Sides : Accepts(side, c[side], x))
    BY <1>3, SatisfiedIsAccepted DEF x
  <2>5. Satisfied(e, v) <=> \A c \in Range(cs) : c.kind = kind => Satisfied(c, v)
    BY <2>2, <2>3, <2>4
  <2>6. QED
    BY <2>5 DEF e
<1>4. QED
  BY <1>2, <1>3

(* The versions in play are versions that were proposed. *)
VersionsInv == origin \in Schemas /\ current \in Schemas

LEMMA VersionsInvariant == Spec => []VersionsInv
<1>1. Init => VersionsInv
  BY DEF Init, VersionsInv
<1>2. VersionsInv /\ [Next]_evolutionVars => VersionsInv'
  <2> SUFFICES ASSUME VersionsInv, [Next]_evolutionVars PROVE VersionsInv'
    OBVIOUS
  <2>1. ASSUME NEW after \in Schemas, Publish(after) PROVE VersionsInv'
    BY <2>1 DEF VersionsInv, Publish
  <2>2. ASSUME NEW after \in Schemas, Withhold(after) PROVE VersionsInv'
    BY <2>2 DEF VersionsInv, Withhold
  <2>3. CASE Rewrite
    BY <2>3 DEF VersionsInv, Rewrite
  <2>4. CASE UNCHANGED evolutionVars
    BY <2>4 DEF VersionsInv, evolutionVars
  <2>5. QED
    BY <2>1, <2>2, <2>3, <2>4 DEF Next
<1>3. QED
  BY <1>1, <1>2, PTL DEF Spec

(* diff.rs:54-59: what diff() folds the constraints of a field into        *)
(* accepts exactly what validate() accepts, whatever the constraints, a    *)
(* NaN bound included.                                                     *)
THEOREM EnvelopeAcceptsTheSame == Spec => []EnvelopeIsConjunction
<1>1. VersionsInv => EnvelopeIsConjunction
  <2> SUFFICES ASSUME VersionsInv, NEW f \in Range(current), NEW kind \in {"range", "length"},
                      NEW doc \in Documents, doc.kind = "map", Has(doc, f.name)
               PROVE  Satisfied(Envelope(f.constraints, kind), Get(doc, f.name))
                        <=> \A c \in Range(f.constraints) : c.kind = kind => Satisfied(c, Get(doc, f.name))
    BY DEF EnvelopeIsConjunction
  <2>1. WellFormedField(f)
    BY SchemasAssumption DEF VersionsInv, WellFormedSchema
  <2>2. WellFormedValue(Get(doc, f.name))
    BY DocumentsAssumption, GetIsWellFormed
  <2>3. QED
    BY <2>1, <2>2, EnvelopeAccepts DEF WellFormedField
<1>2. QED
  BY <1>1, VersionsInvariant, PTL

-----------------------------------------------------------------------------
(* What a compatible verdict says of two schemas. *)

FieldCompat(b, a) ==
  /\ TypesEqualIgnoringMapKeys(b.ty, a.ty)
  /\ a.required => b.required
  /\ \A kind \in {"range", "length"} : HasKind(a.constraints, kind) =>
       /\ HasKind(b.constraints, kind)
       /\ \A side \in Sides : ~Narrower(side, EffectiveBound(b.constraints, kind, side),
                                              EffectiveBound(a.constraints, kind, side))
  /\ \A c \in Range(a.constraints) :
       c.kind \in {"nonempty", "pattern"} => c \in Range(b.constraints)

SchemaCompat(b, a) ==
  /\ Names(b) \subseteq Names(a)
  /\ \A n \in Names(a) : IF n \in Names(b) THEN FieldCompat(Field(b, n), Field(a, n))
                                           ELSE ~Field(a, n).required

LEMMA EffectiveBoundType ==
  ASSUME NEW cs, IsASequence(cs), \A c \in Range(cs) : WellFormedConstraint(c),
         NEW kind \in {"range", "length"}, NEW side \in Sides
  PROVE  EffectiveBound(cs, kind, side) \in Numbers \cup {NaN, None}
BY EffectiveBoundIsTightest

LEMMA ParsedType ==
  ASSUME NEW bound \in Numbers \cup {NaN, None}, NEW side \in Sides
  PROVE  Parsed(bound, side) \in Numbers \cup {NaN}
<1>1. CASE bound \in Numbers
  BY <1>1, NumberFields, AsFloatOfNumber DEF Parsed
<1>2. CASE bound = NaN
  <2>1. NaN # None /\ AsFloat(NaN) = NaN
    BY DEF NaN, None, AsFloat
  <2>2. QED
    BY <1>2, <2>1 DEF Parsed
<1>3. CASE bound = None
  <2>1. Infinity \in Int /\ -Infinity \in Int
    BY InfinityAssumption
  <2>2. Parsed(bound, side) \in {Num(-Infinity), Num(Infinity)}
    BY <1>3 DEF Parsed
  <2>3. QED
    BY <2>1, <2>2, NumIsNumber
<1>4. QED
  BY <1>1, <1>2, <1>3

LEMMA NotNarrowerThanItself ==
  ASSUME NEW bound \in Numbers \cup {NaN, None}, NEW side \in Sides
  PROVE  ~Narrower(side, bound, bound)
<1>1. CASE Parsed(bound, side) \in Numbers
  BY <1>1, NumberFields, LessIsLess DEF Narrower
<1>2. CASE Parsed(bound, side) = NaN
  BY <1>2, NothingBounds DEF Narrower
<1>3. QED
  BY <1>1, <1>2, ParsedType

(* The aggregate is breaking exactly if an entry is. *)
LEMMA LevelIsWorst ==
  ASSUME NEW b, NEW a
  PROVE  IsCompatible(Level(b, a)) <=> \A entry \in Diff(b, a) : ~IsBreaking(entry)
<1> DEFINE levels == { ClassifyLevel(entry) : entry \in Diff(b, a) }
           worst(l) == \A m \in levels : SeverityRank[m] <= SeverityRank[l]
<1>1. levels \subseteq {"Breaking", "Compatible"}
  BY DEF ClassifyLevel
<1>2. "Breaking" \in levels <=> \E entry \in Diff(b, a) : IsBreaking(entry)
  BY DEF ClassifyLevel
<1>3. Level(b, a) = IF levels = {} THEN "Identical" ELSE CHOOSE l \in levels : worst(l)
  BY DEF Level
<1>4. SeverityRank["Breaking"] = 3 /\ SeverityRank["Compatible"] = 0
  BY DEF SeverityRank
<1> HIDE DEF levels
<1>5. CASE "Breaking" \in levels
  <2>1. worst("Breaking")
    BY <1>1, <1>4
  <2>2. \A l \in levels : worst(l) => l = "Breaking"
    BY <1>1, <1>4, <1>5
  <2> HIDE DEF worst
  <2>3. Level(b, a) = "Breaking"
    BY <1>3, <1>5, <2>1, <2>2
  <2>4. QED
    BY <1>2, <1>5, <2>3 DEF IsCompatible
<1>6. CASE levels = {}
  BY <1>2, <1>3, <1>6 DEF IsCompatible
<1>7. CASE "Breaking" \notin levels /\ levels # {}
  <2>1. levels = {"Compatible"}
    BY <1>1, <1>7
  <2>2. worst("Compatible")
    BY <1>4, <2>1
  <2> HIDE DEF worst
  <2>3. Level(b, a) = "Compatible"
    BY <1>3, <1>7, <2>1, <2>2
  <2>4. QED
    BY <1>2, <1>7, <2>3 DEF IsCompatible
<1>8. QED
  BY <1>5, <1>6, <1>7

LEMMA EnvelopeVerdict ==
  ASSUME NEW name, NEW kind \in {"range", "length"},
         NEW before, IsASequence(before), \A c \in Range(before) : WellFormedConstraint(c),
         NEW after, IsASequence(after), \A c \in Range(after) : WellFormedConstraint(c)
  PROVE  (\A entry \in DiffEnvelope(name, kind, before, after) : ~IsBreaking(entry))
           <=> (HasKind(after, kind) =>
                  /\ HasKind(before, kind)
                  /\ \A side \in Sides : ~Narrower(side, EffectiveBound(before, kind, side),
                                                         EffectiveBound(after, kind, side)))
<1> DEFINE b == Envelope(before, kind)
           a == Envelope(after, kind)
           entries == DiffEnvelope(name, kind, before, after)
           moved(side) == [ kind |-> "ConstraintChanged", field |-> name, side |-> side,
                            before |-> b[side], after |-> a[side] ]
<1>1. a.kind = kind /\ \A side \in Sides : /\ b[side] = EffectiveBound(before, kind, side)
                                           /\ a[side] = EffectiveBound(after, kind, side)
  BY DEF Envelope, Sides
<1>2. CASE ~HasKind(after, kind) /\ ~HasKind(before, kind)
  BY <1>2 DEF DiffEnvelope
<1>3. CASE ~HasKind(after, kind) /\ HasKind(before, kind)
  <2>1. entries = {Removed(name, b)}
    BY <1>3 DEF DiffEnvelope
  <2>2. ~IsBreaking(Removed(name, b))
    BY DEF IsBreaking, Removed
  <2>3. QED
    BY <1>3, <2>1, <2>2
<1>4. CASE HasKind(after, kind) /\ ~HasKind(before, kind)
  <2>1. entries = {Added(name, a)}
    BY <1>4 DEF DiffEnvelope
  <2>2. IsBreaking(Added(name, a))
    BY <1>1 DEF IsBreaking, Added
  <2>3. QED
    BY <1>4, <2>1, <2>2
<1>5. CASE HasKind(after, kind) /\ HasKind(before, kind)
  <2>1. entries = { moved(side) : side \in { x \in Sides : ~SameBound(b[x], a[x]) } }
    BY <1>5 DEF DiffEnvelope, Moved
  <2>2. \A side \in Sides : IsBreaking(moved(side)) <=> Narrower(side, b[side], a[side])
    BY DEF IsBreaking
  <2>3. \A side \in Sides : SameBound(b[side], a[side]) => ~Narrower(side, b[side], a[side])
    BY <1>1, EffectiveBoundType, NotNarrowerThanItself DEF SameBound
  <2> HIDE DEF entries, moved, b, a
  <2>4. (\A entry \in entries : ~IsBreaking(entry))
          <=> \A side \in Sides : ~Narrower(side, b[side], a[side])
    BY <2>1, <2>2, <2>3
  <2>5. QED
    BY <1>1, <1>5, <2>4 DEF entries
<1>6. QED
  BY <1>2, <1>3, <1>4, <1>5

LEMMA WholeVerdict ==
  ASSUME NEW name, NEW before, NEW after
  PROVE  (\A entry \in DiffWhole(name, {"nonempty", "pattern", "custom"}, before, after) :
            ~IsBreaking(entry))
           <=> \A c \in Range(after) : c.kind \in {"nonempty", "pattern"} => c \in Range(before)
<1> DEFINE kinds == {"nonempty", "pattern", "custom"}
           of(cs) == { c \in Range(cs) : c.kind \in kinds }
<1>1. DiffWhole(name, kinds, before, after)
        = { Added(name, c) : c \in of(after) \ of(before) }
            \cup { Removed(name, c) : c \in of(before) \ of(after) }
  BY DEF DiffWhole
<1>2. \A c : IsBreaking(Added(name, c)) <=> c.kind # "custom"
  BY DEF IsBreaking, Added
<1>3. \A c : ~IsBreaking(Removed(name, c))
  BY DEF IsBreaking, Removed
<1>4. (\A entry \in DiffWhole(name, kinds, before, after) : ~IsBreaking(entry))
        <=> \A c \in of(after) \ of(before) : c.kind = "custom"
  BY <1>1, <1>2, <1>3
<1>5. QED
  BY <1>4

LEMMA FieldVerdict ==
  ASSUME NEW b, WellFormedField(b), NEW a, WellFormedField(a)
  PROVE  (\A entry \in DiffField(b, a) : ~IsBreaking(entry)) <=> FieldCompat(b, a)
<1> DEFINE types == TypesEqualIgnoringMapKeys(b.ty, a.ty)
           T == IF types THEN {} ELSE {[kind |-> "TypeChanged", field |-> a.name]}
           R == IF b.required = a.required THEN {}
                ELSE {[kind |-> "RequiredChanged", field |-> a.name, required |-> a.required]}
           V(kind) == DiffEnvelope(a.name, kind, b.constraints, a.constraints)
           W == DiffWhole(a.name, {"nonempty", "pattern", "custom"}, b.constraints, a.constraints)
           D == IF b.description = a.description THEN {}
                ELSE {[kind |-> "DescriptionChanged", field |-> a.name]}
           fine(entries) == \A entry \in entries : ~IsBreaking(entry)
           bounded(kind) ==
             HasKind(a.constraints, kind) =>
               /\ HasKind(b.constraints, kind)
               /\ \A side \in Sides : ~Narrower(side, EffectiveBound(b.constraints, kind, side),
                                                      EffectiveBound(a.constraints, kind, side))
<1>1. DiffField(b, a) = T \cup R \cup V("range") \cup V("length") \cup W \cup D
  BY DEF DiffField
<1>2. fine(T) <=> types
  <2> HIDE DEF types
  <2>1. IsBreaking([kind |-> "TypeChanged", field |-> a.name])
    BY DEF IsBreaking
  <2>2. QED
    BY <2>1
<1>3. fine(R) <=> (a.required => b.required)
  <2>1. IsBreaking([kind |-> "RequiredChanged", field |-> a.name, required |-> a.required])
          <=> a.required
    BY DEF IsBreaking
  <2>2. a.required \in BOOLEAN /\ b.required \in BOOLEAN
    BY DEF WellFormedField
  <2>3. QED
    BY <2>1, <2>2
<1>4. \A kind \in {"range", "length"} : fine(V(kind)) <=> bounded(kind)
  BY EnvelopeVerdict DEF WellFormedField
<1>5. fine(W) <=> \A c \in Range(a.constraints) :
                    c.kind \in {"nonempty", "pattern"} => c \in Range(b.constraints)
  BY WholeVerdict
<1>6. fine(D)
  <2>1. ~IsBreaking([kind |-> "DescriptionChanged", field |-> a.name])
    BY DEF IsBreaking
  <2>2. QED
    BY <2>1
<1> HIDE DEF T, R, V, W, D, types
<1>7. fine(DiffField(b, a)) <=> fine(T) /\ fine(R) /\ fine(V("range")) /\ fine(V("length")) /\ fine(W)
  BY <1>1, <1>6
<1> HIDE DEF fine
<1>8. FieldCompat(b, a) <=>
        /\ types
        /\ a.required => b.required
        /\ bounded("range") /\ bounded("length")
        /\ \A c \in Range(a.constraints) :
             c.kind \in {"nonempty", "pattern"} => c \in Range(b.constraints)
  BY DEF FieldCompat, types
<1> HIDE DEF bounded
<1>9. fine(DiffField(b, a)) <=> FieldCompat(b, a)
  BY <1>2, <1>3, <1>4, <1>5, <1>7, <1>8
<1>10. QED
  BY <1>9 DEF fine

(* The field of a name. *)
LEMMA FieldFound ==
  ASSUME NEW fields, WellFormedSchema(fields)
  PROVE  /\ \A n \in Names(fields) : Field(fields, n) \in Range(fields) /\ Field(fields, n).name = n
         /\ \A f \in Range(fields) : f.name \in Names(fields) /\ Field(fields, f.name) = f
<1>1. \A n \in Names(fields) : \E f \in Range(fields) : f.name = n
  BY DEF Names, Range
<1>2. \A f, g \in Range(fields) : f.name = g.name => f = g
  BY DEF WellFormedSchema, IsSchema, Range
<1>3. \A n \in Names(fields) : Field(fields, n) \in Range(fields) /\ Field(fields, n).name = n
  BY <1>1 DEF Field
<1>4. \A f \in Range(fields) : f.name \in Names(fields)
  BY DEF Names, Range
<1>5. \A f \in Range(fields) : Field(fields, f.name) = f
  BY <1>2, <1>3, <1>4
<1>6. QED
  BY <1>3, <1>4, <1>5

LEMMA FieldIsWellFormed ==
  ASSUME NEW fields, WellFormedSchema(fields), NEW n \in Names(fields)
  PROVE  WellFormedField(Field(fields, n))
BY FieldFound DEF WellFormedSchema

(* analyze() calls a change compatible if and only if it is. *)
LEMMA SchemaVerdict ==
  ASSUME NEW b, WellFormedSchema(b), NEW a, WellFormedSchema(a)
  PROVE  IsCompatible(Level(b, a)) <=> SchemaCompat(b, a)
<1> DEFINE kept == Names(b) \cap Names(a)
           added(n) == [kind |-> "FieldAdded", field |-> n, required |-> Field(a, n).required]
           removed(n) == [kind |-> "FieldRemoved", field |-> n]
           changed(n) == DiffField(Field(b, n), Field(a, n))
<1>1. Diff(b, a) = { added(n) : n \in Names(a) \ kept } \cup (UNION { changed(n) : n \in kept })
                     \cup { removed(n) : n \in Names(b) \ kept }
  BY DEF Diff
<1>2. \A n : IsBreaking(added(n)) <=> Field(a, n).required
  BY DEF IsBreaking
<1>3. \A n : IsBreaking(removed(n))
  BY DEF IsBreaking
<1>4. \A n \in kept : (\A entry \in changed(n) : ~IsBreaking(entry))
                         <=> FieldCompat(Field(b, n), Field(a, n))
  BY FieldIsWellFormed, FieldVerdict
<1> HIDE DEF added, removed, changed
<1>5. (\A entry \in Diff(b, a) : ~IsBreaking(entry)) <=>
        /\ \A n \in Names(a) \ kept : ~IsBreaking(added(n))
        /\ \A n \in kept : \A entry \in changed(n) : ~IsBreaking(entry)
        /\ \A n \in Names(b) \ kept : ~IsBreaking(removed(n))
  <2> HIDE DEF kept
  <2>1. QED
    BY <1>1
<1>6. (\A entry \in Diff(b, a) : ~IsBreaking(entry)) <=>
        /\ \A n \in Names(a) \ kept : ~Field(a, n).required
        /\ \A n \in kept : FieldCompat(Field(b, n), Field(a, n))
        /\ Names(b) \ kept = {}
  BY <1>2, <1>3, <1>4, <1>5
<1>7. QED
  BY <1>6, LevelIsWorst DEF SchemaCompat

-----------------------------------------------------------------------------
(* Without a NaN bound, compatibility is a preorder.                       *)

(* The effective bounds of a field without NaN. *)
BoundsOf(kind) ==
  IF kind = "range"
  THEN { x \in Numbers : x.n \in -Infinity..Infinity /\ AsFloat(x) = x }
  ELSE { x \in Numbers : x.n \in 0..(2 * Precision) }

LEMMA NaNFreeBounds ==
  ASSUME NEW f, WellFormedField(f), NaNFreeField(f),
         NEW kind \in {"range", "length"}, NEW side \in Sides,
         NEW bound, bound = EffectiveBound(f.constraints, kind, side)
  PROVE  \/ bound \in BoundsOf(kind) /\ bound \in Numbers
         \/ bound = None
<1> DEFINE cs == f.constraints
<1>1. \A c \in Range(cs) : c.kind = kind => c[side] \in BoundsOf(kind) \cup {None}
  <2> SUFFICES ASSUME NEW c \in Range(cs), c.kind = kind PROVE c[side] \in BoundsOf(kind) \cup {None}
    OBVIOUS
  <2>1. CASE kind = "range"
    BY <2>1 DEF NaNFreeField, WellFormedField, WellFormedConstraint, IsFloat, BoundsOf
  <2>2. CASE kind = "length"
    <3>1. c[side] \in { Num(n) : n \in 0..(2 * Precision) } \cup {None}
      BY <2>2 DEF WellFormedField, WellFormedConstraint
    <3>2. \A n \in 0..(2 * Precision) : Num(n) \in Numbers /\ Num(n).n = n
      BY PrecisionAssumption DEF Numbers, Num
    <3>3. QED
      BY <2>2, <3>1, <3>2 DEF BoundsOf
  <2>3. QED
    BY <2>1, <2>2
<1>2. BoundsOf(kind) \subseteq Numbers /\ NaN \notin Numbers /\ NaN # None
  BY NumberFields DEF BoundsOf, NaN, None
<1>3. Bounds(cs, kind, side) \subseteq BoundsOf(kind)
  BY <1>1 DEF Bounds
<1>4. NaN \notin Bounds(cs, kind, side)
  BY <1>2, <1>3
<1> HIDE DEF cs
<1>5. \/ bound \in Bounds(cs, kind, side)
      \/ bound \in {NaN, None} /\ (bound = NaN => NaN \in Bounds(cs, kind, side))
  BY EffectiveBoundIsTightest DEF WellFormedField, cs
<1>6. QED
  BY <1>2, <1>3, <1>4, <1>5

LEMMA NaNFreeParsed ==
  ASSUME NEW f, WellFormedField(f), NaNFreeField(f),
         NEW kind \in {"range", "length"}, NEW side \in Sides
  PROVE  Parsed(EffectiveBound(f.constraints, kind, side), side) \in Numbers
<1>1. \A bound \in Numbers : Parsed(bound, side) \in Numbers
  BY NumberFields, AsFloatOfNumber DEF Parsed
<1>2. Parsed(None, side) \in Numbers
  <2>1. Parsed(None, side) \in {Num(-Infinity), Num(Infinity)}
    BY DEF Parsed
  <2>2. \A n \in Int : Num(n) \in Numbers
    BY NumIsNumber
  <2>3. Infinity \in Int /\ -Infinity \in Int
    BY InfinityAssumption
  <2>4. QED
    BY <2>1, <2>2, <2>3
<1>3. QED
  BY <1>1, <1>2, NaNFreeBounds

LEMMA FieldCompatReflexive ==
  ASSUME NEW f, WellFormedField(f)
  PROVE  FieldCompat(f, f)
BY EffectiveBoundType, NotNarrowerThanItself
   DEF FieldCompat, WellFormedField, TypesEqualIgnoringMapKeys

LEMMA FieldCompatTransitive ==
  ASSUME NEW x, WellFormedField(x), NaNFreeField(x),
         NEW y, WellFormedField(y), NaNFreeField(y),
         NEW z, WellFormedField(z), NaNFreeField(z),
         FieldCompat(x, y), FieldCompat(y, z)
  PROVE  FieldCompat(x, z)
<1>1. TypesEqualIgnoringMapKeys(x.ty, z.ty)
  BY DEF FieldCompat, TypesEqualIgnoringMapKeys, WellFormedField, IsASequence
<1>2. z.required => x.required
  BY DEF FieldCompat
<1>3. ASSUME NEW kind \in {"range", "length"}, HasKind(z.constraints, kind)
      PROVE  /\ HasKind(x.constraints, kind)
             /\ \A side \in Sides : ~Narrower(side, EffectiveBound(x.constraints, kind, side),
                                                    EffectiveBound(z.constraints, kind, side))
  <2>1. HasKind(y.constraints, kind) /\ HasKind(x.constraints, kind)
    BY <1>3 DEF FieldCompat
  <2>2. ASSUME NEW side \in Sides
        PROVE  ~Narrower(side, EffectiveBound(x.constraints, kind, side),
                               EffectiveBound(z.constraints, kind, side))
    <3> DEFINE p(f) == Parsed(EffectiveBound(f.constraints, kind, side), side)
    <3>1. p(x) \in Numbers /\ p(y) \in Numbers /\ p(z) \in Numbers
      BY NaNFreeParsed
    <3>2. \A f, g : Narrower(side, EffectiveBound(f.constraints, kind, side),
                                   EffectiveBound(g.constraints, kind, side))
                      <=> IF side = "minimum" THEN Less(p(f), p(g)) ELSE Less(p(g), p(f))
      BY DEF Narrower
    <3>3. /\ ~Narrower(side, EffectiveBound(x.constraints, kind, side),
                             EffectiveBound(y.constraints, kind, side))
          /\ ~Narrower(side, EffectiveBound(y.constraints, kind, side),
                             EffectiveBound(z.constraints, kind, side))
      BY <1>3, <2>1 DEF FieldCompat
    <3> HIDE DEF p
    <3>4. CASE side = "minimum"
      <4>1. ~(p(x).n < p(y).n) /\ ~(p(y).n < p(z).n)
        BY <3>1, <3>2, <3>3, <3>4, LessIsLess
      <4>2. ~(p(x).n < p(z).n)
        BY <3>1, <4>1, NumberFields
      <4>3. QED
        BY <3>1, <3>2, <3>4, <4>2, LessIsLess
    <3>5. CASE side # "minimum"
      <4>1. ~(p(y).n < p(x).n) /\ ~(p(z).n < p(y).n)
        BY <3>1, <3>2, <3>3, <3>5, LessIsLess
      <4>2. ~(p(z).n < p(x).n)
        BY <3>1, <4>1, NumberFields
      <4>3. QED
        BY <3>1, <3>2, <3>5, <4>2, LessIsLess
    <3>6. QED
      BY <3>4, <3>5
  <2>3. QED
    BY <2>1, <2>2
<1>4. \A c \in Range(z.constraints) :
        c.kind \in {"nonempty", "pattern"} => c \in Range(x.constraints)
  BY DEF FieldCompat
<1>5. QED
  BY <1>1, <1>2, <1>3, <1>4 DEF FieldCompat

LEMMA SchemaCompatReflexive ==
  ASSUME NEW s, WellFormedSchema(s)
  PROVE  SchemaCompat(s, s)
BY FieldIsWellFormed, FieldCompatReflexive DEF SchemaCompat

LEMMA SchemaCompatTransitive ==
  ASSUME NEW x, WellFormedSchema(x), NaNFree(x),
         NEW y, WellFormedSchema(y), NaNFree(y),
         NEW z, WellFormedSchema(z), NaNFree(z),
         SchemaCompat(x, y), SchemaCompat(y, z)
  PROVE  SchemaCompat(x, z)
<1>1. Names(x) \subseteq Names(y) /\ Names(y) \subseteq Names(z)
  BY DEF SchemaCompat
<1>2. \A s \in {x, y, z} : \A n \in Names(s) : WellFormedField(Field(s, n)) /\ NaNFreeField(Field(s, n))
  BY FieldFound DEF WellFormedSchema, NaNFree
<1>3. ASSUME NEW n \in Names(z), n \in Names(x)
      PROVE  FieldCompat(Field(x, n), Field(z, n))
  <2>1. FieldCompat(Field(x, n), Field(y, n)) /\ FieldCompat(Field(y, n), Field(z, n))
    BY <1>1, <1>3 DEF SchemaCompat
  <2>2. QED
    BY <1>1, <1>2, <1>3, <2>1, FieldCompatTransitive
<1>4. ASSUME NEW n \in Names(z), n \notin Names(x)
      PROVE  ~Field(z, n).required
  <2>1. CASE n \in Names(y)
    <3>1. ~Field(y, n).required /\ FieldCompat(Field(y, n), Field(z, n))
      BY <1>4, <2>1 DEF SchemaCompat
    <3>2. QED
      BY <3>1 DEF FieldCompat
  <2>2. CASE n \notin Names(y)
    BY <2>2 DEF SchemaCompat
  <2>3. QED
    BY <2>1, <2>2
<1>5. QED
  BY <1>1, <1>3, <1>4 DEF SchemaCompat

(* The version in force is compatible with the oldest in store. *)
CompatInv == VersionsInv /\ SchemaCompat(origin, current)

LEMMA CompatInvariant ==
  ASSUME \A s \in Schemas : NaNFree(s)
  PROVE  Spec => []CompatInv
<1>1. Init => CompatInv
  BY SchemasAssumption, SchemaCompatReflexive DEF Init, CompatInv, VersionsInv
<1>2. CompatInv /\ [Next]_evolutionVars => CompatInv'
  <2> SUFFICES ASSUME CompatInv, [Next]_evolutionVars PROVE CompatInv'
    OBVIOUS
  <2> USE DEF CompatInv, VersionsInv
  <2>1. ASSUME NEW after \in Schemas, Publish(after) PROVE CompatInv'
    <3>1. SchemaCompat(current, after)
      BY <2>1, SchemasAssumption, SchemaVerdict DEF Publish
    <3>2. SchemaCompat(origin, after)
      BY <3>1, SchemasAssumption, SchemaCompatTransitive
    <3>3. QED
      BY <2>1, <3>2 DEF Publish
  <2>2. ASSUME NEW after \in Schemas, Withhold(after) PROVE CompatInv'
    BY <2>2 DEF Withhold
  <2>3. CASE Rewrite
    BY <2>3, SchemasAssumption, SchemaCompatReflexive DEF Rewrite
  <2>4. CASE UNCHANGED evolutionVars
    BY <2>4 DEF evolutionVars
  <2>5. QED
    BY <2>1, <2>2, <2>3, <2>4 DEF Next
<1>3. QED
  BY <1>1, <1>2, PTL DEF Spec

(* No chain of compatible changes hides a breaking one, however long: with *)
(* no NaN bound in any version, analyze() over the whole chain agrees with *)
(* analyze() over its steps.                                               *)
THEOREM CompatibleStepsAddUp ==
  ASSUME \A s \in Schemas : NaNFree(s)
  PROVE  Spec => []CompatibilityIsTransitive
<1>1. CompatInv => CompatibilityIsTransitive
  BY SchemasAssumption, SchemaVerdict DEF CompatInv, VersionsInv, CompatibilityIsTransitive
<1>2. QED
  BY <1>1, CompatInvariant, PTL

-----------------------------------------------------------------------------
(* What a compatible verdict promises of documents. *)

(* A bound read back as f64: exact in a range, and no further from the     *)
(* measured values of a length than the bound itself.                      *)
LEMMA BoundAsFloat ==
  ASSUME NEW kind \in {"range", "length"}, NEW bound \in BoundsOf(kind)
  PROVE  /\ bound \in Numbers /\ AsFloat(bound) \in Numbers
         /\ AsFloat(bound).n >= -Infinity /\ AsFloat(bound).n <= Infinity
         /\ \/ AsFloat(bound) = bound
            \/ /\ kind = "length" /\ bound.n > Precision /\ AsFloat(bound).n >= Precision
               /\ AsFloat(bound).n < Infinity
<1>1. bound \in Numbers /\ bound.n \in Int
  BY NumberFields DEF BoundsOf
<1>2. Infinity > 2 * Precision /\ Infinity \in Int /\ Precision \in Nat
  BY PrecisionAssumption, InfinityAssumption
<1>3. CASE kind = "range"
  <2>1. bound.n \in -Infinity..Infinity /\ AsFloat(bound) = bound
    BY <1>3 DEF BoundsOf
  <2>2. QED
    BY <1>1, <1>2, <2>1
<1>4. CASE kind = "length"
  <2>1. bound.n \in 0..(2 * Precision)
    BY <1>4 DEF BoundsOf
  <2>2. bound.n >= -(2 * Precision) /\ bound.n <= 2 * Precision /\ bound.n >= 0
    BY <1>2, <2>1
  <2>3. /\ AsFloat(bound) \in Numbers /\ AsFloat(bound).n \in Int
        /\ AsFloat(bound).n > -Infinity /\ AsFloat(bound).n < Infinity
    BY <1>1, <2>2, AsFloatWithin, NumberFields
  <2>4. AsFloat(bound).n >= -Infinity /\ AsFloat(bound).n <= Infinity
    BY <1>2, <2>3
  <2>5. CASE bound.n > Precision
    BY <1>1, <1>4, <2>3, <2>4, <2>5, AsFloatOfNumber
  <2>6. CASE ~(bound.n > Precision)
    <3>1. bound.n \in -Precision..Precision
      BY <1>1, <1>2, <2>2, <2>6
    <3>2. AsFloat(bound) = bound
      BY <1>1, <3>1, AsFloatOfNumber
    <3>3. QED
      BY <1>1, <2>3, <2>4, <3>2
  <2>7. QED
    BY <2>5, <2>6
<1>5. QED
  BY <1>3, <1>4

(* A length that is measured is below every length that f64 rounds. *)
LEMMA MeasureBelowPrecision ==
  ASSUME NEW v, WellFormedValue(v), Measures("length", v)
  PROVE  /\ Measure("length", v) \in Numbers
         /\ Measure("length", v).n >= 0 /\ Measure("length", v).n < Precision
<1>1. Size(v) \in 0..(Precision - 1)
  BY DEF Measures, WellFormedValue
<1>2. Measure("length", v) = Num(Size(v))
  BY DEF Measure
<1>3. \A n \in 0..(Precision - 1) : Num(n) \in Numbers /\ Num(n).n >= 0 /\ Num(n).n < Precision
  BY PrecisionAssumption DEF Num, Numbers
<1>4. QED
  BY <1>1, <1>2, <1>3

LEMMA NotNarrowedAccepts ==
  ASSUME NEW b, WellFormedField(b), NaNFreeField(b), NEW a, WellFormedField(a), NaNFreeField(a),
         NEW kind \in {"range", "length"}, NEW side \in Sides,
         NEW before, before = EffectiveBound(b.constraints, kind, side),
         NEW after, after = EffectiveBound(a.constraints, kind, side),
         ~Narrower(side, before, after),
         NEW v, WellFormedValue(v), Measures(kind, v),
         Accepts(side, before, Measure(kind, v))
  PROVE  Accepts(side, after, Measure(kind, v))
<1> DEFINE x == Measure(kind, v)
<1>1. x = NaN \/ (x \in Numbers /\ x.n >= -Infinity /\ x.n <= Infinity)
  BY MeasureIsNumber
<1>2. kind = "length" => x \in Numbers /\ x.n >= 0 /\ x.n < Precision
  BY MeasureBelowPrecision
<1>3. (before \in BoundsOf(kind) \/ before = None) /\ (after \in BoundsOf(kind) \/ after = None)
  BY NaNFreeBounds
<1> HIDE DEF x
<1>4. CASE after = None \/ x = NaN
  BY <1>4, NothingBounds DEF Accepts, x
<1>5. CASE after \in BoundsOf(kind) /\ x \in Numbers
  <2>1. /\ after \in Numbers /\ AsFloat(after) \in Numbers
        /\ AsFloat(after).n >= -Infinity /\ AsFloat(after).n <= Infinity
        /\ \/ AsFloat(after) = after
           \/ /\ kind = "length" /\ after.n > Precision /\ AsFloat(after).n >= Precision
              /\ AsFloat(after).n < Infinity
    BY <1>5, BoundAsFloat
  <2>2. Parsed(after, side) = AsFloat(after)
    BY <2>1, NumberFields DEF Parsed
  <2>3. CASE before = None
    <3>1. Parsed(before, side) = IF side = "minimum" THEN Num(-Infinity) ELSE Num(Infinity)
      BY <2>3 DEF Parsed
    <3>2. /\ Num(-Infinity) \in Numbers /\ Num(Infinity) \in Numbers
          /\ Num(-Infinity).n = -Infinity /\ Num(Infinity).n = Infinity
      BY InfinityAssumption, NumIsNumber
    <3>3. /\ x.n \in Int /\ after.n \in Int /\ AsFloat(after).n \in Int
          /\ Infinity \in Int /\ Precision \in Nat /\ x.n >= -Infinity /\ x.n <= Infinity
          /\ Infinity > 2 * Precision
      BY <1>1, <1>5, <2>1, NumberFields, InfinityAssumption, PrecisionAssumption
    <3>4. CASE side = "minimum"
      <4>1. ~(-Infinity < AsFloat(after).n)
        BY <2>1, <2>2, <3>1, <3>2, <3>4, LessIsLess DEF Narrower
      <4>2. AsFloat(after) = after
        BY <2>1, <3>3, <4>1
      <4>3. ~(x.n < after.n)
        BY <3>3, <4>1, <4>2
      <4>4. QED
        BY <1>5, <2>1, <3>4, <4>3, LessIsLess DEF Accepts, x
    <3>5. CASE side # "minimum"
      <4>1. ~(AsFloat(after).n < Infinity)
        BY <2>1, <2>2, <3>1, <3>2, <3>5, LessIsLess DEF Narrower
      <4>2. AsFloat(after) = after
        BY <2>1, <4>1
      <4>3. ~(after.n < x.n)
        BY <3>3, <4>1, <4>2
      <4>4. QED
        BY <1>5, <2>1, <3>5, <4>3, LessIsLess DEF Accepts, x
    <3>6. QED
      BY <3>4, <3>5
  <2>4. CASE before \in BoundsOf(kind)
    <3>1. /\ before \in Numbers /\ AsFloat(before) \in Numbers
          /\ \/ AsFloat(before) = before
             \/ kind = "length" /\ before.n > Precision /\ AsFloat(before).n >= Precision
      BY <2>4, BoundAsFloat
    <3>2. Parsed(before, side) = AsFloat(before)
      BY <3>1, NumberFields DEF Parsed
    <3>3. Precision \in Nat /\ x.n \in Int /\ before.n \in Int /\ after.n \in Int
          /\ AsFloat(before).n \in Int /\ AsFloat(after).n \in Int
      BY <1>5, <2>1, <3>1, NumberFields, PrecisionAssumption
    <3>4. CASE side = "minimum"
      <4>1. ~(AsFloat(before).n < AsFloat(after).n)
        BY <2>1, <2>2, <3>1, <3>2, <3>4, LessIsLess DEF Narrower
      <4>2. ~(x.n < before.n)
        BY <1>5, <3>1, <3>4, LessIsLess DEF Accepts, x
      <4>3. AsFloat(before) = before
        BY <1>2, <3>1, <3>3, <4>2
      <4>4. AsFloat(after) = after
        BY <1>2, <2>1, <3>3, <4>1, <4>2, <4>3
      <4>5. ~(x.n < after.n)
        BY <3>3, <4>1, <4>2, <4>3, <4>4
      <4>6. QED
        BY <1>5, <2>1, <3>4, <4>5, LessIsLess DEF Accepts, x
    <3>5. CASE side # "minimum"
      <4>1. ~(AsFloat(after).n < AsFloat(before).n)
        BY <2>1, <2>2, <3>1, <3>2, <3>5, LessIsLess DEF Narrower
      <4>2. ~(before.n < x.n)
        BY <1>5, <3>1, <3>5, LessIsLess DEF Accepts, x
      <4>3. ~(after.n < x.n)
        <5>1. CASE AsFloat(after) # after
          BY <1>2, <2>1, <3>3, <5>1
        <5>2. CASE AsFloat(after) = after /\ AsFloat(before) = before
          BY <3>3, <4>1, <4>2, <5>2
        <5>3. CASE AsFloat(after) = after /\ AsFloat(before) # before
          BY <1>2, <3>1, <3>3, <4>1, <5>3
        <5>4. QED
          BY <5>1, <5>2, <5>3
      <4>4. QED
        BY <1>5, <2>1, <3>5, <4>3, LessIsLess DEF Accepts, x
    <3>6. QED
      BY <3>4, <3>5
  <2>5. QED
    BY <1>3, <2>3, <2>4
<1>6. QED
  BY <1>1, <1>3, <1>4, <1>5

(* What satisfies the constraints of a field satisfies those of a          *)
(* compatible one, and can be evaluated against them.                      *)
LEMMA ConstraintsStaySatisfied ==
  ASSUME NEW b, WellFormedField(b), NaNFreeField(b), NEW a, WellFormedField(a), NaNFreeField(a),
         FieldCompat(b, a),
         NEW v, WellFormedValue(v),
         \A c \in Range(b.constraints) : Satisfied(c, v) /\ ~Unevaluable(c, v)
  PROVE  \A c \in Range(a.constraints) : Satisfied(c, v) /\ ~Unevaluable(c, v)
<1> SUFFICES ASSUME NEW c \in Range(a.constraints) PROVE Satisfied(c, v) /\ ~Unevaluable(c, v)
  OBVIOUS
<1>1. c.kind \in {"range", "length", "nonempty", "pattern", "custom"}
  BY DEF WellFormedField, WellFormedConstraint
<1>2. CASE c.kind \in {"nonempty", "pattern"}
  BY <1>2 DEF FieldCompat
<1>3. CASE c.kind = "custom"
  BY <1>3 DEF Satisfied, Unevaluable
<1>4. CASE c.kind \in {"range", "length"}
  <2> DEFINE kind == c.kind
             before(side) == EffectiveBound(b.constraints, kind, side)
             after(side) == EffectiveBound(a.constraints, kind, side)
  <2>1. Satisfied(Envelope(b.constraints, kind), v)
    BY <1>4, EnvelopeAccepts DEF WellFormedField
  <2>2. HasKind(a.constraints, kind)
    BY DEF HasKind
  <2>3. \A side \in Sides : ~Narrower(side, before(side), after(side))
    BY <1>4, <2>2 DEF FieldCompat
  <2>4. /\ Envelope(b.constraints, kind).kind = kind /\ Envelope(a.constraints, kind).kind = kind
        /\ \A side \in Sides : /\ Envelope(b.constraints, kind)[side] = before(side)
                               /\ Envelope(a.constraints, kind)[side] = after(side)
    BY DEF Envelope, Sides
  <2>5. Measures(kind, v) => \A side \in Sides : Accepts(side, before(side), Measure(kind, v))
    BY <1>4, <2>1, <2>4, SatisfiedIsAccepted
  <2>6. Measures(kind, v) => \A side \in Sides : Accepts(side, after(side), Measure(kind, v))
    BY <1>4, <2>3, <2>5, NotNarrowedAccepts
  <2>7. Satisfied(Envelope(a.constraints, kind), v)
    BY <1>4, <2>4, <2>6, SatisfiedIsAccepted
  <2>8. Satisfied(c, v)
    BY <1>4, <2>7, EnvelopeAccepts DEF WellFormedField
  <2>9. QED
    BY <1>4, <2>8 DEF Unevaluable
<1>5. QED
  BY <1>1, <1>2, <1>3, <1>4

(* The key type of a map is never looked at. *)
LEMMA TypeIssuesAgree ==
  ASSUME NEW b, IsASequence(b), NEW a, IsASequence(a), TypesEqualIgnoringMapKeys(b, a),
         NEW v, NEW path
  PROVE  TypeIssues(b, v, path) = TypeIssues(a, v, path)
<1>1. [ k \in DOMAIN b |-> b[k].of ] = [ k \in DOMAIN a |-> a[k].of ]
  BY DEF TypesEqualIgnoringMapKeys, IsASequence
<1>2. QED
  BY <1>1 DEF TypeIssues

LEMMA NoFieldIssues ==
  ASSUME NEW f, NEW doc
  PROVE  FieldIssues(f, doc) = {} <=>
           IF Has(doc, f.name)
           THEN /\ TypeIssues(f.ty, Get(doc, f.name), << [key |-> f.name] >>) = {}
                /\ \A c \in Range(f.constraints) : Satisfied(c, Get(doc, f.name))
           ELSE ~f.required
<1> DEFINE path == << [key |-> f.name] >>
           v == Get(doc, f.name)
           T == TypeIssues(f.ty, v, path)
           C == { Issue(path, c.kind) : c \in { d \in Range(f.constraints) : ~Satisfied(d, v) } }
<1>1. CASE Has(doc, f.name)
  <2>1. FieldIssues(f, doc) = T \cup C
    BY <1>1 DEF FieldIssues
  <2>2. C = {} <=> \A c \in Range(f.constraints) : Satisfied(c, v)
    OBVIOUS
  <2> HIDE DEF T, C
  <2>3. FieldIssues(f, doc) = {} <=> T = {} /\ C = {}
    BY <2>1
  <2>4. QED
    BY <1>1, <2>2, <2>3 DEF T
<1>2. CASE ~Has(doc, f.name)
  BY <1>2 DEF FieldIssues
<1>3. QED
  BY <1>1, <1>2

LEMMA ValidMeans ==
  ASSUME NEW fields, NEW doc
  PROVE  Validate(fields, doc) = "valid" <=>
           /\ doc.kind = "map"
           /\ \A f \in Range(fields) :
                /\ FieldIssues(f, doc) = {}
                /\ Has(doc, f.name) =>
                     \A c \in Range(f.constraints) : ~Unevaluable(c, Get(doc, f.name))
<1>1. Issues(fields, doc) = {} <=>
        doc.kind = "map" /\ \A f \in Range(fields) : FieldIssues(f, doc) = {}
  BY DEF Issues
<1> DEFINE unevaluable == /\ doc.kind = "map"
                          /\ \E f \in Range(fields) : Has(doc, f.name) /\
                               \E c \in Range(f.constraints) : Unevaluable(c, Get(doc, f.name))
<1>2. Validate(fields, doc) = "valid" <=> ~unevaluable /\ Issues(fields, doc) = {}
  BY DEF Validate
<1>3. QED
  BY <1>1, <1>2

(* What validate() makes of one field. *)
FieldAccepts(f, doc) ==
  /\ FieldIssues(f, doc) = {}
  /\ Has(doc, f.name) => \A c \in Range(f.constraints) : ~Unevaluable(c, Get(doc, f.name))

LEMMA CompatibleFieldReads ==
  ASSUME NEW g, WellFormedField(g), NaNFreeField(g), NEW f, WellFormedField(f), NaNFreeField(f),
         FieldCompat(g, f), g.name = f.name,
         NEW doc, doc.kind = "map", WellFormedDocument(doc), FieldAccepts(g, doc)
  PROVE  FieldAccepts(f, doc)
<1> DEFINE n == f.name
           v == Get(doc, n)
<1>1. /\ FieldIssues(g, doc) = {}
      /\ Has(doc, n) => \A c \in Range(g.constraints) : ~Unevaluable(c, v)
  BY DEF FieldAccepts
<1>2. CASE Has(doc, n)
  <2>1. WellFormedValue(v)
    BY <1>2, GetIsWellFormed
  <2>2. /\ TypeIssues(g.ty, v, << [key |-> n] >>) = {}
        /\ \A c \in Range(g.constraints) : Satisfied(c, v)
    BY <1>1, <1>2, NoFieldIssues
  <2>3. \A c \in Range(f.constraints) : Satisfied(c, v) /\ ~Unevaluable(c, v)
    BY <1>1, <1>2, <2>1, <2>2, ConstraintsStaySatisfied
  <2>4. TypeIssues(f.ty, v, << [key |-> n] >>) = {}
    BY <2>2, TypeIssuesAgree DEF FieldCompat, WellFormedField, WellFormedType
  <2>5. QED
    BY <1>2, <2>3, <2>4, NoFieldIssues DEF FieldAccepts
<1>3. CASE ~Has(doc, n)
  BY <1>1, <1>3, NoFieldIssues DEF FieldCompat, FieldAccepts
<1>4. QED
  BY <1>2, <1>3

(* A document that holds no key but those of the older version, and is     *)
(* valid under it, is valid under a compatible one.                        *)
LEMMA CompatibleReads ==
  ASSUME NEW b, WellFormedSchema(b), NaNFree(b),
         NEW a, WellFormedSchema(a), NaNFree(a), SchemaCompat(b, a),
         NEW doc, WellFormedDocument(doc), Tidy(b, doc), Validate(b, doc) = "valid"
  PROVE  Validate(a, doc) = "valid"
<1>1. doc.kind = "map" /\ \A g \in Range(b) : FieldAccepts(g, doc)
  BY ValidMeans DEF FieldAccepts
<1>2. ASSUME NEW f \in Range(a) PROVE FieldAccepts(f, doc)
  <2> DEFINE n == f.name
             g == Field(b, n)
  <2>1. n \in Names(a) /\ Field(a, n) = f /\ WellFormedField(f) /\ NaNFreeField(f)
    BY FieldFound DEF WellFormedSchema, NaNFree
  <2>2. CASE n \in Names(b)
    <3>1. g \in Range(b) /\ g.name = n /\ WellFormedField(g) /\ NaNFreeField(g)
      BY <2>2, FieldFound DEF WellFormedSchema, NaNFree
    <3>2. FieldCompat(g, f)
      BY <2>1, <2>2 DEF SchemaCompat
    <3> HIDE DEF g
    <3>3. QED
      BY <1>1, <2>1, <3>1, <3>2, CompatibleFieldReads
  <2>3. CASE n \notin Names(b)
    <3>1. ~Has(doc, n)
      BY <1>1, <2>3 DEF Has, Tidy
    <3>2. ~f.required
      BY <2>1, <2>3 DEF SchemaCompat
    <3>3. QED
      BY <3>1, <3>2, NoFieldIssues DEF FieldAccepts
  <2>4. QED
    BY <2>2, <2>3
<1>3. QED
  BY <1>1, <1>2, ValidMeans DEF FieldAccepts

(* However many compatible versions lie in between, a stored document      *)
(* stays readable (compatibility.rs:14-16): for any versions without a NaN *)
(* bound and any documents that hold only the keys of their version.       *)
THEOREM StoredDocumentsStayReadable ==
  ASSUME \A s \in Schemas : NaNFree(s)
  PROVE  Spec => []StoredStaysReadable
<1>1. CompatInv => StoredStaysReadable
  BY SchemasAssumption, DocumentsAssumption, CompatibleReads
     DEF CompatInv, VersionsInv, StoredStaysReadable
<1>2. QED
  BY <1>1, CompatInvariant, PTL

-----------------------------------------------------------------------------
(* Entries, and where they are printed. *)

EntryKinds ==
  { "FieldAdded", "FieldRemoved", "TypeChanged", "RequiredChanged",
    "ConstraintAdded", "ConstraintRemoved", "ConstraintChanged", "DescriptionChanged" }

(* Every entry of a diff is about a field of its kind, and what is known   *)
(* of a field is what the diff of the whole has about it.                  *)
LEMMA EntriesOfField ==
  ASSUME NEW b, NEW a
  PROVE  \A entry \in DiffField(b, a) : entry.field = a.name /\ entry.kind \in EntryKinds
<1> DEFINE name == a.name
           known(entries) == \A entry \in entries : entry.field = name /\ entry.kind \in EntryKinds
           T == IF TypesEqualIgnoringMapKeys(b.ty, a.ty) THEN {}
                ELSE {[kind |-> "TypeChanged", field |-> name]}
           R == IF b.required = a.required THEN {}
                ELSE {[kind |-> "RequiredChanged", field |-> name, required |-> a.required]}
           V(kind) == DiffEnvelope(name, kind, b.constraints, a.constraints)
           W == DiffWhole(name, {"nonempty", "pattern", "custom"}, b.constraints, a.constraints)
           D == IF b.description = a.description THEN {}
                ELSE {[kind |-> "DescriptionChanged", field |-> name]}
<1>1. DiffField(b, a) = T \cup R \cup V("range") \cup V("length") \cup W \cup D
  BY DEF DiffField
<1>2. known(T) /\ known(R) /\ known(D)
  BY DEF EntryKinds
<1>3. \A c : known({Added(name, c)}) /\ known({Removed(name, c)})
  BY DEF EntryKinds, Added, Removed
<1>4. \A x, y : known(Moved(name, x, y))
  BY DEF EntryKinds, Moved
<1>5. \A kind : known(V(kind))
  <2> SUFFICES ASSUME NEW kind PROVE known(V(kind))
    OBVIOUS
  <2>1. V(kind) \in { Moved(name, Envelope(b.constraints, kind), Envelope(a.constraints, kind)),
                      {Added(name, Envelope(a.constraints, kind))},
                      {Removed(name, Envelope(b.constraints, kind))}, {} }
    BY DEF DiffEnvelope
  <2> HIDE DEF V
  <2>2. QED
    BY <1>3, <1>4, <2>1
<1>6. known(W)
  <2>1. \A entry \in W : \E c : entry = Added(name, c) \/ entry = Removed(name, c)
    BY DEF DiffWhole
  <2> HIDE DEF W
  <2>2. QED
    BY <1>3, <2>1
<1> HIDE DEF T, R, V, W, D
<1>7. known(DiffField(b, a))
  BY <1>1, <1>2, <1>5, <1>6
<1>8. QED
  BY <1>7

LEMMA EntriesOfDiff ==
  ASSUME NEW b, WellFormedSchema(b), NEW a, WellFormedSchema(a), NEW n
  PROVE  /\ n \in Names(a) \ Names(b) =>
              [kind |-> "FieldAdded", field |-> n, required |-> Field(a, n).required] \in Diff(b, a)
         /\ n \in Names(b) \ Names(a) => [kind |-> "FieldRemoved", field |-> n] \in Diff(b, a)
         /\ n \in Names(a) \cap Names(b) =>
              \A entry \in DiffField(Field(b, n), Field(a, n)) :
                entry \in Diff(b, a) /\ entry.field = n /\ entry.kind \in EntryKinds
<1>1. n \in Names(a) \ Names(b) =>
        [kind |-> "FieldAdded", field |-> n, required |-> Field(a, n).required] \in Diff(b, a)
  BY DEF Diff
<1>2. n \in Names(b) \ Names(a) => [kind |-> "FieldRemoved", field |-> n] \in Diff(b, a)
  BY DEF Diff
<1>3. n \in Names(a) \cap Names(b) => DiffField(Field(b, n), Field(a, n)) \subseteq Diff(b, a)
  BY DEF Diff
<1>4. n \in Names(a) => Field(a, n).name = n
  BY FieldFound
<1>5. QED
  BY <1>1, <1>2, <1>3, <1>4, EntriesOfField

(* An entry is listed in a section of the diff; a breaking one is in full  *)
(* in the report, with an action required.                                 *)
LEMMA EntryIsPrinted ==
  ASSUME NEW b, NEW a, NEW entry \in Diff(b, a), entry.kind \in EntryKinds
  PROVE  \E section \in {"ADDED", "REMOVED", "CHANGED"} :
           \E path \in PrintedDiff(b, a)[section] : path[1] = entry.field
<1> DEFINE section == SectionOf(entry.kind)
<1>1. section \in {"ADDED", "REMOVED", "CHANGED"}
  BY DEF EntryKinds, SectionOf
<1>2. PathOf(entry)[1] = entry.field
  BY DEF PathOf
<1>3. PathOf(entry) \in PrintedDiff(b, a)[section]
  BY <1>1 DEF PrintedDiff
<1>4. QED
  BY <1>1, <1>2, <1>3

LEMMA BreakingIsPrinted ==
  ASSUME NEW b, NEW a, NEW entry \in Diff(b, a), IsBreaking(entry)
  PROVE  \E finding \in PrintedInFull(b, a) : finding.path[1] = entry.field /\ finding.action
<1> DEFINE finding == Describe(entry, b, a)
<1>1. finding.level = "Breaking" /\ finding.path = PathOf(entry)
      /\ finding.action = ActionRequired("Breaking")
  BY DEF Describe, ClassifyLevel
<1>2. PathOf(entry)[1] = entry.field /\ ActionRequired("Breaking")
  BY DEF PathOf, ActionRequired
<1>3. finding \in FindingsOf(b, a)
  BY DEF FindingsOf
<1> HIDE DEF finding
<1>4. QED
  BY <1>1, <1>2, <1>3 DEF PrintedInFull

(* The outcome of a document under one field. *)
LEMMA OutcomeOfField ==
  ASSUME NEW f, NEW doc, doc.kind = "map"
  PROVE  Validate(<< f >>, doc) =
           IF Has(doc, f.name) /\ ~\A c \in Range(f.constraints) : ~Unevaluable(c, Get(doc, f.name))
           THEN "unavailable"
           ELSE IF FieldIssues(f, doc) = {} THEN "valid" ELSE "invalid"
<1>1. Range(<< f >>) = {f}
  BY DEF Range
<1>2. Issues(<< f >>, doc) = {} <=> FieldIssues(f, doc) = {}
  BY <1>1 DEF Issues
<1>3. QED
  BY <1>1, <1>2 DEF Validate

-----------------------------------------------------------------------------
(* What the entries about a field do not say, has not changed. *)

SatisfiesAll(cs, kind, v) == \A c \in Range(cs) : c.kind = kind => Satisfied(c, v)

WholeKinds == {"nonempty", "pattern", "custom"}

WholeOf(cs) == { c \in Range(cs) : c.kind \in WholeKinds }

(* The parts of a diff of two fields. *)
LEMMA PartsOfDiffField ==
  ASSUME NEW g, NEW f
  PROVE  /\ \A kind \in {"range", "length"} :
              DiffEnvelope(f.name, kind, g.constraints, f.constraints) \subseteq DiffField(g, f)
         /\ DiffWhole(f.name, WholeKinds, g.constraints, f.constraints) \subseteq DiffField(g, f)
         /\ ~TypesEqualIgnoringMapKeys(g.ty, f.ty) =>
              [kind |-> "TypeChanged", field |-> f.name] \in DiffField(g, f)
         /\ g.required # f.required =>
              [kind |-> "RequiredChanged", field |-> f.name, required |-> f.required]
                \in DiffField(g, f)
BY DEF DiffField, WholeKinds

(* An envelope that neither appears nor moves rejects nothing new, and one *)
(* that does not disappear either rejects the same.                        *)
LEMMA EnvelopeWidens ==
  ASSUME NEW g, WellFormedField(g), NEW f, WellFormedField(f), NEW v, WellFormedValue(v),
         NEW kind \in {"range", "length"}, NEW name,
         \A entry \in DiffEnvelope(name, kind, g.constraints, f.constraints) :
           entry.kind = "ConstraintRemoved"
  PROVE  /\ SatisfiesAll(g.constraints, kind, v) => SatisfiesAll(f.constraints, kind, v)
         /\ DiffEnvelope(name, kind, g.constraints, f.constraints) = {} =>
              (SatisfiesAll(g.constraints, kind, v) <=> SatisfiesAll(f.constraints, kind, v))
<1> DEFINE x == Envelope(g.constraints, kind)
           y == Envelope(f.constraints, kind)
           V == DiffEnvelope(name, kind, g.constraints, f.constraints)
<1>1. CASE HasKind(g.constraints, kind) /\ HasKind(f.constraints, kind)
  <2>1. V = Moved(name, x, y)
    BY <1>1 DEF DiffEnvelope
  <2>2. \A entry \in Moved(name, x, y) : entry.kind = "ConstraintChanged"
    BY DEF Moved
  <2>3. Moved(name, x, y) = {}
    BY <2>1, <2>2
  <2>4. \A side \in Sides : x[side] = y[side]
    BY <2>3 DEF Moved, SameBound
  <2>5. Satisfied(x, v) <=> Satisfied(y, v)
    <3>1. x.kind = kind /\ y.kind = kind
      BY DEF Envelope
    <3> HIDE DEF x, y
    <3>2. QED
      BY <2>4, <3>1, SatisfiedIsAccepted
  <2>6. /\ Satisfied(x, v) <=> SatisfiesAll(g.constraints, kind, v)
        /\ Satisfied(y, v) <=> SatisfiesAll(f.constraints, kind, v)
    BY EnvelopeAccepts DEF WellFormedField, SatisfiesAll
  <2> HIDE DEF x, y, V
  <2>7. QED
    BY <2>5, <2>6
<1>2. CASE ~HasKind(f.constraints, kind)
  <2>1. SatisfiesAll(f.constraints, kind, v)
    BY <1>2 DEF HasKind, SatisfiesAll
  <2>2. V = {} => ~HasKind(g.constraints, kind)
    BY <1>2 DEF DiffEnvelope
  <2>3. ~HasKind(g.constraints, kind) => SatisfiesAll(g.constraints, kind, v)
    BY DEF HasKind, SatisfiesAll
  <2>4. QED
    BY <2>1, <2>2, <2>3
<1>3. CASE ~HasKind(g.constraints, kind) /\ HasKind(f.constraints, kind)
  <2>1. Added(name, y) \in V
    BY <1>3 DEF DiffEnvelope
  <2>2. Added(name, y).kind = "ConstraintAdded"
    BY DEF Added
  <2> HIDE DEF V, y
  <2>3. QED
    BY <2>1, <2>2 DEF V
<1>4. QED
  BY <1>1, <1>2, <1>3

LEMMA ByKind ==
  ASSUME NEW f, WellFormedField(f), NEW v
  PROVE  /\ (\A c \in Range(f.constraints) : Satisfied(c, v)) <=>
              /\ \A c \in WholeOf(f.constraints) : Satisfied(c, v)
              /\ \A kind \in {"range", "length"} : SatisfiesAll(f.constraints, kind, v)
         /\ (\A c \in Range(f.constraints) : ~Unevaluable(c, v)) <=>
              \A c \in WholeOf(f.constraints) : ~Unevaluable(c, v)
<1>1. \A c \in Range(f.constraints) : c.kind \in {"range", "length"} \/ c.kind \in WholeKinds
  BY DEF WellFormedField, WellFormedConstraint, WholeKinds
<1>2. (\A c \in Range(f.constraints) : Satisfied(c, v)) <=>
        /\ \A c \in WholeOf(f.constraints) : Satisfied(c, v)
        /\ \A kind \in {"range", "length"} : SatisfiesAll(f.constraints, kind, v)
  BY <1>1 DEF WholeOf, SatisfiesAll
<1>3. (\A c \in Range(f.constraints) : ~Unevaluable(c, v)) <=>
        \A c \in WholeOf(f.constraints) : ~Unevaluable(c, v)
  BY DEF WholeOf, WholeKinds, Unevaluable
<1>4. QED
  BY <1>2, <1>3

(* Nothing but removed constraints: what was accepted still is. *)
LEMMA ConstraintsWiden ==
  ASSUME NEW g, WellFormedField(g), NEW f, WellFormedField(f), NEW v, WellFormedValue(v),
         \A entry \in DiffField(g, f) : entry.kind \notin {"ConstraintAdded", "ConstraintChanged"},
         \A c \in Range(g.constraints) : Satisfied(c, v) /\ ~Unevaluable(c, v)
  PROVE  \A c \in Range(f.constraints) : Satisfied(c, v) /\ ~Unevaluable(c, v)
<1> DEFINE V(kind) == DiffEnvelope(f.name, kind, g.constraints, f.constraints)
           W == DiffWhole(f.name, WholeKinds, g.constraints, f.constraints)
<1>1. ASSUME NEW kind \in {"range", "length"}
      PROVE  SatisfiesAll(f.constraints, kind, v)
  <2>1. \A entry \in V(kind) : entry.kind # "ConstraintAdded" /\ entry.kind # "ConstraintChanged"
    BY PartsOfDiffField
  <2>2. \A entry \in V(kind) :
          entry.kind \in {"ConstraintAdded", "ConstraintChanged", "ConstraintRemoved"}
    BY DEF DiffEnvelope, Moved, Added, Removed
  <2>3. \A entry \in V(kind) : entry.kind = "ConstraintRemoved"
    BY <2>1, <2>2
  <2>4. SatisfiesAll(g.constraints, kind, v)
    BY DEF SatisfiesAll
  <2>5. QED
    BY <2>3, <2>4, EnvelopeWidens
<1>2. WholeOf(f.constraints) \subseteq WholeOf(g.constraints)
  <2>1. \A c \in WholeOf(f.constraints) \ WholeOf(g.constraints) : Added(f.name, c) \in W
    BY DEF DiffWhole, WholeOf
  <2>2. \A c : Added(f.name, c).kind = "ConstraintAdded"
    BY DEF Added
  <2> HIDE DEF W
  <2>3. W \subseteq DiffField(g, f)
    BY PartsOfDiffField DEF W
  <2>4. QED
    BY <2>1, <2>2, <2>3
<1>3. \A c \in WholeOf(f.constraints) : Satisfied(c, v) /\ ~Unevaluable(c, v)
  BY <1>2 DEF WholeOf
<1>4. QED
  BY <1>1, <1>3, ByKind

(* No constraint but an annotation comes, goes or moves: what is accepted, *)
(* and what can be evaluated, is the same.                                 *)
LEMMA ConstraintsAgree ==
  ASSUME NEW g, WellFormedField(g), NEW f, WellFormedField(f), NEW v, WellFormedValue(v),
         \A entry \in DiffField(g, f) :
           /\ entry.kind \notin {"ConstraintRemoved", "ConstraintChanged"}
           /\ entry.kind = "ConstraintAdded" => entry.constraint.kind = "custom"
  PROVE  /\ (\A c \in Range(g.constraints) : Satisfied(c, v))
              <=> (\A c \in Range(f.constraints) : Satisfied(c, v))
         /\ (\A c \in Range(g.constraints) : ~Unevaluable(c, v))
              <=> (\A c \in Range(f.constraints) : ~Unevaluable(c, v))
<1> DEFINE V(kind) == DiffEnvelope(f.name, kind, g.constraints, f.constraints)
           W == DiffWhole(f.name, WholeKinds, g.constraints, f.constraints)
<1>1. ASSUME NEW kind \in {"range", "length"}
      PROVE  SatisfiesAll(g.constraints, kind, v) <=> SatisfiesAll(f.constraints, kind, v)
  <2>1. V(kind) \subseteq DiffField(g, f)
    BY PartsOfDiffField
  <2>2. \A entry \in V(kind) :
          /\ entry.kind \in {"ConstraintAdded", "ConstraintChanged", "ConstraintRemoved"}
          /\ entry.kind = "ConstraintAdded" => entry.constraint.kind = kind
    <3>1. V(kind) \in { Moved(f.name, Envelope(g.constraints, kind), Envelope(f.constraints, kind)),
                        {Added(f.name, Envelope(f.constraints, kind))},
                        {Removed(f.name, Envelope(g.constraints, kind))}, {} }
      BY DEF DiffEnvelope
    <3>2. Envelope(f.constraints, kind).kind = kind
      BY DEF Envelope
    <3> HIDE DEF V
    <3>3. \A x, y : \A entry \in Moved(f.name, x, y) : entry.kind = "ConstraintChanged"
      BY DEF Moved
    <3>4. \A x : /\ Added(f.name, x).kind = "ConstraintAdded" /\ Added(f.name, x).constraint = x
                 /\ Removed(f.name, x).kind = "ConstraintRemoved"
      BY DEF Added, Removed
    <3>5. QED
      BY <3>1, <3>2, <3>3, <3>4
  <2> HIDE DEF V
  <2>3. V(kind) = {}
    BY <2>1, <2>2
  <2>4. QED
    BY <2>3, EnvelopeWidens DEF V
<1>2. WholeOf(g.constraints) \subseteq WholeOf(f.constraints)
      /\ \A c \in WholeOf(f.constraints) \ WholeOf(g.constraints) : c.kind = "custom"
  <2>1. /\ \A c \in WholeOf(f.constraints) \ WholeOf(g.constraints) : Added(f.name, c) \in W
        /\ \A c \in WholeOf(g.constraints) \ WholeOf(f.constraints) : Removed(f.name, c) \in W
    BY DEF DiffWhole, WholeOf
  <2>2. \A c : /\ Added(f.name, c).kind = "ConstraintAdded" /\ Added(f.name, c).constraint = c
               /\ Removed(f.name, c).kind = "ConstraintRemoved"
    BY DEF Added, Removed
  <2> HIDE DEF W
  <2>3. W \subseteq DiffField(g, f)
    BY PartsOfDiffField DEF W
  <2>4. QED
    BY <2>1, <2>2, <2>3
<1>3. \A c : c.kind = "custom" => Satisfied(c, v) /\ ~Unevaluable(c, v)
  BY DEF Satisfied, Unevaluable
<1>4. /\ (\A c \in WholeOf(g.constraints) : Satisfied(c, v))
            <=> (\A c \in WholeOf(f.constraints) : Satisfied(c, v))
      /\ (\A c \in WholeOf(g.constraints) : ~Unevaluable(c, v))
            <=> (\A c \in WholeOf(f.constraints) : ~Unevaluable(c, v))
  BY <1>2, <1>3
<1>5. QED
  BY <1>1, <1>4, ByKind

LEMMA OutcomesAgree ==
  ASSUME NEW g, WellFormedField(g), NEW f, WellFormedField(f), g.name = f.name,
         \A entry \in DiffField(g, f) :
           \/ entry.kind = "DescriptionChanged"
           \/ entry.kind = "ConstraintAdded" /\ entry.constraint.kind = "custom",
         NEW doc, doc.kind = "map", WellFormedDocument(doc)
  PROVE  Validate(<< g >>, doc) = Validate(<< f >>, doc)
<1> DEFINE n == f.name
           v == Get(doc, n)
           fine(h) == \A c \in Range(h.constraints) : ~Unevaluable(c, v)
<1>1. TypesEqualIgnoringMapKeys(g.ty, f.ty) /\ g.required = f.required
  <2>1. /\ [kind |-> "TypeChanged", field |-> n].kind = "TypeChanged"
        /\ [kind |-> "RequiredChanged", field |-> n, required |-> f.required].kind = "RequiredChanged"
    OBVIOUS
  <2>2. QED
    BY <2>1, PartsOfDiffField
<1>2. CASE Has(doc, n)
  <2>1. WellFormedValue(v)
    BY <1>2, GetIsWellFormed
  <2>2. /\ (\A c \in Range(g.constraints) : Satisfied(c, v))
              <=> (\A c \in Range(f.constraints) : Satisfied(c, v))
        /\ fine(g) <=> fine(f)
    BY <2>1, ConstraintsAgree
  <2>3. TypeIssues(g.ty, v, << [key |-> n] >>) = TypeIssues(f.ty, v, << [key |-> n] >>)
    BY <1>1, TypeIssuesAgree DEF WellFormedField, WellFormedType
  <2>4. FieldIssues(g, doc) = {} <=> FieldIssues(f, doc) = {}
    BY <1>2, <2>2, <2>3, NoFieldIssues
  <2>5. QED
    BY <1>2, <2>2, <2>4, OutcomeOfField
<1>3. CASE ~Has(doc, n)
  <2>1. FieldIssues(g, doc) = {} <=> FieldIssues(f, doc) = {}
    BY <1>1, <1>3, NoFieldIssues
  <2>2. QED
    BY <1>3, <2>1, OutcomeOfField
<1>4. QED
  BY <1>2, <1>3

(* A field that lost constraints, or became optional, accepts as before.   *)
LEMMA FieldWidens ==
  ASSUME NEW g, WellFormedField(g), NEW f, WellFormedField(f), g.name = f.name,
         \A entry \in DiffField(g, f) :
           entry.kind \notin {"TypeChanged", "ConstraintAdded", "ConstraintChanged"},
         f.required => g.required,
         NEW doc, doc.kind = "map", WellFormedDocument(doc), FieldAccepts(g, doc)
  PROVE  FieldAccepts(f, doc)
<1> DEFINE n == f.name
           v == Get(doc, n)
<1>1. TypesEqualIgnoringMapKeys(g.ty, f.ty)
  <2>1. [kind |-> "TypeChanged", field |-> n].kind = "TypeChanged"
    OBVIOUS
  <2>2. QED
    BY <2>1, PartsOfDiffField
<1>2. /\ FieldIssues(g, doc) = {}
      /\ Has(doc, n) => \A c \in Range(g.constraints) : ~Unevaluable(c, v)
  BY DEF FieldAccepts
<1>3. CASE Has(doc, n)
  <2>1. WellFormedValue(v)
    BY <1>3, GetIsWellFormed
  <2>2. /\ TypeIssues(g.ty, v, << [key |-> n] >>) = {}
        /\ \A c \in Range(g.constraints) : Satisfied(c, v) /\ ~Unevaluable(c, v)
    BY <1>2, <1>3, NoFieldIssues
  <2>3. \A c \in Range(f.constraints) : Satisfied(c, v) /\ ~Unevaluable(c, v)
    BY <2>1, <2>2, ConstraintsWiden
  <2>4. TypeIssues(f.ty, v, << [key |-> n] >>) = {}
    BY <1>1, <2>2, TypeIssuesAgree DEF WellFormedField, WellFormedType
  <2>5. QED
    BY <1>3, <2>3, <2>4, NoFieldIssues DEF FieldAccepts
<1>4. CASE ~Has(doc, n)
  BY <1>2, <1>4, NoFieldIssues DEF FieldAccepts
<1>5. QED
  BY <1>3, <1>4

-----------------------------------------------------------------------------
(* What differs is shown. *)

LEMMA EffectIsListed ==
  ASSUME NEW b, WellFormedSchema(b), NEW a, WellFormedSchema(a), NEW n \in Names(b) \cup Names(a),
         NEW doc, doc.kind = "map", WellFormedDocument(doc),
         FieldOutcome(b, n, doc) # FieldOutcome(a, n, doc)
  PROVE  \E section \in {"ADDED", "REMOVED", "CHANGED"} :
           \E path \in PrintedDiff(b, a)[section] : path[1] = n
<1>1. SUFFICES \E entry \in Diff(b, a) : entry.field = n /\ entry.kind \in EntryKinds
  BY EntryIsPrinted
<1>2. CASE n \in Names(a) \ Names(b)
  <2> DEFINE entry == [kind |-> "FieldAdded", field |-> n, required |-> Field(a, n).required]
  <2>1. entry \in Diff(b, a)
    BY <1>2, EntriesOfDiff
  <2>2. entry.field = n /\ entry.kind \in EntryKinds
    BY DEF EntryKinds
  <2> HIDE DEF entry
  <2>3. QED
    BY <2>1, <2>2
<1>3. CASE n \in Names(b) \ Names(a)
  <2> DEFINE entry == [kind |-> "FieldRemoved", field |-> n]
  <2>1. entry \in Diff(b, a)
    BY <1>3, EntriesOfDiff
  <2>2. entry.field = n /\ entry.kind \in EntryKinds
    BY DEF EntryKinds
  <2> HIDE DEF entry
  <2>3. QED
    BY <2>1, <2>2
<1>4. CASE n \in Names(a) \cap Names(b)
  <2> DEFINE g == Field(b, n)
             f == Field(a, n)
  <2>1. g.name = n /\ f.name = n /\ WellFormedField(g) /\ WellFormedField(f)
    BY <1>4, FieldFound, FieldIsWellFormed
  <2>2. Validate(<< g >>, doc) # Validate(<< f >>, doc)
    BY <1>4 DEF FieldOutcome
  <2>3. DiffField(g, f) # {}
    <3> HIDE DEF g, f
    <3>1. QED
      BY <2>1, <2>2, OutcomesAgree
  <2>4. QED
    BY <1>4, <2>3, EntriesOfDiff
<1>5. QED
  BY <1>2, <1>3, <1>4

LEMMA RefusalIsExplained ==
  ASSUME NEW b, WellFormedSchema(b), NaNFree(b), NEW a, WellFormedSchema(a), NaNFree(a),
         NEW n \in Names(b) \cup Names(a),
         NEW doc, doc.kind = "map", WellFormedDocument(doc), Tidy(b, doc),
         FieldOutcome(b, n, doc) = "valid", FieldOutcome(a, n, doc) # "valid"
  PROVE  \E finding \in PrintedInFull(b, a) : finding.path[1] = n /\ finding.action
<1>1. SUFFICES \E entry \in Diff(b, a) : entry.field = n /\ IsBreaking(entry)
  BY BreakingIsPrinted
<1> DEFINE g == Field(b, n)
           f == Field(a, n)
<1>2. n \in Names(a) /\ f.name = n /\ WellFormedField(f) /\ NaNFreeField(f)
  BY FieldFound DEF FieldOutcome, WellFormedSchema, NaNFree
<1>3. Validate(<< f >>, doc) # "valid"
  BY <1>2 DEF FieldOutcome
<1>4. CASE n \notin Names(b)
  <2>1. ~Has(doc, n)
    BY <1>4 DEF Has, Tidy
  <2>2. f.required
    <3> HIDE DEF f
    <3>1. QED
      BY <1>2, <1>3, <2>1, OutcomeOfField, NoFieldIssues
  <2> DEFINE entry == [kind |-> "FieldAdded", field |-> n, required |-> f.required]
  <2>3. entry.field = n /\ IsBreaking(entry)
    BY <2>2 DEF IsBreaking
  <2>4. entry \in Diff(b, a)
    BY <1>2, <1>4, EntriesOfDiff
  <2> HIDE DEF entry
  <2>5. QED
    BY <2>3, <2>4
<1>5. CASE n \in Names(b)
  <2>1. g.name = n /\ WellFormedField(g) /\ NaNFreeField(g)
    BY <1>5, FieldFound DEF WellFormedSchema, NaNFree
  <2>2. Validate(<< g >>, doc) = "valid"
    BY <1>5 DEF FieldOutcome
  <2>3. \E entry \in DiffField(g, f) : IsBreaking(entry)
    <3> HIDE DEF g, f
    <3>1. FieldAccepts(g, doc) /\ ~FieldAccepts(f, doc)
      BY <1>3, <2>2, OutcomeOfField DEF FieldAccepts
    <3>2. ~FieldCompat(g, f)
      BY <1>2, <2>1, <3>1, CompatibleFieldReads
    <3>3. QED
      BY <1>2, <2>1, <3>2, FieldVerdict
  <2>4. n \in Names(a) \cap Names(b)
    BY <1>2, <1>5
  <2>5. \A entry \in DiffField(g, f) :
          entry \in Diff(b, a) /\ entry.field = n /\ entry.kind \in EntryKinds
    BY <2>4, EntriesOfDiff
  <2> HIDE DEF g, f
  <2>6. QED
    BY <2>3, <2>5
<1>6. QED
  BY <1>4, <1>5

(* Nothing that validate() would notice escapes the reader of the diff and *)
(* of the report (diff.rs:34-36, compatibility.rs:72-74), whatever the two *)
(* versions, as long as no bound is NaN.                                   *)
THEOREM EffectsAreShown ==
  ASSUME \A s \in Schemas : NaNFree(s)
  PROVE  Spec => []EveryEffectIsShown
<1>1. VersionsInv => EveryEffectIsShown
  <2> SUFFICES ASSUME VersionsInv, NEW after \in Schemas,
                      NEW name \in Names(current) \cup Names(after), NEW doc \in Maps
               PROVE  /\ FieldOutcome(current, name, doc) # FieldOutcome(after, name, doc) =>
                           \E section \in {"ADDED", "REMOVED", "CHANGED"} :
                             \E path \in PrintedDiff(current, after)[section] : path[1] = name
                      /\ /\ Tidy(current, doc)
                         /\ FieldOutcome(current, name, doc) = "valid"
                         /\ FieldOutcome(after, name, doc) # "valid"
                         => \E finding \in PrintedInFull(current, after) :
                              finding.path[1] = name /\ finding.action
    BY DEF EveryEffectIsShown
  <2>1. /\ WellFormedSchema(current) /\ NaNFree(current)
        /\ WellFormedSchema(after) /\ NaNFree(after)
        /\ doc.kind = "map" /\ WellFormedDocument(doc)
    BY SchemasAssumption, DocumentsAssumption DEF VersionsInv, Maps
  <2>2. QED
    BY <2>1, EffectIsListed, RefusalIsExplained
<1>2. QED
  BY <1>1, VersionsInvariant, PTL

-----------------------------------------------------------------------------
(* What the recursive functions of the model compute. *)

(* One step of ValueAt, and all of them. *)
StepTo(v, at) == IF "index" \in DOMAIN at THEN v.items[at.index] ELSE Get(v, at.key)

ReachedBy(k, doc, path, before) == IF k = 0 THEN doc ELSE StepTo(before, path[k])

AreReached(r, doc, path, n) == r = [k \in 0..n |-> ReachedBy(k, doc, path, r[k - 1])]

LEMMA ReachedExist ==
  ASSUME NEW doc, NEW path, NEW length \in Nat
  PROVE  \E r : AreReached(r, doc, path, length)
<1> DEFINE without == { n \in Nat : ~\E r : AreReached(r, doc, path, n) }
<1>1. SUFFICES ASSUME without # {} PROVE FALSE
  BY <1>1
<1>2. PICK n \in without : \A m \in without : n <= m
  <2>1. without \in SUBSET Nat
    OBVIOUS
  <2> HIDE DEF without
  <2>2. QED
    BY <1>1, <2>1, LeastOfNaturals
<1>3. CASE n = 0
  <2> DEFINE r == [k \in 0..0 |-> doc]
  <2>1. r = [k \in 0..0 |-> ReachedBy(k, doc, path, r[k - 1])]
    BY DEF ReachedBy
  <2>2. AreReached(r, doc, path, n)
    BY <1>3, <2>1 DEF AreReached
  <2>3. QED
    BY <2>2
<1>4. CASE n # 0
  <2>1. n - 1 \in Nat /\ n - 1 \notin without
    BY <1>2, <1>4
  <2>2. PICK r : AreReached(r, doc, path, n - 1)
    BY <2>1
  <2> DEFINE longer == [k \in 0..n |-> IF k = n THEN ReachedBy(n, doc, path, r[n - 1]) ELSE r[k]]
  <2>3. ASSUME NEW k \in 0..n PROVE longer[k] = ReachedBy(k, doc, path, longer[k - 1])
    <3>1. CASE k = n
      BY <1>4, <3>1
    <3>2. CASE k # n /\ k # 0
      <4>1. k \in 0..n - 1 /\ k - 1 \in 0..n - 1
        BY <3>2
      <4>2. r[k] = ReachedBy(k, doc, path, r[k - 1])
        BY <2>2, <4>1 DEF AreReached
      <4>3. longer[k] = r[k] /\ longer[k - 1] = r[k - 1]
        BY <3>2, <4>1
      <4>4. QED
        BY <4>2, <4>3
    <3>3. CASE k # n /\ k = 0
      <4>1. k \in 0..n - 1
        BY <3>3
      <4>2. r[k] = ReachedBy(k, doc, path, r[k - 1]) /\ longer[k] = r[k]
        BY <2>2, <3>3, <4>1 DEF AreReached
      <4>3. QED
        BY <3>3, <4>2 DEF ReachedBy
    <3>4. QED
      BY <3>1, <3>2, <3>3
  <2>4. AreReached(longer, doc, path, n)
    <3>1. DOMAIN longer = 0..n /\ longer = [k \in 0..n |-> longer[k]]
      OBVIOUS
    <3> HIDE DEF longer
    <3>2. QED
      BY <2>3, <3>1 DEF AreReached
  <2>5. QED
    BY <2>4
<1>5. QED
  BY <1>3, <1>4

LEMMA ReachedAgree ==
  ASSUME NEW doc, NEW m \in Nat, NEW n \in Nat, m <= n, NEW p, NEW q,
         \A k \in 1..m : p[k] = q[k],
         NEW l, AreReached(l, doc, p, m), NEW r, AreReached(r, doc, q, n)
  PROVE  \A k \in 0..m : l[k] = r[k]
<1> DEFINE apart == { k \in 0..m : l[k] # r[k] }
<1>1. SUFFICES ASSUME apart # {} PROVE FALSE
  BY <1>1
<1>2. PICK k \in apart : \A j \in apart : k <= j
  <2>1. apart \in SUBSET Nat
    OBVIOUS
  <2> HIDE DEF apart
  <2>2. QED
    BY <1>1, <2>1, LeastOfNaturals
<1>3. l[k] = ReachedBy(k, doc, p, l[k - 1]) /\ r[k] = ReachedBy(k, doc, q, r[k - 1])
  BY DEF AreReached
<1>4. CASE k = 0
  BY <1>3, <1>4 DEF ReachedBy
<1>5. CASE k # 0
  <2>1. k - 1 \in 0..m /\ k - 1 \notin apart /\ k \in 1..m
    BY <1>2, <1>5
  <2>2. l[k - 1] = r[k - 1] /\ p[k] = q[k]
    BY <2>1
  <2>3. QED
    BY <1>3, <1>5, <2>2 DEF ReachedBy
<1>6. QED
  BY <1>4, <1>5

(* ValueAt, step by step. *)
LEMMA ValueAtSteps ==
  ASSUME NEW doc, NEW S, NEW p \in Seq(S), NEW at \in S
  PROVE  /\ ValueAt(doc, << >>) = doc
         /\ ValueAt(doc, Append(p, at)) = StepTo(ValueAt(doc, p), at)
<1> DEFINE of(path) == CHOOSE r : AreReached(r, doc, path, Len(path))
           q == Append(p, at)
           n == Len(p)
<1>1. \A path : Len(path) \in Nat => AreReached(of(path), doc, path, Len(path))
  BY ReachedExist
<1>2. \A path : ValueAt(doc, path) = of(path)[Len(path)]
  BY DEF ValueAt, AreReached, ReachedBy, StepTo
<1>3. n \in Nat /\ Len(q) = n + 1 /\ q[n + 1] = at /\ \A k \in 1..n : p[k] = q[k]
  OBVIOUS
<1> HIDE DEF of
<1>4. ValueAt(doc, << >>) = doc
  <2>1. Len(<< >>) = 0
    OBVIOUS
  <2>2. AreReached(of(<< >>), doc, << >>, 0)
    BY <1>1, <2>1
  <2>3. of(<< >>)[0] = doc
    BY <2>2 DEF AreReached, ReachedBy
  <2>4. QED
    BY <1>2, <2>1, <2>3
<1>5. AreReached(of(p), doc, p, n) /\ AreReached(of(q), doc, q, n + 1)
  <2>1. Len(p) \in Nat /\ Len(q) \in Nat
    BY <1>3
  <2>2. AreReached(of(p), doc, p, Len(p)) /\ AreReached(of(q), doc, q, Len(q))
    <3> HIDE DEF q
    <3>1. QED
      BY <1>1, <2>1
  <2>3. QED
    BY <1>3, <2>2
<1> HIDE DEF q, n
<1>6. of(q)[n + 1] = StepTo(of(q)[n], at)
  <2>1. n + 1 \in 0..n + 1 /\ n + 1 # 0 /\ (n + 1) - 1 = n
    BY <1>3
  <2>2. of(q)[n + 1] = ReachedBy(n + 1, doc, q, of(q)[(n + 1) - 1])
    BY <1>5, <2>1 DEF AreReached
  <2>3. QED
    BY <1>3, <2>1, <2>2 DEF ReachedBy
<1>7. of(p)[n] = of(q)[n]
  <2>1. n \in 0..n /\ n <= n + 1 /\ n + 1 \in Nat
    BY <1>3
  <2>2. \A k \in 0..n : of(p)[k] = of(q)[k]
    <3> DEFINE x == of(p)
               y == of(q)
               m == n + 1
    <3>1. /\ AreReached(x, doc, p, n) /\ AreReached(y, doc, q, m)
          /\ n \in Nat /\ m \in Nat /\ n <= m /\ \A k \in 1..n : p[k] = q[k]
      BY <1>3, <1>5, <2>1
    <3> HIDE DEF x, y, m
    <3>2. \A k \in 0..n : x[k] = y[k]
      BY <3>1, ReachedAgree
    <3>3. QED
      BY <3>2 DEF x, y
  <2>3. QED
    BY <2>1, <2>2
<1>8. QED
  BY <1>2, <1>3, <1>4, <1>6, <1>7 DEF q, n

-----------------------------------------------------------------------------
(* Where the paths of type issues lead. *)

(* A value met at level k of a field has a path of that length, and lies   *)
(* where the path leads.                                                   *)
Located(doc, name, node, k) ==
  /\ \E S : node.path \in Seq(S)
  /\ Len(node.path) = k /\ node.path[1] = [key |-> name]
  /\ node.value \in AtDepth(doc, k)
  /\ PathIsUnique(doc, node.path) => ValueAt(doc, node.path) = node.value

LEMMA ValueAtTop ==
  ASSUME NEW doc, NEW key
  PROVE  ValueAt(doc, << [key |-> key] >>) = Get(doc, key)
<1> DEFINE at == [key |-> key]
           none == << >>
<1>1. none \in Seq({at}) /\ at \in {at} /\ << at >> = Append(none, at)
  OBVIOUS
<1>2. "index" \notin DOMAIN at /\ at.key = key
  OBVIOUS
<1>3. ValueAt(doc, none) = doc
  BY <1>1, ValueAtSteps
<1> HIDE DEF at, none
<1>4. ValueAt(doc, Append(none, at)) = StepTo(ValueAt(doc, none), at)
  BY <1>1, ValueAtSteps
<1>5. ValueAt(doc, << at >>) = Get(doc, key)
  BY <1>1, <1>2, <1>3, <1>4 DEF StepTo
<1>6. QED
  BY <1>5 DEF at

(* The path segment of an element leads to it. *)
LEMMA ElementIsFound ==
  ASSUME NEW v, WellFormedValue(v), KeysAreUnique(v), NEW e \in Elements(v)
  PROVE  StepTo(v, e.at) = e.value
<1>1. CASE v.kind = "list"
  <2>1. PICK i \in DOMAIN v.items : e = [at |-> [index |-> i], value |-> v.items[i]]
    BY <1>1 DEF Elements
  <2>2. "index" \in DOMAIN e.at /\ e.at.index = i
    BY <2>1
  <2>3. QED
    BY <2>1, <2>2 DEF StepTo
<1>2. CASE v.kind = "map"
  <2>1. PICK x \in Range(v.entries) : e = [at |-> [key |-> x.key], value |-> x.value]
    BY <1>2 DEF Elements
  <2>2. PICK i \in DOMAIN v.entries : x = v.entries[i]
    BY DEF Range
  <2>3. "index" \notin DOMAIN e.at /\ e.at.key = x.key
    BY <2>1
  <2>4. \A j \in DOMAIN v.entries : v.entries[j].key = x.key => j = i
    BY <1>2, <2>2 DEF KeysAreUnique
  <2>5. i \in Nat
    BY <1>2 DEF WellFormedValue, IsASequence
  <2> DEFINE first(j) == /\ v.entries[j].key = x.key
                         /\ \A h \in DOMAIN v.entries : v.entries[h].key = x.key => j <= h
  <2>6. first(i)
    BY <2>2, <2>4, <2>5
  <2>7. (CHOOSE j \in DOMAIN v.entries : first(j)) = i
    BY <2>4, <2>6
  <2>8. Get(v, x.key) = x.value
    BY <2>2, <2>7 DEF Get
  <2>9. QED
    BY <2>1, <2>3, <2>8 DEF StepTo
<1>3. QED
  BY <1>1, <1>2 DEF Elements

LEMMA LocatedBelow ==
  ASSUME NEW doc, NEW name, NEW k \in Nat, k > 0, NEW node, Located(doc, name, node, k),
         WellFormedValue(node.value), NEW lower \in ElementsOf(node)
  PROVE  Located(doc, name, lower, k + 1)
<1> DEFINE p == node.path
           q == lower.path
<1>1. PICK e \in Elements(node.value) : lower = [path |-> Extended(p, e.at), value |-> e.value]
  BY DEF ElementsOf
<1>2. q = Append(p, e.at) /\ lower.value = e.value
  BY <1>1 DEF Extended
<1>3. PICK S : p \in Seq(S)
  BY DEF Located
<1> DEFINE T == S \cup {e.at}
<1>4. p \in Seq(T) /\ e.at \in T
  BY <1>3, SeqMonotonic
<1>5. Len(p) = k /\ p[1] = [key |-> name] /\ node.value \in AtDepth(doc, k)
  BY DEF Located
<1> HIDE DEF p, q, T
<1>6. q \in Seq(T) /\ Len(q) = k + 1 /\ q[1] = [key |-> name]
  BY <1>2, <1>4, <1>5
<1>7. lower.value \in AtDepth(doc, k + 1)
  BY <1>2, <1>5, AtDepthSteps DEF Children
<1>8. ASSUME PathIsUnique(doc, q) PROVE ValueAt(doc, q) = lower.value
  <2>1. \A j \in 1..k : SubSeq(q, 1, j) = SubSeq(p, 1, j)
    <3>1. ASSUME NEW j \in 1..k PROVE SubSeq(q, 1, j) = SubSeq(p, 1, j)
      <4>1. \A i \in 1..j : q[i] = p[i] /\ p[i] \in T /\ q[i] \in T
        BY <1>2, <1>4, <1>5
      <4>2. /\ SubSeq(q, 1, j) \in Seq(T) /\ Len(SubSeq(q, 1, j)) = j
            /\ \A i \in 1..j : SubSeq(q, 1, j)[i] = q[i]
        BY <4>1, SubSeqProperties
      <4>3. /\ SubSeq(p, 1, j) \in Seq(T) /\ Len(SubSeq(p, 1, j)) = j
            /\ \A i \in 1..j : SubSeq(p, 1, j)[i] = p[i]
        BY <4>1, SubSeqProperties
      <4>4. QED
        BY <4>1, <4>2, <4>3, SeqEqual
    <3>2. QED
      BY <3>1
  <2>2. SubSeq(p, 1, k) = p
    BY <1>4, <1>5, SubSeqFull
  <2>3. \A j \in 1..k : KeysAreUnique(ValueAt(doc, SubSeq(p, 1, j)))
    <3>1. (k + 1) - 1 = k
      OBVIOUS
    <3>2. \A j \in 1..k : KeysAreUnique(ValueAt(doc, SubSeq(q, 1, j)))
      BY <1>6, <1>8, <3>1 DEF PathIsUnique
    <3>3. QED
      BY <2>1, <3>2
  <2>4. PathIsUnique(doc, p)
    <3>1. 1..k - 1 \subseteq 1..k
      OBVIOUS
    <3>2. QED
      BY <1>5, <2>3, <3>1 DEF PathIsUnique
  <2>5. ValueAt(doc, p) = node.value
    BY <2>4 DEF Located, p
  <2>6. KeysAreUnique(node.value)
    <3>1. k \in 1..k
      OBVIOUS
    <3>2. QED
      BY <2>2, <2>3, <2>5, <3>1
  <2>7. StepTo(node.value, e.at) = e.value
    BY <2>6, ElementIsFound
  <2>8. ValueAt(doc, q) = StepTo(ValueAt(doc, p), e.at)
    BY <1>2, <1>4, ValueAtSteps
  <2>9. QED
    BY <1>2, <2>5, <2>7, <2>8
<1>9. QED
  BY <1>6, <1>7, <1>8 DEF Located, q

LEMMA NodesAreLocated ==
  ASSUME NEW doc, doc.kind = "map", WellFormedDocument(doc),
         NEW f, WellFormedField(f), Has(doc, f.name),
         \A v \in Nested(doc, Len(f.ty)) : WellFormedValue(v),
         NEW cs, NEW l, AreLevels(l, cs, Len(f.ty), Get(doc, f.name), << [key |-> f.name] >>)
  PROVE  \A k \in 1..Len(f.ty) : \A node \in l[k] : Located(doc, f.name, node, k)
<1> DEFINE n == Len(f.ty)
           lost == { k \in 1..n : \E node \in l[k] : ~Located(doc, f.name, node, k) }
           v == Get(doc, f.name)
           path == << [key |-> f.name] >>
<1>1. n \in Nat
  BY DEF WellFormedField, WellFormedType, IsASequence
<1>2. SUFFICES ASSUME lost # {} PROVE FALSE
  BY <1>2
<1>3. PICK k \in lost : \A j \in lost : k <= j
  <2>1. lost \in SUBSET Nat
    OBVIOUS
  <2> HIDE DEF lost
  <2>2. QED
    BY <1>2, <2>1, LeastOfNaturals
<1>4. PICK node \in l[k] : ~Located(doc, f.name, node, k)
  BY DEF lost
<1>5. l[k] = LowerLevel(cs, k, v, path, l[k - 1])
  BY DEF AreLevels
<1>6. CASE k = 1
  <2>1. node = [path |-> path, value |-> v]
    BY <1>4, <1>5, <1>6 DEF LowerLevel
  <2>2. path \in Seq({[key |-> f.name]}) /\ Len(path) = 1 /\ path[1] = [key |-> f.name]
    OBVIOUS
  <2>3. v \in AtDepth(doc, 1)
    <3>1. PICK i \in DOMAIN doc.entries : doc.entries[i].key = f.name /\ v = doc.entries[i].value
      BY GetFindsEntry
    <3>2. doc.entries[i] \in Range(doc.entries)
      BY DEF Range
    <3>3. [at |-> [key |-> doc.entries[i].key], value |-> doc.entries[i].value] \in Elements(doc)
      BY <3>2 DEF Elements
    <3>4. v \in Children(doc)
      BY <3>1, <3>3 DEF Children
    <3>5. 0 + 1 = 1 /\ 0 \in Nat
      OBVIOUS
    <3>6. AtDepth(doc, 1) = UNION { Children(w) : w \in {doc} }
      BY <3>5, AtDepthSteps
    <3>7. QED
      BY <3>4, <3>6
  <2>4. ValueAt(doc, path) = v
    BY ValueAtTop
  <2>5. \E S : path \in Seq(S)
    BY <2>2
  <2> HIDE DEF path, v
  <2>6. Located(doc, f.name, node, 1)
    BY <2>1, <2>2, <2>3, <2>4, <2>5 DEF Located
  <2>7. QED
    BY <1>4, <1>6, <2>6
<1>7. CASE k # 1
  <2>1. k - 1 \in 1..n /\ k - 1 \in Nat /\ k - 1 > 0 /\ (k - 1) + 1 = k
    BY <1>1, <1>7
  <2>2. PICK upper \in l[k - 1] : node \in ElementsOf(upper)
    BY <1>4, <1>5, <1>7 DEF LowerLevel
  <2>3. k - 1 \notin lost
    BY <1>3, <2>1
  <2>4. Located(doc, f.name, upper, k - 1)
    BY <2>1, <2>3
  <2>5. WellFormedValue(upper.value)
    <3>1. upper.value \in AtDepth(doc, k - 1) /\ k - 1 \in 0..n
      BY <2>1, <2>4 DEF Located
    <3>2. upper.value \in Nested(doc, n)
      BY <3>1 DEF Nested
    <3>3. QED
      BY <3>2
  <2>6. Located(doc, f.name, node, (k - 1) + 1)
    BY <2>1, <2>2, <2>4, <2>5, LocatedBelow
  <2>7. QED
    BY <1>4, <2>1, <2>6
<1>8. QED
  BY <1>6, <1>7

(* result.rs:9-10: an issue is located by its path, for any schemas,       *)
(* documents nested as deeply as the types, and any constraints.           *)
THEOREM IssuesAreLocated == Spec => []IssuesLocateFaults
<1>1. VersionsInv => IssuesLocateFaults
  <2> SUFFICES ASSUME VersionsInv, NEW doc \in Maps, NEW issue \in Issues(current, doc),
                      PathIsUnique(doc, issue.path)
               PROVE  LET path == issue.path
                          f    == Field(current, path[1].key)
                      IN  CASE issue.code = "missing" -> Len(path) = 1 /\ ~Has(doc, f.name)
                            [] issue.code = "type" ->
                                 ~KindFits(f.ty[Len(path)].of, ValueAt(doc, path))
                            [] OTHER -> \E c \in Range(f.constraints) :
                                 c.kind = issue.code /\ ~Satisfied(c, ValueAt(doc, path))
    BY DEF IssuesLocateFaults
  <2> DEFINE path == issue.path
  <2>1. /\ WellFormedSchema(current) /\ doc.kind = "map" /\ WellFormedDocument(doc)
        /\ \A f \in Range(current) : \A v \in Nested(doc, Len(f.ty)) : WellFormedValue(v)
    BY SchemasAssumption, DocumentsAssumption DEF VersionsInv, Maps
  <2>2. PICK f \in Range(current) : issue \in FieldIssues(f, doc)
    BY <2>1 DEF Issues
  <2>3. WellFormedField(f) /\ Field(current, f.name) = f
    BY <2>1, FieldFound DEF WellFormedSchema
  <2> DEFINE top == << [key |-> f.name] >>
             v   == Get(doc, f.name)
  <2>4. Len(top) = 1 /\ top[1].key = f.name
    OBVIOUS
  <2>5. CASE ~Has(doc, f.name)
    <3>1. issue = Issue(top, "missing")
      BY <2>2, <2>5 DEF FieldIssues
    <3>2. path = top /\ issue.code = "missing"
      BY <3>1 DEF Issue
    <3> HIDE DEF top
    <3>3. QED
      BY <2>3, <2>4, <2>5, <3>2
  <2>6. CASE Has(doc, f.name) /\ issue \in TypeIssues(f.ty, v, top)
    <3>1. IsASequence(f.ty)
      BY <2>3 DEF WellFormedField, WellFormedType
    <3>2. PICK l : /\ AreLevels(l, [ k \in DOMAIN f.ty |-> f.ty[k].of ], Len(f.ty), v, top)
                   /\ TypeIssues(f.ty, v, top) =
                        UNION { { Issue(node.path, "type") :
                                    node \in { m \in l[k] : ~KindFits(f.ty[k].of, m.value) } } :
                                k \in 1..Len(f.ty) }
      BY <3>1, TypeIssuesByLevel DEF IsASequence
    <3>3. PICK k \in 1..Len(f.ty) : \E m \in l[k] :
            ~KindFits(f.ty[k].of, m.value) /\ issue = Issue(m.path, "type")
      BY <2>6, <3>2
    <3>4. PICK m \in l[k] : ~KindFits(f.ty[k].of, m.value) /\ issue = Issue(m.path, "type")
      BY <3>3
    <3>5. Located(doc, f.name, m, k)
      BY <2>1, <2>3, <2>6, <3>2, NodesAreLocated
    <3>6. path = m.path /\ issue.code = "type"
      BY <3>4 DEF Issue
    <3>7. Len(path) = k /\ path[1].key = f.name /\ ValueAt(doc, path) = m.value
      BY <3>5, <3>6 DEF Located
    <3> HIDE DEF path
    <3>8. QED
      BY <2>3, <3>4, <3>6, <3>7 DEF path
  <2>7. CASE Has(doc, f.name) /\ issue \notin TypeIssues(f.ty, v, top)
    <3>1. PICK c \in Range(f.constraints) : ~Satisfied(c, v) /\ issue = Issue(top, c.kind)
      BY <2>2, <2>7 DEF FieldIssues
    <3>2. path = top /\ issue.code = c.kind
      BY <3>1 DEF Issue
    <3>3. c.kind \in {"range", "length", "nonempty", "pattern", "custom"}
      BY <2>3 DEF WellFormedField, WellFormedConstraint
    <3>4. ValueAt(doc, top) = v
      BY ValueAtTop
    <3> HIDE DEF top, v
    <3>5. QED
      BY <2>3, <2>4, <3>1, <3>2, <3>3, <3>4
  <2>8. QED
    BY <2>5, <2>6, <2>7
<1>2. QED
  BY <1>1, VersionsInvariant, PTL

-----------------------------------------------------------------------------
(* A changed type rejects what the old one accepted. *)

(* Two types that differ, differ at a level both have: where one ends, the *)
(* other would have to go on.                                              *)
LEMMA TypesDifferAtLevel ==
  ASSUME NEW b, WellFormedType(b), NEW a, WellFormedType(a), ~TypesEqualIgnoringMapKeys(b, a)
  PROVE  \E d \in Nat :
           /\ d \in 1..Len(b) /\ d \in 1..Len(a) /\ b[d].of # a[d].of
           /\ \A k \in 1..d - 1 : b[k].of = a[k].of
<1> DEFINE m == Len(b)
           n == Len(a)
           differ == { k \in (1..m) \cap (1..n) : b[k].of # a[k].of }
<1>1. /\ m \in Nat /\ m > 0 /\ DOMAIN b = 1..m
      /\ n \in Nat /\ n > 0 /\ DOMAIN a = 1..n
  BY DEF WellFormedType, IsASequence
<1>2. /\ \A k \in 1..m : b[k].of \in {"list", "map"} <=> k < m
      /\ \A k \in 1..n : a[k].of \in {"list", "map"} <=> k < n
  BY <1>1 DEF WellFormedType
<1>3. differ # {}
  <2>1. m # n \/ \E k \in 1..m : b[k].of # a[k].of
    BY <1>1 DEF TypesEqualIgnoringMapKeys
  <2> HIDE DEF m, n
  <2>2. CASE m < n
    <3>1. m \in (1..m) \cap (1..n)
      BY <1>1, <2>2
    <3>2. b[m].of \notin {"list", "map"} /\ a[m].of \in {"list", "map"}
      BY <1>1, <1>2, <2>2, <3>1
    <3>3. QED
      BY <3>1, <3>2
  <2>3. CASE n < m
    <3>1. n \in (1..m) \cap (1..n)
      BY <1>1, <2>3
    <3>2. a[n].of \notin {"list", "map"} /\ b[n].of \in {"list", "map"}
      BY <1>1, <1>2, <2>3, <3>1
    <3>3. QED
      BY <3>1, <3>2
  <2>4. CASE m = n
    BY <2>1, <2>4
  <2>5. QED
    BY <1>1, <2>2, <2>3, <2>4
<1>4. PICK d \in differ : \A k \in differ : d <= k
  <2>1. differ \in SUBSET Nat
    OBVIOUS
  <2> HIDE DEF differ
  <2>2. QED
    BY <1>3, <2>1, LeastOfNaturals
<1>5. d \in Nat /\ d \in 1..m /\ d \in 1..n /\ b[d].of # a[d].of
  OBVIOUS
<1>6. ASSUME NEW k \in 1..d - 1 PROVE b[k].of = a[k].of
  <2>1. k \in Nat /\ k < d
    BY <1>5
  <2>2. k \in (1..m) \cap (1..n)
    BY <1>1, <1>5, <2>1
  <2>3. k \notin differ
    BY <1>4, <1>5, <2>1
  <2>4. QED
    BY <2>2, <2>3
<1>7. QED
  BY <1>5, <1>6

(* Up to there, both see the same values. *)
LEMMA LevelsAgree ==
  \A cs, ds, v, path, l, r : \A m, n, d \in Nat :
    /\ AreLevels(l, cs, m, v, path) /\ AreLevels(r, ds, n, v, path)
    /\ d > 0 /\ d <= m /\ d <= n
    /\ \A k \in 1..d - 1 : cs[k] = ds[k]
    => l[d] = r[d]
<1>0. SUFFICES ASSUME NEW cs, NEW ds, NEW v, NEW path, NEW l, NEW r,
                      NEW m \in Nat, NEW n \in Nat, NEW d \in Nat,
                      AreLevels(l, cs, m, v, path), AreLevels(r, ds, n, v, path),
                      d > 0, d <= m, d <= n, \A k \in 1..d - 1 : cs[k] = ds[k]
               PROVE  l[d] = r[d]
  OBVIOUS
<1> DEFINE apart == { k \in 1..d : l[k] # r[k] }
<1>1. SUFFICES ASSUME apart # {} PROVE FALSE
  <2>1. d \in 1..d
    BY <1>0
  <2>2. QED
    BY <1>1, <2>1
<1>2. PICK k \in apart : \A j \in apart : k <= j
  <2>1. apart \in SUBSET Nat
    OBVIOUS
  <2> HIDE DEF apart
  <2>2. QED
    BY <1>1, <2>1, LeastOfNaturals
<1>3. k \in 1..m /\ k \in 1..n /\ k \in 1..d
  BY <1>0
<1>4. /\ l[k] = LowerLevel(cs, k, v, path, l[k - 1])
      /\ r[k] = LowerLevel(ds, k, v, path, r[k - 1])
  BY <1>0, <1>3 DEF AreLevels
<1>5. CASE k = 1
  BY <1>4, <1>5 DEF LowerLevel
<1>6. CASE k # 1
  <2>1. k - 1 \in 1..d - 1 /\ k - 1 \in 1..d /\ k - 1 < k
    BY <1>3, <1>6
  <2>2. k - 1 \notin apart
    BY <1>2, <1>3, <2>1
  <2>3. l[k - 1] = r[k - 1] /\ cs[k - 1] = ds[k - 1]
    BY <1>0, <2>1, <2>2
  <2>4. QED
    BY <1>4, <1>6, <2>3 DEF LowerLevel, FitsAt
<1>7. QED
  BY <1>5, <1>6

(* A solid value has a value at every level of a type that it fits. *)
LEMMA SolidReachesLevels ==
  ASSUME NEW b, WellFormedType(b), NEW v, Solid(v, b), NEW path, NEW cs,
         NEW l, AreLevels(l, cs, Len(b), v, path),
         \A k \in 1..Len(b) : cs[k] = b[k].of,
         \A k \in 1..Len(b) : \A m \in l[k] : KindFits(b[k].of, m.value)
  PROVE  \A k \in 1..Len(b) : l[k] # {} /\ \A m \in l[k] : m.value \in Nested(v, Len(b))
<1> DEFINE n == Len(b)
           good(k) == l[k] # {} /\ \A m \in l[k] : m.value \in AtDepth(v, k - 1)
           bad == { k \in 1..n : ~good(k) }
<1>1. n \in Nat
  BY DEF WellFormedType, IsASequence
<1>2. ASSUME NEW k \in Nat, k < n, NEW w \in AtDepth(v, k) PROVE w \in Nested(v, n)
  <2>1. k \in 0..n
    BY <1>1, <1>2
  <2>2. QED
    BY <2>1 DEF Nested
<1>3. bad = {}
  <2>1. SUFFICES ASSUME bad # {} PROVE FALSE
    BY <2>1
  <2>2. PICK k \in bad : \A j \in bad : k <= j
    <3>1. bad \in SUBSET Nat
      OBVIOUS
    <3> HIDE DEF bad
    <3>2. QED
      BY <2>1, <3>1, LeastOfNaturals
  <2>3. k \in 1..n /\ ~good(k)
    OBVIOUS
  <2>4. l[k] = LowerLevel(cs, k, v, path, l[k - 1])
    BY <2>3 DEF AreLevels
  <2>5. CASE k = 1
    <3>1. l[k] = {[path |-> path, value |-> v]}
      BY <2>4, <2>5 DEF LowerLevel
    <3>2. AtDepth(v, k - 1) = {v}
      <4>1. 0 \in Nat /\ k - 1 = 0
        BY <2>5
      <4>2. QED
        BY <4>1, AtDepthSteps
    <3>3. good(k)
      BY <3>1, <3>2
    <3>4. QED
      BY <2>3, <3>3
  <2>6. CASE k # 1
    <3>1. k - 1 \in 1..n /\ k - 1 < k /\ k - 1 < n /\ k - 2 \in Nat /\ (k - 2) + 1 = k - 1
          /\ k - 2 < n /\ (k - 1) - 1 = k - 2
      BY <1>1, <2>3, <2>6
    <3>2. good(k - 1)
      BY <2>2, <2>3, <3>1
    <3>3. \A m \in l[k - 1] : FitsAt(cs, k - 1, m)
      BY <3>1 DEF FitsAt
    <3>4. l[k] = UNION { ElementsOf(m) : m \in l[k - 1] }
      BY <2>4, <2>6, <3>3 DEF LowerLevel
    <3>5. \A m \in l[k] : m.value \in AtDepth(v, k - 1)
      <4>1. ASSUME NEW m \in l[k] PROVE m.value \in AtDepth(v, k - 1)
        <5>1. PICK u \in l[k - 1] : m \in ElementsOf(u)
          BY <3>4
        <5>2. u.value \in AtDepth(v, k - 2)
          BY <3>1, <3>2
        <5>3. m.value \in Children(u.value)
          BY <5>1 DEF ElementsOf, Children
        <5>4. AtDepth(v, (k - 2) + 1) = UNION { Children(w) : w \in AtDepth(v, k - 2) }
          BY <3>1, AtDepthSteps
        <5>5. QED
          BY <3>1, <5>2, <5>3, <5>4
      <4>2. QED
        BY <4>1
    <3>6. l[k] # {}
      <4>1. PICK u \in l[k - 1] : u.value \in AtDepth(v, k - 2)
        BY <3>1, <3>2
      <4>2. KindFits(b[k - 1].of, u.value) /\ b[k - 1].of \in {"list", "map"}
        <5>1. k - 1 \in DOMAIN b
          BY <3>1 DEF WellFormedType, IsASequence
        <5>2. QED
          BY <3>1, <5>1 DEF WellFormedType
      <4>3. u.value.kind \in {"list", "map"}
        BY <4>2 DEF KindFits
      <4>4. u.value \in Nested(v, n)
        BY <1>2, <3>1, <4>1
      <4>5. Children(u.value) # {}
        BY <4>3, <4>4 DEF Solid
      <4>6. ElementsOf(u) # {}
        BY <4>5 DEF Children, ElementsOf
      <4>7. QED
        BY <3>4, <4>6
    <3>7. QED
      BY <2>3, <3>5, <3>6
  <2>7. QED
    BY <2>5, <2>6
<1>4. ASSUME NEW k \in 1..n PROVE l[k] # {} /\ \A m \in l[k] : m.value \in Nested(v, n)
  <2>1. good(k)
    BY <1>3
  <2>2. k - 1 \in Nat /\ k - 1 < n
    BY <1>1
  <2>3. QED
    BY <1>2, <2>1, <2>2
<1>5. QED
  BY <1>4

LEMMA NewTypeRejects ==
  ASSUME NEW b, WellFormedType(b), NEW a, WellFormedType(a), ~TypesEqualIgnoringMapKeys(b, a),
         NEW v, Solid(v, b), NEW path, TypeIssues(b, v, path) = {}
  PROVE  TypeIssues(a, v, path) # {}
<1> DEFINE cs == [ k \in DOMAIN b |-> b[k].of ]
           ds == [ k \in DOMAIN a |-> a[k].of ]
           m == Len(b)
           n == Len(a)
           wrong(ty, l, k) == { Issue(x.path, "type") :
                                  x \in { y \in l[k] : ~KindFits(ty[k].of, y.value) } }
<1>1. m \in Nat /\ DOMAIN b = 1..m /\ n \in Nat /\ DOMAIN a = 1..n /\ IsASequence(b) /\ IsASequence(a)
  BY DEF WellFormedType, IsASequence
<1>2. PICK d \in Nat : /\ d \in 1..m /\ d \in 1..n /\ b[d].of # a[d].of
                       /\ \A k \in 1..d - 1 : b[k].of = a[k].of
  BY TypesDifferAtLevel
<1>3. PICK l : /\ AreLevels(l, cs, m, v, path)
               /\ TypeIssues(b, v, path) = UNION { wrong(b, l, k) : k \in 1..m }
  BY <1>1, TypeIssuesByLevel DEF IsASequence
<1>4. PICK r : /\ AreLevels(r, ds, n, v, path)
               /\ TypeIssues(a, v, path) = UNION { wrong(a, r, k) : k \in 1..n }
  BY <1>1, TypeIssuesByLevel DEF IsASequence
<1>5. \A k \in 1..m : cs[k] = b[k].of
  BY <1>1
<1>6. \A k \in 1..n : ds[k] = a[k].of
  BY <1>1
<1>7. \A k \in 1..m : \A x \in l[k] : KindFits(b[k].of, x.value)
  <2>1. \A k \in 1..m : wrong(b, l, k) = {}
    <3> HIDE DEF wrong
    <3>1. QED
      BY <1>3
  <2>2. QED
    BY <2>1
<1> HIDE DEF cs, ds
<1>8. l[d] # {} /\ \A x \in l[d] : x.value \in Nested(v, m)
  BY <1>2, <1>3, <1>5, <1>7, SolidReachesLevels
<1>9. PICK x \in l[d] : x.value \in Nested(v, m)
  BY <1>8
<1>10. KindFits(b[d].of, x.value)
  BY <1>2, <1>7
<1>11. ~KindFits(a[d].of, x.value)
  <2>1. x.value.kind = "string" => x.value.form # "timestamp"
    BY <1>9 DEF Solid
  <2>2. QED
    BY <1>2, <1>10, <2>1 DEF KindFits
<1>12. l[d] = r[d]
  <2>1. ASSUME NEW k \in 1..d - 1 PROVE cs[k] = ds[k]
    <3>1. k \in 1..m /\ k \in 1..n
      BY <1>1, <1>2
    <3>2. QED
      BY <1>2, <1>5, <1>6, <3>1
  <2>2. AreLevels(l, cs, m, v, path) /\ AreLevels(r, ds, n, v, path)
    BY <1>3, <1>4
  <2>3. d > 0 /\ d <= m /\ d <= n /\ m \in Nat /\ n \in Nat
    BY <1>1, <1>2
  <2> HIDE DEF m, n
  <2>4. QED
    BY <2>1, <2>2, <2>3, LevelsAgree
<1>13. Issue(x.path, "type") \in wrong(a, r, d)
  BY <1>9, <1>11, <1>12
<1> HIDE DEF wrong
<1>14. QED
  BY <1>2, <1>4, <1>13

-----------------------------------------------------------------------------
(* What describe() says of an entry is what validate() does. *)

(* The entries between two versions of a field. *)
LEMMA EntryShapes ==
  ASSUME NEW g, NEW f, NEW e \in DiffField(g, f)
  PROVE  /\ e.kind \in { "TypeChanged", "RequiredChanged", "ConstraintAdded",
                         "ConstraintRemoved", "ConstraintChanged", "DescriptionChanged" }
         /\ e.kind = "TypeChanged" => ~TypesEqualIgnoringMapKeys(g.ty, f.ty)
         /\ e.kind = "RequiredChanged" => e.required = f.required
         /\ e.kind = "ConstraintAdded" =>
              \/ e.constraint.kind \in {"range", "length"}
              \/ e.constraint \in Range(f.constraints) /\ e.constraint.kind \in WholeKinds
<1> DEFINE n == f.name
           listed(kind) == DiffEnvelope(n, kind, g.constraints, f.constraints)
           whole == DiffWhole(n, WholeKinds, g.constraints, f.constraints)
           goal == /\ e.kind \in { "TypeChanged", "RequiredChanged", "ConstraintAdded",
                                   "ConstraintRemoved", "ConstraintChanged", "DescriptionChanged" }
                   /\ e.kind = "TypeChanged" => ~TypesEqualIgnoringMapKeys(g.ty, f.ty)
                   /\ e.kind = "RequiredChanged" => e.required = f.required
                   /\ e.kind = "ConstraintAdded" =>
                        \/ e.constraint.kind \in {"range", "length"}
                        \/ e.constraint \in Range(f.constraints) /\ e.constraint.kind \in WholeKinds
<1>1. \/ e = [kind |-> "TypeChanged", field |-> n] /\ ~TypesEqualIgnoringMapKeys(g.ty, f.ty)
      \/ e = [kind |-> "RequiredChanged", field |-> n, required |-> f.required]
      \/ e = [kind |-> "DescriptionChanged", field |-> n]
      \/ e \in listed("range") \/ e \in listed("length") \/ e \in whole
  BY DEF DiffField, WholeKinds
<1>2. CASE \/ e = [kind |-> "TypeChanged", field |-> n] /\ ~TypesEqualIgnoringMapKeys(g.ty, f.ty)
           \/ e = [kind |-> "RequiredChanged", field |-> n, required |-> f.required]
           \/ e = [kind |-> "DescriptionChanged", field |-> n]
  BY <1>2
<1>3. ASSUME NEW kind \in {"range", "length"}, e \in listed(kind) PROVE goal
  <2>1. \/ \E side \in Sides : e.kind = "ConstraintChanged"
        \/ e = Added(n, Envelope(f.constraints, kind))
        \/ e = Removed(n, Envelope(g.constraints, kind))
    BY <1>3 DEF DiffEnvelope, Moved
  <2>2. Envelope(f.constraints, kind).kind = kind
    BY DEF Envelope
  <2>3. QED
    BY <2>1, <2>2 DEF Added, Removed
<1>4. CASE e \in whole
  <2>1. \/ \E c \in Range(f.constraints) : c.kind \in WholeKinds /\ e = Added(n, c)
        \/ \E c \in Range(g.constraints) : e = Removed(n, c)
    BY <1>4 DEF DiffWhole
  <2>2. QED
    BY <2>1 DEF Added, Removed
<1>5. QED
  BY <1>1, <1>2, <1>3, <1>4

(* constraint_added_text and the rest of describe(), text by text. *)
Foretold(e, f) ==
  \/ e.kind = "TypeChanged" /\ ImpactOf(e) = "old type rejected"
  \/ e.kind = "RequiredChanged" /\ f.required /\ ImpactOf(e) = "fails without the field"
  \/ e.kind = "RequiredChanged" /\ ~f.required /\ ImpactOf(e) = "stays valid"
  \/ /\ e.kind = "ConstraintAdded" /\ e.constraint.kind \in {"range", "length"}
     /\ ImpactOf(e) = "values may be rejected"
  \/ /\ e.kind = "ConstraintAdded" /\ e.constraint \in Range(f.constraints)
     /\ e.constraint.kind = "nonempty" /\ ImpactOf(e) = "empty values rejected"
  \/ /\ e.kind = "ConstraintAdded" /\ e.constraint \in Range(f.constraints)
     /\ e.constraint.kind = "pattern" /\ e.constraint.grammar = "identifier"
     /\ ImpactOf(e) = "other text rejected"
  \/ /\ e.kind = "ConstraintAdded" /\ e.constraint \in Range(f.constraints)
     /\ e.constraint.kind = "pattern" /\ e.constraint.grammar # "identifier"
     /\ ImpactOf(e) = "validation fails"
  \/ /\ e.kind = "ConstraintAdded" /\ e.constraint.kind = "custom"
     /\ ImpactOf(e) = "no outcome changes"
  \/ e.kind = "ConstraintRemoved" /\ ImpactOf(e) = "only widens"
  \/ e.kind = "ConstraintChanged" /\ ImpactOf(e) = "values may be rejected"
  \/ e.kind = "DescriptionChanged" /\ ImpactOf(e) = "cosmetic"

LEMMA ImpactByKind ==
  ASSUME NEW g, NEW f, f.required \in BOOLEAN, NEW e \in DiffField(g, f)
  PROVE  Foretold(e, f)
<1>1. CASE e.kind = "ConstraintAdded"
  <2>1. ImpactOf(e) = ImpactOfAdded(e.constraint)
    BY <1>1 DEF ImpactOf
  <2>2. \/ e.constraint.kind \in {"range", "length"}
        \/ e.constraint \in Range(f.constraints) /\ e.constraint.kind \in WholeKinds
    BY <1>1, EntryShapes
  <2>3. CASE e.constraint.kind \in {"range", "length"}
    BY <1>1, <2>1, <2>3 DEF ImpactOfAdded, Foretold
  <2>4. CASE e.constraint \in Range(f.constraints) /\ e.constraint.kind \in WholeKinds
    BY <1>1, <2>1, <2>4 DEF ImpactOfAdded, WholeKinds, Foretold
  <2>5. QED
    BY <2>2, <2>3, <2>4
<1>2. CASE e.kind = "RequiredChanged"
  <2>1. e.required = f.required
    BY <1>2, EntryShapes
  <2>2. IsBreaking(e) = f.required
    BY <1>2, <2>1 DEF IsBreaking
  <2>3. QED
    BY <1>2, <2>2 DEF ImpactOf, ClassifyLevel, Foretold
<1>3. CASE e.kind \in {"TypeChanged", "ConstraintRemoved", "ConstraintChanged", "DescriptionChanged"}
  BY <1>3 DEF ImpactOf, Foretold
<1>4. QED
  BY <1>1, <1>2, <1>3, EntryShapes

(* A field both versions have, whose entries all say the same. *)
LEMMA ImpactOnField ==
  ASSUME WellFormedSchema(current), NEW n \in Names(current),
         NEW g, g = Field(current, n), NEW f, WellFormedField(f), f.name = n,
         NEW e \in DiffField(g, f), \A o \in DiffField(g, f) : ImpactOf(o) = ImpactOf(e),
         NEW doc, doc.kind = "map", WellFormedDocument(doc)
  PROVE  BorneOut(ImpactOf(e), Validate(<< g >>, doc), Validate(<< f >>, doc), n, doc)
<1> DEFINE was == Validate(<< g >>, doc)
           is == Validate(<< f >>, doc)
           v == Get(doc, n)
           fine(h) == \A c \in Range(h.constraints) : ~Unevaluable(c, v)
<1>1. WellFormedField(g) /\ g.name = n
  BY FieldIsWellFormed, FieldFound
<1>2. f.required \in BOOLEAN /\ g.required \in BOOLEAN
  BY <1>1 DEF WellFormedField
<1>0. \A o \in DiffField(g, f) : Foretold(o, f)
  BY <1>2, ImpactByKind
<1>3. /\ was = "valid" <=> FieldAccepts(g, doc)
      /\ is = "valid" <=> FieldAccepts(f, doc)
  BY <1>1, OutcomeOfField DEF FieldAccepts
<1>4. Has(doc, n) => WellFormedValue(v)
  BY GetIsWellFormed
<1>5. Has(doc, n) /\ (\E c \in Range(f.constraints) : ~Satisfied(c, v)) => is # "valid"
  BY <1>3, NoFieldIssues DEF FieldAccepts
<1>6. \A o \in DiffField(g, f) :
        /\ o.kind = "TypeChanged" => ImpactOf(o) = "old type rejected"
        /\ o.kind = "RequiredChanged" =>
             ImpactOf(o) = IF f.required THEN "fails without the field" ELSE "stays valid"
        /\ o.kind = "ConstraintAdded" =>
             /\ ImpactOf(o) \in { "values may be rejected", "empty values rejected",
                                  "other text rejected", "validation fails", "no outcome changes" }
             /\ ImpactOf(o) = "no outcome changes" => o.constraint.kind = "custom"
        /\ o.kind = "ConstraintRemoved" => ImpactOf(o) = "only widens"
        /\ o.kind = "ConstraintChanged" => ImpactOf(o) = "values may be rejected"
        /\ o.kind = "DescriptionChanged" => ImpactOf(o) = "cosmetic"
  BY <1>0 DEF Foretold
<1>7. \A o \in DiffField(g, f) :
        o.kind \in { "TypeChanged", "RequiredChanged", "ConstraintAdded",
                     "ConstraintRemoved", "ConstraintChanged", "DescriptionChanged" }
  BY EntryShapes
<1>8. CASE ImpactOf(e) = "fails without the field"
  <2>1. f.required
    BY <1>0, <1>8 DEF Foretold
  <2>2. ~Has(doc, n) => is = "invalid"
    BY <2>1, OutcomeOfField, NoFieldIssues
  <2>3. QED
    BY <1>8, <2>2 DEF BorneOut
<1>9. CASE ImpactOf(e) \in {"stays valid", "only widens"}
  <2>1. \A o \in DiffField(g, f) :
          o.kind \notin {"TypeChanged", "ConstraintAdded", "ConstraintChanged"}
    BY <1>6, <1>9
  <2>2. f.required => g.required
    <3>1. SUFFICES ASSUME f.required, g.required # f.required PROVE FALSE
      BY <1>2
    <3>2. PICK o \in DiffField(g, f) : o.kind = "RequiredChanged"
      <4> DEFINE new == [kind |-> "RequiredChanged", field |-> f.name, required |-> f.required]
      <4>1. new \in DiffField(g, f)
        BY <3>1, PartsOfDiffField
      <4>2. new.kind = "RequiredChanged"
        OBVIOUS
      <4> HIDE DEF new
      <4>3. QED
        BY <4>1, <4>2
    <3>3. ImpactOf(o) = "fails without the field"
      BY <1>6, <3>1, <3>2
    <3>4. QED
      BY <1>9, <3>3
  <2>3. was = "valid" => is = "valid"
    BY <1>1, <1>3, <2>1, <2>2, FieldWidens
  <2>4. QED
    BY <1>9, <2>3 DEF BorneOut
<1>10. CASE ImpactOf(e) \in {"no outcome changes", "cosmetic"}
  <2>1. \A o \in DiffField(g, f) :
          \/ o.kind = "DescriptionChanged"
          \/ o.kind = "ConstraintAdded" /\ o.constraint.kind = "custom"
    BY <1>6, <1>7, <1>10
  <2>2. is = was
    BY <1>1, <2>1, OutcomesAgree
  <2>3. QED
    BY <1>10, <2>2 DEF BorneOut
<1>11. CASE ImpactOf(e) = "old type rejected"
  <2>1. SUFFICES ASSUME Has(doc, n), was = "valid", Solid(v, g.ty) PROVE is = "invalid"
    BY <1>11, <2>1 DEF BorneOut
  <2>2. e.kind = "TypeChanged" /\ \A o \in DiffField(g, f) : o.kind = "TypeChanged"
    BY <1>6, <1>7, <1>11
  <2>3. ~TypesEqualIgnoringMapKeys(g.ty, f.ty)
    BY <2>2, EntryShapes
  <2>4. TypeIssues(g.ty, v, << [key |-> n] >>) = {} /\ fine(g)
    BY <1>1, <1>3, <2>1, NoFieldIssues DEF FieldAccepts
  <2>5. TypeIssues(f.ty, v, << [key |-> n] >>) # {}
    BY <1>1, <2>1, <2>3, <2>4, NewTypeRejects DEF WellFormedField
  <2>6. FieldIssues(f, doc) # {}
    BY <2>1, <2>5, NoFieldIssues
  <2>7. fine(f)
    <3>1. fine(g) <=> fine(f)
      BY <1>1, <1>4, <2>1, <2>2, ConstraintsAgree
    <3>2. QED
      BY <2>4, <3>1
  <2>8. QED
    BY <2>1, <2>6, <2>7, OutcomeOfField
<1>12. CASE ImpactOf(e) = "other text rejected"
  <2>1. \E c \in Range(f.constraints) : c.kind = "pattern"
    BY <1>0, <1>12 DEF Foretold
  <2>2. Has(doc, n) /\ v.kind = "string" /\ v.form # "identifier" => is # "valid"
    BY <1>5, <2>1 DEF Satisfied
  <2>3. QED
    BY <1>12, <2>2 DEF BorneOut
<1>13. CASE ImpactOf(e) = "validation fails"
  <2>1. \E c \in Range(f.constraints) : c.kind = "pattern" /\ c.grammar # "identifier"
    BY <1>0, <1>13 DEF Foretold
  <2>2. v.kind = "string" => ~fine(f)
    BY <2>1 DEF Unevaluable
  <2>3. Has(doc, n) /\ v.kind = "string" => is = "unavailable"
    BY <2>2, OutcomeOfField
  <2>4. QED
    BY <1>13, <2>3 DEF BorneOut
<1>14. CASE ImpactOf(e) = "empty values rejected"
  <2>1. PICK c \in Range(f.constraints) : c.kind = "nonempty"
    BY <1>0, <1>14 DEF Foretold
  <2>2. Has(doc, n) /\ v.kind \in Sized /\ Size(v) = 0 => is # "valid"
    <3> DEFINE size == Size(v)
    <3>1. Satisfied(c, v) <=> (v.kind \in Sized => size > 0)
      BY <2>1 DEF Satisfied
    <3>2. size = 0 => ~(size > 0)
      OBVIOUS
    <3> HIDE DEF size
    <3>3. v.kind \in Sized /\ size = 0 => ~Satisfied(c, v)
      BY <3>1, <3>2
    <3>4. QED
      BY <1>5, <3>3 DEF size
  <2>3. QED
    BY <1>14, <2>2 DEF BorneOut
<1>15. CASE ImpactOf(e) = "values may be rejected"
  BY <1>15 DEF BorneOut
<1>16. QED
  BY <1>0, <1>8, <1>9, <1>10, <1>11, <1>12, <1>13, <1>14, <1>15 DEF Foretold

(* A field that only one of the versions has. *)
LEMMA ImpactOfNewField ==
  ASSUME NEW b, NEW n, n \notin Names(b), NEW f, f.name = n, f.required \in BOOLEAN,
         NEW e, e = [kind |-> "FieldAdded", field |-> n, required |-> f.required],
         b = current, NEW was, NEW doc, doc.kind = "map"
  PROVE  BorneOut(ImpactOf(e), was, Validate(<< f >>, doc), n, doc)
<1>1. ImpactOf(e) = IF f.required THEN "fails without the field" ELSE "stays valid"
  BY DEF ImpactOf, ClassifyLevel, IsBreaking
<1>2. CASE f.required
  <2>1. ~Has(doc, n) => Validate(<< f >>, doc) = "invalid"
    BY <1>2, OutcomeOfField, NoFieldIssues
  <2>2. QED
    BY <1>1, <1>2, <2>1 DEF BorneOut
<1>3. CASE ~f.required
  <2>1. Tidy(current, doc) => ~Has(doc, n)
    BY DEF Tidy, Has
  <2>2. ~Has(doc, n) => Validate(<< f >>, doc) = "valid"
    BY <1>3, OutcomeOfField, NoFieldIssues
  <2>3. QED
    BY <1>1, <1>3, <2>1, <2>2 DEF BorneOut
<1>4. QED
  BY <1>2, <1>3

LEMMA FieldEntriesOfDiff ==
  ASSUME NEW b, WellFormedSchema(b), NEW a, WellFormedSchema(a),
         NEW n \in Names(b) \cap Names(a), NEW o \in DiffField(Field(b, n), Field(a, n))
  PROVE  o \in Diff(b, a) /\ o.field = n
<1>1. n \in Names(a) \cap Names(b)
  OBVIOUS
<1>2. \A entry \in DiffField(Field(b, n), Field(a, n)) :
        entry \in Diff(b, a) /\ entry.field = n /\ entry.kind \in EntryKinds
  BY <1>1, EntriesOfDiff
<1>3. QED
  BY <1>2

LEMMA ImpactOnDocument ==
  ASSUME WellFormedSchema(current), NEW after, WellFormedSchema(after),
         NEW entry \in Diff(current, after), NEW n, n = entry.field,
         \A other \in Diff(current, after) : other.field = n => ImpactOf(other) = ImpactOf(entry),
         NEW doc, doc.kind = "map", WellFormedDocument(doc)
  PROVE  BorneOut(ImpactOf(entry), FieldOutcome(current, n, doc), FieldOutcome(after, n, doc), n, doc)
<1>1. CASE \E m \in Names(after) \ Names(current) :
             entry = [kind |-> "FieldAdded", field |-> m, required |-> Field(after, m).required]
  <2>1. /\ n \in Names(after) /\ n \notin Names(current)
        /\ entry = [kind |-> "FieldAdded", field |-> n, required |-> Field(after, n).required]
    BY <1>1
  <2>2. Field(after, n).name = n /\ Field(after, n).required \in BOOLEAN
    BY <2>1, FieldFound, FieldIsWellFormed DEF WellFormedField
  <2>3. FieldOutcome(after, n, doc) = Validate(<< Field(after, n) >>, doc)
    BY <2>1 DEF FieldOutcome
  <2>4. QED
    BY <2>1, <2>2, <2>3, ImpactOfNewField
<1>2. CASE \E m \in Names(current) \ Names(after) : entry = [kind |-> "FieldRemoved", field |-> m]
  <2>1. n \notin Names(after) /\ entry.kind = "FieldRemoved"
    BY <1>2
  <2>2. FieldOutcome(after, n, doc) = "valid" /\ ImpactOf(entry) = "field silently lost"
    BY <2>1 DEF FieldOutcome, ImpactOf
  <2>3. QED
    BY <2>2 DEF BorneOut
<1>3. CASE \E m \in Names(current) \cap Names(after) :
             entry \in DiffField(Field(current, m), Field(after, m))
  <2>0. \A m \in Names(current) \cap Names(after) :
          \A o \in DiffField(Field(current, m), Field(after, m)) :
            o \in Diff(current, after) /\ o.field = m
    BY FieldEntriesOfDiff
  <2>1. /\ n \in Names(current) /\ n \in Names(after)
        /\ entry \in DiffField(Field(current, n), Field(after, n))
    BY <1>3, <2>0
  <2>2. \A o \in DiffField(Field(current, n), Field(after, n)) : ImpactOf(o) = ImpactOf(entry)
    BY <2>0, <2>1
  <2>3. WellFormedField(Field(after, n)) /\ Field(after, n).name = n
    BY <2>1, FieldFound, FieldIsWellFormed
  <2>4. /\ FieldOutcome(after, n, doc) = Validate(<< Field(after, n) >>, doc)
        /\ FieldOutcome(current, n, doc) = Validate(<< Field(current, n) >>, doc)
    BY <2>1 DEF FieldOutcome
  <2>5. QED
    BY <2>1, <2>2, <2>3, <2>4, ImpactOnField
<1>4. QED
  BY <1>1, <1>2, <1>3 DEF Diff

(* Where a finding is the only one about a field, validate() treats every  *)
(* document as its impact text foretells, for any two schemas.             *)
THEOREM ImpactsAreBorneOut == Spec => []ImpactIsBorneOut
<1>1. VersionsInv => ImpactIsBorneOut
  <2>1. SUFFICES ASSUME VersionsInv, NEW after \in Schemas,
                        NEW finding \in FindingsOf(current, after),
                        \A other \in FindingsOf(current, after) :
                          other.path[1] = finding.path[1] => other = finding,
                        NEW doc \in Maps
                 PROVE  LET name == finding.path[1]
                        IN  BorneOut(finding.impact, FieldOutcome(current, name, doc),
                                     FieldOutcome(after, name, doc), name, doc)
    BY <2>1 DEF ImpactIsBorneOut
  <2>2. WellFormedSchema(current) /\ WellFormedSchema(after) /\ doc.kind = "map" /\ WellFormedDocument(doc)
    BY <2>1, SchemasAssumption, DocumentsAssumption DEF VersionsInv, Maps
  <2>3. PICK entry \in Diff(current, after) : finding = Describe(entry, current, after)
    BY DEF FindingsOf
  <2>4. \A o \in Diff(current, after) :
          /\ Describe(o, current, after) \in FindingsOf(current, after)
          /\ Describe(o, current, after).path[1] = o.field
          /\ Describe(o, current, after).impact = ImpactOf(o)
    BY DEF FindingsOf, Describe, PathOf
  <2>5. finding.path[1] = entry.field /\ finding.impact = ImpactOf(entry)
    BY <2>3, <2>4
  <2>6. \A o \in Diff(current, after) : o.field = entry.field => ImpactOf(o) = ImpactOf(entry)
    BY <2>1, <2>3, <2>4
  <2>7. QED
    BY <2>2, <2>5, <2>6, ImpactOnDocument
<1>2. QED
  BY <1>1, VersionsInvariant, PTL
=============================================================================
