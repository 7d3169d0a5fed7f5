------------------------- MODULE WirePipelineProofs -------------------------
(***************************************************************************)
(* That what obserde_canonical and obserde_json promise of a document that *)
(* is passed on holds for all documents, schemas, limits and numbers of    *)
(* holders.                                                                *)
(*                                                                         *)
(* The four functions of the pipeline are folds over trees: what holds of  *)
(* a value, given that it holds of those inside, holds of every document   *)
(* (TreeInduction), and the folds do what one step of them says (Unfolded).*)
(* Sorting by place is shown to give one order to one set of keys          *)
(* (OrderedOnce), decoding to undo encoding where nothing is excluded      *)
(* (RoundTrip), and the stream of the hash to be readable in one way only  *)
(* (HashTellsApart).  The inductive invariant Inv then says of the holders *)
(* what each of them has.                                                  *)
(***************************************************************************)
EXTENDS WirePipeline, DataLemmas

-----------------------------------------------------------------------------
(* Trees. *)

Lists(T) == [kind : {"list"}, items : Seq(T)]
Maps(T)  == [kind : {"map"}, entries : Seq([key : Keys, value : T])]

NestingBy(scalars, k, smaller) ==
  IF k = 0 THEN scalars ELSE smaller \cup Lists(smaller) \cup Maps(smaller)

AreTrees(t, scalars, n) == t = [ k \in 0..n |-> NestingBy(scalars, k, t[k - 1]) ]

(* The recursion in Trees has a solution down to every depth. *)
LEMMA TreesExist ==
  ASSUME NEW scalars, NEW depth \in Nat
  PROVE  \E t : AreTrees(t, scalars, depth)
<1> DEFINE without == { n \in Nat : ~\E t : AreTrees(t, scalars, n) }
<1>1. SUFFICES ASSUME without # {} PROVE FALSE
  BY <1>1
<1>2. PICK n \in without : \A m \in without : n <= m
  <2>1. without \in SUBSET Nat
    OBVIOUS
  <2> HIDE DEF without
  <2>2. QED
    BY <1>1, <2>1, LeastOfNaturals
<1>3. CASE n = 0
  <2> DEFINE t == [ k \in 0..0 |-> scalars ]
  <2>1. t = [ k \in 0..0 |-> NestingBy(scalars, k, t[k - 1]) ]
    BY DEF NestingBy
  <2>2. AreTrees(t, scalars, n)
    BY <1>3, <2>1 DEF AreTrees
  <2>3. QED
    BY <2>2
<1>4. CASE n # 0
  <2>1. n - 1 \in Nat /\ n - 1 \notin without
    BY <1>2, <1>4
  <2>2. PICK t : AreTrees(t, scalars, n - 1)
    BY <2>1
  <2> DEFINE deeper == [ k \in 0..n |-> IF k = n THEN NestingBy(scalars, n, t[n - 1]) ELSE t[k] ]
  <2>3. ASSUME NEW k \in 0..n PROVE deeper[k] = NestingBy(scalars, k, deeper[k - 1])
    <3>1. CASE k = n
      BY <1>4, <3>1
    <3>2. CASE k # n /\ k # 0
      <4>1. k \in 0..n - 1 /\ k - 1 \in 0..n - 1
        BY <3>2
      <4>2. t[k] = NestingBy(scalars, k, t[k - 1])
        BY <2>2, <4>1 DEF AreTrees
      <4>3. deeper[k] = t[k] /\ deeper[k - 1] = t[k - 1]
        BY <3>2, <4>1
      <4>4. QED
        BY <4>2, <4>3
    <3>3. CASE k # n /\ k = 0
      <4>1. k \in 0..n - 1
        BY <3>3
      <4>2. t[k] = NestingBy(scalars, k, t[k - 1]) /\ deeper[k] = t[k]
        BY <2>2, <3>3, <4>1 DEF AreTrees
      <4>3. QED
        BY <3>3, <4>2 DEF NestingBy
    <3>4. QED
      BY <3>1, <3>2, <3>3
  <2>4. AreTrees(deeper, scalars, n)
    <3>1. DOMAIN deeper = 0..n /\ deeper = [ k \in 0..n |-> deeper[k] ]
      OBVIOUS
    <3> HIDE DEF deeper
    <3>2. QED
      BY <2>3, <3>1 DEF AreTrees
  <2>5. QED
    BY <2>4
<1>5. QED
  BY <1>3, <1>4

(* Trees, depth by depth. *)
LEMMA TreesByDepth ==
  ASSUME NEW scalars
  PROVE  /\ Nesting \in Nat /\ 0 \in 0..Nesting
         /\ Trees(scalars)[0] = scalars
         /\ \A k \in 0..Nesting : k # 0 =>
              /\ k - 1 \in 0..Nesting
              /\ Trees(scalars)[k] =
                   Trees(scalars)[k - 1] \cup Lists(Trees(scalars)[k - 1])
                     \cup Maps(Trees(scalars)[k - 1])
<1> DEFINE t == CHOOSE x : AreTrees(x, scalars, Nesting)
<1>1. Nesting \in Nat
  BY BoundsAssumption
<1>2. AreTrees(t, scalars, Nesting)
  BY <1>1, TreesExist
<1>3. Trees(scalars) = t
  BY DEF Trees, AreTrees, NestingBy, Lists, Maps
<1> HIDE DEF t
<1>4. \A k \in 0..Nesting : t[k] = NestingBy(scalars, k, t[k - 1])
  BY <1>2 DEF AreTrees
<1>5. 0 \in 0..Nesting /\ \A k \in 0..Nesting : k # 0 => k - 1 \in 0..Nesting
  BY <1>1
<1>6. QED
  BY <1>1, <1>3, <1>4, <1>5 DEF NestingBy

(* Deeper trees include shallower ones. *)
LEMMA TreesAreNested ==
  ASSUME NEW scalars, NEW k \in 0..Nesting, NEW v \in Trees(scalars)[k]
  PROVE  \A m \in 0..Nesting : k <= m => v \in Trees(scalars)[m]
<1> DEFINE t == Trees(scalars)
           bad == { m \in 0..Nesting : k <= m /\ v \notin t[m] }
<1>1. Nesting \in Nat /\ v \in t[k]
  BY TreesByDepth
<1>2. \A m \in 0..Nesting : m # 0 => m - 1 \in 0..Nesting /\ t[m - 1] \subseteq t[m]
  BY TreesByDepth
<1> HIDE DEF t
<1>3. SUFFICES ASSUME bad # {} PROVE FALSE
  BY DEF t
<1>4. PICK m \in bad : \A j \in bad : m <= j
  <2>1. bad \in SUBSET Nat
    OBVIOUS
  <2> HIDE DEF bad
  <2>2. QED
    BY <1>3, <2>1, LeastOfNaturals
<1>5. m # k /\ m # 0 /\ k <= m - 1
  BY <1>1
<1>6. m - 1 \in 0..Nesting /\ t[m - 1] \subseteq t[m] /\ ~(m <= m - 1)
  BY <1>2, <1>5
<1>7. v \in t[m - 1]
  BY <1>4, <1>5, <1>6
<1>8. QED
  BY <1>6, <1>7

(* A tree is a scalar, or a list or a map of trees that nest less deep. *)
LEMMA TreeShape ==
  ASSUME NEW scalars, NEW k \in 0..Nesting, NEW v \in Trees(scalars)[k]
  PROVE  \/ v \in scalars
         \/ /\ k # 0 /\ k - 1 \in 0..Nesting
            /\ v \in Lists(Trees(scalars)[k - 1]) \cup Maps(Trees(scalars)[k - 1])
<1> DEFINE t == Trees(scalars)
           least == { m \in 0..Nesting : v \in t[m] }
<1>1. Nesting \in Nat /\ k \in least
  BY TreesByDepth
<1>2. PICK m \in least : \A j \in least : m <= j
  <2>1. least \in SUBSET Nat
    OBVIOUS
  <2> HIDE DEF least
  <2>2. QED
    BY <1>1, <2>1, LeastOfNaturals
<1>3. CASE m = 0
  BY <1>3, TreesByDepth
<1>4. CASE m # 0
  <2>1. /\ m - 1 \in 0..Nesting /\ t[m] = t[m - 1] \cup Lists(t[m - 1]) \cup Maps(t[m - 1])
        /\ ~(m <= m - 1) /\ m <= k /\ m \in 0..Nesting
    <3>1. m <= k /\ m \in 0..Nesting
      BY <1>1, <1>2
    <3>2. QED
      BY <1>4, <3>1, TreesByDepth
  <2>2. v \notin t[m - 1]
    BY <1>2, <2>1
  <2>3. v \in Lists(t[m - 1]) \cup Maps(t[m - 1])
    BY <2>1, <2>2
  <2>4. k # 0 /\ k - 1 \in 0..Nesting /\ m - 1 <= k - 1
    BY <1>1, <1>4, <2>1
  <2>5. t[m - 1] \subseteq t[k - 1]
    BY <2>1, <2>4, TreesAreNested
  <2> HIDE DEF t
  <2>6. Lists(t[m - 1]) \subseteq Lists(t[k - 1]) /\ Maps(t[m - 1]) \subseteq Maps(t[k - 1])
    <3> DEFINE E(T) == [key : Keys, value : T]
    <3>1. E(t[m - 1]) \subseteq E(t[k - 1])
      BY <2>5
    <3> HIDE DEF E
    <3>2. /\ Seq(t[m - 1]) \subseteq Seq(t[k - 1])
          /\ Seq(E(t[m - 1])) \subseteq Seq(E(t[k - 1]))
      BY <2>5, <3>1, SeqMonotonic
    <3>3. \A S, T : Seq(S) \subseteq Seq(T) => Lists(S) \subseteq Lists(T)
      BY DEF Lists
    <3>4. \A S, T : Seq(E(S)) \subseteq Seq(E(T)) => Maps(S) \subseteq Maps(T)
      BY DEF Maps, E
    <3>5. QED
      BY <3>2, <3>3, <3>4
  <2>7. QED
    BY <2>3, <2>4, <2>6 DEF t
<1>5. QED
  BY <1>3, <1>4

Leaf(v) == v.kind \notin {"list", "map"}

(* What a list or a map of trees looks like. *)
LEMMA ListOfTrees ==
  ASSUME NEW T, NEW v \in Lists(T)
  PROVE  /\ v.kind = "list" /\ v = [kind |-> "list", items |-> v.items] /\ v.items \in Seq(T)
         /\ DOMAIN v.items = 1..Len(v.items) /\ Len(v.items) \in Nat
         /\ \A i \in DOMAIN v.items : v.items[i] \in T
<1>1. v.kind = "list" /\ v = [kind |-> "list", items |-> v.items] /\ v.items \in Seq(T)
  BY DEF Lists
<1>2. QED
  BY <1>1, LenProperties, ElementOfSeq

(* Likewise a map. *)
LEMMA MapOfTrees ==
  ASSUME NEW T, NEW v \in Maps(T)
  PROVE  /\ v.kind = "map" /\ v = [kind |-> "map", entries |-> v.entries]
         /\ v.entries \in Seq([key : Keys, value : T])
         /\ DOMAIN v.entries = 1..Len(v.entries) /\ Len(v.entries) \in Nat
         /\ \A i \in DOMAIN v.entries :
              /\ v.entries[i] = [key |-> v.entries[i].key, value |-> v.entries[i].value]
              /\ v.entries[i].key \in Keys /\ v.entries[i].value \in T
<1> DEFINE E == [key : Keys, value : T]
<1>1. v.kind = "map" /\ v = [kind |-> "map", entries |-> v.entries] /\ v.entries \in Seq(E)
  BY DEF Maps
<1>2. \A e \in E : e = [key |-> e.key, value |-> e.value] /\ e.key \in Keys /\ e.value \in T
  OBVIOUS
<1> HIDE DEF E
<1>3. /\ DOMAIN v.entries = 1..Len(v.entries) /\ Len(v.entries) \in Nat
      /\ \A i \in DOMAIN v.entries : v.entries[i] \in E
  BY <1>1, LenProperties, ElementOfSeq
<1>4. QED
  BY <1>1, <1>2, <1>3 DEF E

(* The values directly inside. *)
LEMMA ChildrenAre ==
  ASSUME NEW v
  PROVE  /\ v.kind = "list" => Children(v) = { v.items[i] : i \in DOMAIN v.items }
         /\ v.kind = "map" => Children(v) = { v.entries[i].value : i \in DOMAIN v.entries }
         /\ Leaf(v) => Children(v) = {}
<1>1. CASE v.kind = "list"
  <2>1. Elements(v) = { [at |-> [index |-> i], value |-> v.items[i]] : i \in DOMAIN v.items }
    BY <1>1 DEF Elements
  <2>2. ASSUME NEW i \in DOMAIN v.items PROVE v.items[i] \in Children(v)
    <3>1. [at |-> [index |-> i], value |-> v.items[i]] \in Elements(v)
      BY <2>1
    <3>2. [at |-> [index |-> i], value |-> v.items[i]].value = v.items[i]
      OBVIOUS
    <3>3. QED
      BY <3>1, <3>2 DEF Children
  <2>3. ASSUME NEW x \in Children(v) PROVE \E i \in DOMAIN v.items : x = v.items[i]
    <3>1. PICK e \in Elements(v) : x = e.value
      BY DEF Children
    <3>2. QED
      BY <2>1, <3>1
  <2>4. Children(v) = { v.items[i] : i \in DOMAIN v.items }
    BY <2>2, <2>3
  <2>5. QED
    BY <1>1, <2>4 DEF Leaf
<1>2. CASE v.kind = "map"
  <2>1. Elements(v) = { [at |-> [key |-> e.key], value |-> e.value] : e \in Range(v.entries) }
    BY <1>2 DEF Elements
  <2>2. ASSUME NEW i \in DOMAIN v.entries PROVE v.entries[i].value \in Children(v)
    <3> DEFINE e == v.entries[i]
    <3>1. e \in Range(v.entries)
      BY DEF Range
    <3>2. [at |-> [key |-> e.key], value |-> e.value] \in Elements(v)
      BY <2>1, <3>1
    <3>3. [at |-> [key |-> e.key], value |-> e.value].value = e.value
      OBVIOUS
    <3>4. QED
      BY <3>2, <3>3 DEF Children
  <2>3. ASSUME NEW x \in Children(v) PROVE \E i \in DOMAIN v.entries : x = v.entries[i].value
    <3>1. PICK e \in Elements(v) : x = e.value
      BY DEF Children
    <3>2. PICK f \in Range(v.entries) : e = [at |-> [key |-> f.key], value |-> f.value]
      BY <2>1, <3>1
    <3>3. PICK i \in DOMAIN v.entries : f = v.entries[i]
      BY <3>2 DEF Range
    <3>4. QED
      BY <3>1, <3>2, <3>3
  <2>4. Children(v) = { v.entries[i].value : i \in DOMAIN v.entries }
    BY <2>2, <2>3
  <2>5. QED
    BY <1>2, <2>4 DEF Leaf
<1>3. CASE Leaf(v)
  BY <1>3 DEF Leaf, Elements, Children
<1>4. QED
  BY <1>1, <1>2, <1>3 DEF Leaf

(* What is directly inside a list or a map of trees is one of them. *)
LEMMA ChildrenOfTrees ==
  ASSUME NEW T, NEW v \in Lists(T) \cup Maps(T)
  PROVE  \A w \in Children(v) : w \in T
<1>1. CASE v \in Lists(T)
  <2>1. Children(v) = { v.items[i] : i \in DOMAIN v.items } /\ \A i \in DOMAIN v.items : v.items[i] \in T
    BY <1>1, ListOfTrees, ChildrenAre
  <2>2. QED
    BY <2>1
<1>2. CASE v \in Maps(T)
  <2>1. v.kind = "map" /\ \A i \in DOMAIN v.entries : v.entries[i].value \in T
    BY <1>2, MapOfTrees
  <2>2. Children(v) = { v.entries[i].value : i \in DOMAIN v.entries }
    BY <2>1, ChildrenAre
  <2>3. QED
    BY <2>1, <2>2
<1>3. QED
  BY <1>1, <1>2

(* By least counterexample on how deep a tree nests. *)
LEMMA TreeInduction ==
  ASSUME NEW scalars, \A v \in scalars : Leaf(v), NEW S,
         \A v \in Trees(scalars)[Nesting] :
           (\A w \in Children(v) : w \in Trees(scalars)[Nesting] /\ w \in S) => v \in S
  PROVE  Trees(scalars)[Nesting] \subseteq S
<1> DEFINE t == Trees(scalars)
           bad == { k \in 0..Nesting : ~(t[k] \subseteq S) }
<1>1. Nesting \in Nat /\ Nesting \in 0..Nesting
  BY TreesByDepth
<1>2. SUFFICES ASSUME bad # {} PROVE FALSE
  BY <1>1
<1>3. PICK k \in bad : \A j \in bad : k <= j
  <2>1. bad \in SUBSET Nat
    OBVIOUS
  <2> HIDE DEF bad
  <2>2. QED
    BY <1>2, <2>1, LeastOfNaturals
<1>4. k \in 0..Nesting /\ k <= Nesting
  BY <1>1
<1>5. ASSUME NEW v \in t[k] PROVE v \in S
  <2>1. v \in t[Nesting]
    BY <1>1, <1>4, TreesAreNested
  <2>2. ASSUME NEW w \in Children(v) PROVE w \in t[Nesting] /\ w \in S
    <3>1. ~Leaf(v)
      BY ChildrenAre
    <3>2. k # 0 /\ k - 1 \in 0..Nesting /\ v \in Lists(t[k - 1]) \cup Maps(t[k - 1])
      BY <1>4, <3>1, TreeShape
    <3>3. w \in t[k - 1]
      BY <3>2, ChildrenOfTrees
    <3>4. k - 1 <= Nesting /\ ~(k <= k - 1)
      BY <1>1, <1>4
    <3>5. w \in t[Nesting]
      BY <1>1, <3>2, <3>3, <3>4, TreesAreNested
    <3>6. t[k - 1] \subseteq S
      BY <1>3, <3>2, <3>4
    <3>7. QED
      BY <3>3, <3>5, <3>6
  <2>3. QED
    BY <2>1, <2>2
<1>6. QED
  BY <1>3, <1>5

-----------------------------------------------------------------------------
(* What the folds compute. *)

Step(rule, v, inner) ==
  CASE rule = "canonicalize" -> CanonicalNode(v, inner)
    [] rule = "hash"         -> HashStream(v, inner)
    [] rule = "encode"       -> EncodedNode(v, inner)
    [] rule = "decode"       -> DecodedNode(v, inner)

Rules == {"canonicalize", "hash", "encode", "decode"}

(* Converting reaches into lists and maps only. *)
LEMMA ConvertedLeaf ==
  ASSUME NEW v, Leaf(v), NEW g
  PROVE  Converted(v, g) = v
BY DEF Leaf, Converted

(* A step looks at what became of the trees inside and at nothing else. *)
LEMMA StepOfLeaf ==
  ASSUME NEW rule \in Rules, NEW v, Leaf(v), NEW g, NEW h
  PROVE  Step(rule, v, g) = Step(rule, v, h)
<1>1. CASE rule = "canonicalize"
  BY <1>1, ConvertedLeaf DEF Step, CanonicalNode
<1>2. CASE rule = "hash"
  BY <1>2 DEF Step, HashStream, Leaf
<1>3. CASE rule = "encode"
  BY <1>3, ConvertedLeaf DEF Step, EncodedNode, Leaf
<1>4. CASE rule = "decode"
  <2>1. Leaf(DecodedScalar(v))
    BY DEF DecodedScalar, DecodedNumber, Leaf
  <2>2. QED
    BY <1>4, <2>1, ConvertedLeaf DEF Step, DecodedNode
<1>5. QED
  BY <1>1, <1>2, <1>3, <1>4 DEF Rules

(* A list converted, element by element. *)
LEMMA ConvertedList ==
  ASSUME NEW T, NEW v \in Lists(T), NEW g
  PROVE  Converted(v, g) = [kind |-> "list", items |-> [ i \in DOMAIN v.items |-> g[v.items[i]] ]]
<1>1. v.kind = "list" /\ v = [kind |-> "list", items |-> v.items]
  BY ListOfTrees
<1>2. QED
  BY <1>1 DEF Converted

(* A map converted, value by value. *)
LEMMA ConvertedMap ==
  ASSUME NEW T, NEW v \in Maps(T), NEW g
  PROVE  Converted(v, g) =
           [kind |-> "map",
            entries |-> [ i \in DOMAIN v.entries |->
                            [key |-> v.entries[i].key, value |-> g[v.entries[i].value]] ]]
<1>1. v.kind = "map"
  BY MapOfTrees
<1>2. QED
  BY <1>1 DEF Converted

(* One step asks about nothing but what is directly inside. *)
LEMMA StepOfCollection ==
  ASSUME NEW rule \in Rules, NEW T, NEW v \in Lists(T) \cup Maps(T), NEW g, NEW h,
         \A w \in T : g[w] = h[w]
  PROVE  Step(rule, v, g) = Step(rule, v, h)
<1>1. Converted(v, g) = Converted(v, h)
  <2>1. CASE v \in Lists(T)
    <3>1. \A i \in DOMAIN v.items : g[v.items[i]] = h[v.items[i]]
      BY <2>1, ListOfTrees
    <3>2. QED
      BY <2>1, <3>1, ConvertedList
  <2>2. CASE v \in Maps(T)
    <3>1. \A i \in DOMAIN v.entries : g[v.entries[i].value] = h[v.entries[i].value]
      BY <2>2, MapOfTrees
    <3>2. QED
      BY <2>2, <3>1, ConvertedMap
  <2>3. QED
    BY <2>1, <2>2
<1>2. v.kind \in {"list", "map"}
  BY ListOfTrees, MapOfTrees
<1>3. CASE rule = "canonicalize"
  BY <1>1, <1>3 DEF Step, CanonicalNode
<1>4. CASE rule = "hash"
  <2>1. CASE v \in Lists(T)
    <3>1. \A i \in DOMAIN v.items : g[v.items[i]] = h[v.items[i]]
      BY <2>1, ListOfTrees
    <3>2. [ i \in DOMAIN v.items |-> g[v.items[i]] ] = [ i \in DOMAIN v.items |-> h[v.items[i]] ]
      BY <3>1
    <3>3. v.kind = "list"
      BY <2>1, ListOfTrees
    <3>4. QED
      BY <1>4, <3>2, <3>3 DEF Step, HashStream
  <2>2. CASE v \in Maps(T)
    <3>1. \A i \in DOMAIN v.entries : g[v.entries[i].value] = h[v.entries[i].value]
      BY <2>2, MapOfTrees
    <3>2. [ i \in DOMAIN v.entries |-> << [key |-> v.entries[i].key] >> \o g[v.entries[i].value] ] =
          [ i \in DOMAIN v.entries |-> << [key |-> v.entries[i].key] >> \o h[v.entries[i].value] ]
      BY <3>1
    <3>3. v.kind = "map"
      BY <2>2, MapOfTrees
    <3>4. QED
      BY <1>4, <3>2, <3>3 DEF Step, HashStream
  <2>3. QED
    BY <2>1, <2>2
<1>5. CASE rule = "encode"
  BY <1>1, <1>5 DEF Step, EncodedNode
<1>6. CASE rule = "decode"
  <2>1. DecodedScalar(v) = v
    BY <1>2 DEF DecodedScalar
  <2>2. QED
    BY <1>1, <1>6, <2>1 DEF Step, DecodedNode
<1>7. QED
  BY <1>3, <1>4, <1>5, <1>6 DEF Rules

-----------------------------------------------------------------------------
(* Folds over trees. *)

FoldBy(rule, trees, k, smaller) == [ v \in trees[k] |-> Step(rule, v, smaller) ]

AreFolds(f, rule, trees, n) == f = [ k \in 0..n |-> FoldBy(rule, trees, k, f[k - 1]) ]

Fold(rule, scalars) == (CHOOSE f : AreFolds(f, rule, Trees(scalars), Nesting))[Nesting]

(* At depth zero a fold asks about nothing below. *)
LEMMA FoldOfScalars ==
  ASSUME NEW rule \in Rules, NEW trees, \A v \in trees[0] : Leaf(v), NEW g, NEW h
  PROVE  FoldBy(rule, trees, 0, g) = FoldBy(rule, trees, 0, h)
BY StepOfLeaf DEF FoldBy

(* The recursion in Folded has a solution down to every depth. *)
LEMMA FoldsExist ==
  ASSUME NEW rule \in Rules, NEW trees, \A v \in trees[0] : Leaf(v), NEW depth \in Nat
  PROVE  \E f : AreFolds(f, rule, trees, depth)
<1> DEFINE without == { n \in Nat : ~\E f : AreFolds(f, rule, trees, n) }
<1>1. SUFFICES ASSUME without # {} PROVE FALSE
  BY <1>1
<1>2. PICK n \in without : \A m \in without : n <= m
  <2>1. without \in SUBSET Nat
    OBVIOUS
  <2> HIDE DEF without
  <2>2. QED
    BY <1>1, <2>1, LeastOfNaturals
<1>3. CASE n = 0
  <2> DEFINE f == [ k \in 0..0 |-> FoldBy(rule, trees, 0, << >>) ]
  <2>1. FoldBy(rule, trees, 0, f[0 - 1]) = FoldBy(rule, trees, 0, << >>)
    BY FoldOfScalars
  <2>2. f = [ k \in 0..0 |-> FoldBy(rule, trees, k, f[k - 1]) ]
    BY <2>1
  <2>3. AreFolds(f, rule, trees, n)
    BY <1>3, <2>2 DEF AreFolds
  <2>4. QED
    BY <2>3
<1>4. CASE n # 0
  <2>1. n - 1 \in Nat /\ n - 1 \notin without
    BY <1>2, <1>4
  <2>2. PICK f : AreFolds(f, rule, trees, n - 1)
    BY <2>1
  <2> DEFINE longer == [ k \in 0..n |-> IF k = n THEN FoldBy(rule, trees, n, f[n - 1]) ELSE f[k] ]
  <2>3. ASSUME NEW k \in 0..n PROVE longer[k] = FoldBy(rule, trees, k, longer[k - 1])
    <3>1. CASE k = n
      BY <1>4, <3>1
    <3>2. CASE k # n /\ k # 0
      <4>1. k \in 0..n - 1 /\ k - 1 \in 0..n - 1
        BY <3>2
      <4>2. f[k] = FoldBy(rule, trees, k, f[k - 1])
        BY <2>2, <4>1 DEF AreFolds
      <4>3. longer[k] = f[k] /\ longer[k - 1] = f[k - 1]
        BY <3>2, <4>1
      <4>4. QED
        BY <4>2, <4>3
    <3>3. CASE k # n /\ k = 0
      <4>1. k \in 0..n - 1
        BY <3>3
      <4>2. f[k] = FoldBy(rule, trees, k, f[k - 1]) /\ longer[k] = f[k]
        BY <2>2, <3>3, <4>1 DEF AreFolds
      <4>3. FoldBy(rule, trees, 0, f[k - 1]) = FoldBy(rule, trees, 0, longer[k - 1])
        <5> HIDE DEF longer
        <5>1. QED
          BY FoldOfScalars
      <4>4. QED
        BY <3>3, <4>2, <4>3
    <3>4. QED
      BY <3>1, <3>2, <3>3
  <2>4. AreFolds(longer, rule, trees, n)
    <3>1. DOMAIN longer = 0..n /\ longer = [ k \in 0..n |-> longer[k] ]
      OBVIOUS
    <3> HIDE DEF longer
    <3>2. QED
      BY <2>3, <3>1 DEF AreFolds
  <2>5. QED
    BY <2>4
<1>5. QED
  BY <1>3, <1>4

(* A fold gives every tree the same at whatever depth it is met, so that   *)
(* it is what the step makes of the tree, given the fold itself.           *)
LEMMA FoldUnfolds ==
  ASSUME NEW rule \in Rules, NEW scalars, \A v \in scalars : Leaf(v)
  PROVE  /\ DOMAIN Fold(rule, scalars) = Trees(scalars)[Nesting]
         /\ \A v \in Trees(scalars)[Nesting] :
              Fold(rule, scalars)[v] = Step(rule, v, Fold(rule, scalars))
<1> DEFINE t == Trees(scalars)
           f == CHOOSE x : AreFolds(x, rule, t, Nesting)
           F == Fold(rule, scalars)
<1>1. /\ Nesting \in Nat /\ 0 \in 0..Nesting /\ Nesting \in 0..Nesting
      /\ t[0] = scalars
  BY TreesByDepth
<1>2. F = f[Nesting]
  BY DEF Fold
<1>3. AreFolds(f, rule, t, Nesting)
  <2> HIDE DEF t
  <2>1. QED
    BY <1>1, FoldsExist
<1>4. /\ \A k \in 0..Nesting : \A v \in t[k] :
           \/ Leaf(v)
           \/ k # 0 /\ k - 1 \in 0..Nesting /\ v \in Lists(t[k - 1]) \cup Maps(t[k - 1])
      /\ \A k \in 0..Nesting : \A v \in t[k] : \A m \in 0..Nesting : k <= m => v \in t[m]
  BY TreeShape, TreesAreNested
<1> HIDE DEF t, f, F
<1>5. \A k \in 0..Nesting :
        DOMAIN f[k] = t[k] /\ \A v \in t[k] : f[k][v] = Step(rule, v, f[k - 1])
  <2>1. \A k \in 0..Nesting : f[k] = FoldBy(rule, t, k, f[k - 1])
    BY <1>3 DEF AreFolds
  <2>2. ASSUME NEW k \in 0..Nesting
        PROVE  DOMAIN f[k] = t[k] /\ \A v \in t[k] : f[k][v] = Step(rule, v, f[k - 1])
    <3>1. f[k] = [ v \in t[k] |-> Step(rule, v, f[k - 1]) ]
      BY <2>1 DEF FoldBy
    <3>2. QED
      BY <3>1
  <2>3. QED
    BY <2>2
<1>6. ASSUME NEW k \in 0..Nesting, k # Nesting
      PROVE  \A v \in t[k] : f[k][v] = f[k + 1][v]
  <2> DEFINE apart == { j \in 0..Nesting : j # Nesting /\ ~\A v \in t[j] : f[j][v] = f[j + 1][v] }
  <2>1. SUFFICES ASSUME apart # {} PROVE FALSE
    BY <1>6
  <2>2. PICK j \in apart : \A i \in apart : j <= i
    <3>1. apart \in SUBSET Nat
      OBVIOUS
    <3> HIDE DEF apart
    <3>2. QED
      BY <2>1, <3>1, LeastOfNaturals
  <2>3. j \in 0..Nesting /\ j # Nesting /\ j + 1 \in 0..Nesting /\ j <= j + 1 /\ (j + 1) - 1 = j
    BY <1>1
  <2>4. ASSUME NEW v \in t[j] PROVE f[j][v] = f[j + 1][v]
    <3>1. v \in t[j + 1]
      BY <1>4, <2>3
    <3>2. f[j][v] = Step(rule, v, f[j - 1]) /\ f[j + 1][v] = Step(rule, v, f[j])
      BY <1>5, <2>3, <3>1
    <3>3. CASE Leaf(v)
      BY <3>2, <3>3, StepOfLeaf
    <3>4. CASE ~Leaf(v)
      <4>1. j # 0 /\ j - 1 \in 0..Nesting /\ v \in Lists(t[j - 1]) \cup Maps(t[j - 1])
        BY <1>4, <2>3, <3>4
      <4>2. ~(j <= j - 1) /\ j - 1 # Nesting /\ (j - 1) + 1 = j
        BY <1>1, <4>1
      <4>3. \A w \in t[j - 1] : f[j - 1][w] = f[j][w]
        BY <2>2, <4>1, <4>2
      <4>4. QED
        BY <3>2, <4>1, <4>3, StepOfCollection
    <3>5. QED
      BY <3>3, <3>4
  <2>5. QED
    BY <2>2, <2>4
<1>7. ASSUME NEW k \in 0..Nesting PROVE \A v \in t[k] : F[v] = f[k][v]
  <2> DEFINE apart == { j \in 0..Nesting : ~\A v \in t[j] : F[v] = f[j][v] }
  <2>1. SUFFICES ASSUME apart # {} PROVE FALSE
    BY <1>7
  <2>2. PICK j \in apart : \A i \in apart : i <= j
    <3>1. apart \in SUBSET (0..Nesting)
      OBVIOUS
    <3> HIDE DEF apart
    <3>2. QED
      BY <1>1, <2>1, <3>1, GreatestBelow
  <2>3. j # Nesting
    BY <1>2
  <2>4. j \in 0..Nesting /\ j + 1 \in 0..Nesting /\ j <= j + 1 /\ ~(j + 1 <= j)
    BY <1>1, <2>3
  <2>5. \A v \in t[j + 1] : F[v] = f[j + 1][v]
    BY <2>2, <2>4
  <2>6. \A v \in t[j] : v \in t[j + 1]
    BY <1>4, <2>4
  <2>7. \A v \in t[j] : F[v] = f[j][v]
    BY <1>6, <2>3, <2>4, <2>5, <2>6
  <2>8. QED
    BY <2>2, <2>7
<1>8. ASSUME NEW v \in t[Nesting] PROVE F[v] = Step(rule, v, F)
  <2>1. F[v] = Step(rule, v, f[Nesting - 1])
    BY <1>1, <1>2, <1>5
  <2>2. CASE Leaf(v)
    BY <2>1, <2>2, StepOfLeaf
  <2>3. CASE ~Leaf(v)
    <3>1. Nesting - 1 \in 0..Nesting /\ v \in Lists(t[Nesting - 1]) \cup Maps(t[Nesting - 1])
      BY <1>1, <1>4, <2>3
    <3>2. \A w \in t[Nesting - 1] : F[w] = f[Nesting - 1][w]
      BY <1>7, <3>1
    <3>3. QED
      BY <2>1, <3>1, <3>2, StepOfCollection
  <2>4. QED
    BY <2>2, <2>3
<1>9. QED
  BY <1>1, <1>2, <1>5, <1>8 DEF t, F

(* Scalars have nothing inside. *)
LEMMA ScalarsAreLeaves ==
  /\ \A v \in DocumentScalars : Leaf(v)
  /\ \A v \in JsonScalars : Leaf(v)
<1>1. \A v \in PlainScalars : Leaf(v)
  <2>1. \A v \in [kind : {"bool"}, value : BOOLEAN] : v.kind = "bool"
    OBVIOUS
  <2>2. \A v \in [kind : {"string"}, len : Nat, form : Forms] : v.kind = "string"
    OBVIOUS
  <2>3. QED
    BY <2>1, <2>2 DEF PlainScalars, Leaf
<1>2. \A T : \A v \in [kind : {"integer"}, num : T] : v.kind = "integer"
  OBVIOUS
<1>3. \A T : \A v \in [kind : {"float"}, num : T] : v.kind = "float"
  OBVIOUS
<1>4. \A v \in [kind : {"bytes"}, len : Nat] : v.kind = "bytes"
  OBVIOUS
<1>5. \A T, P : \A v \in [kind : {"number"}, num : T, point : P] : v.kind = "number"
  OBVIOUS
<1>6. \A v \in DocumentScalars : Leaf(v)
  BY <1>1, <1>2, <1>3, <1>4 DEF DocumentScalars, Leaf
<1>7. \A v \in JsonScalars : Leaf(v)
  BY <1>1, <1>5 DEF JsonScalars, Leaf
<1>8. QED
  BY <1>6, <1>7

CanonicalInner == Folded(DocumentTrees, CanonicalNode)

(* The four functions of the code are such folds. *)
LEMMA FoldsOfTheCode ==
  /\ CanonicalInner = Fold("canonicalize", DocumentScalars)
  /\ Folded(DocumentTrees, HashStream) = Fold("hash", DocumentScalars)
  /\ Folded(DocumentTrees, EncodedNode) = Fold("encode", DocumentScalars)
  /\ Folded(JsonTrees, DecodedNode) = Fold("decode", JsonScalars)
BY DEF CanonicalInner, Folded, Fold, AreFolds, FoldBy, Step, DocumentTrees, JsonTrees

-----------------------------------------------------------------------------
(* sort_by. *)

Place(order, key) ==
  IF key \in Range(order) THEN Position(order, key)
                          ELSE Len(order) + Position(Lexicographic, key)

Sortable(entries) == IsSequence(entries) /\ \A i \in DOMAIN entries : entries[i].key \in Keys

(* The index at which a key is found holds the key. *)
LEMMA PositionHolds ==
  ASSUME NEW order, IsSequence(order), NEW key \in Range(order)
  PROVE  Position(order, key) \in 1..Len(order) /\ order[Position(order, key)] = key
<1>1. \E i \in DOMAIN order : order[i] = key
  BY DEF Range
<1>2. Position(order, key) \in DOMAIN order /\ order[Position(order, key)] = key
  BY <1>1 DEF Position
<1>3. QED
  BY <1>2, SequenceOf

(* compare_keys compares places, and no two keys share one. *)
LEMMA KeysHavePlaces ==
  ASSUME NEW order, IsSequence(order), NEW a \in Keys, NEW b \in Keys
  PROVE  /\ Place(order, a) \in Nat /\ Place(order, b) \in Nat
         /\ Place(order, a) = Place(order, b) => a = b
         /\ Precedes(order, a, b) <=> Place(order, a) < Place(order, b)
<1> DEFINE n == Len(order)
           pa == Position(order, a)
           pb == Position(order, b)
           la == Position(Lexicographic, a)
           lb == Position(Lexicographic, b)
<1>1. /\ n \in Nat
      /\ la \in 1..Len(Lexicographic) /\ Lexicographic[la] = a
      /\ lb \in 1..Len(Lexicographic) /\ Lexicographic[lb] = b
      /\ Len(Lexicographic) \in Nat
  BY KeysAssumption, PositionHolds, SequenceOf DEF Keys
<1>2. a \in Range(order) => pa \in 1..n /\ order[pa] = a
  BY PositionHolds
<1>3. b \in Range(order) => pb \in 1..n /\ order[pb] = b
  BY PositionHolds
<1>4. /\ Place(order, a) = IF a \in Range(order) THEN pa ELSE n + la
      /\ Place(order, b) = IF b \in Range(order) THEN pb ELSE n + lb
      /\ Precedes(order, a, b) <=>
           IF a \in Range(order) THEN b \in Range(order) => pa < pb
                                 ELSE b \notin Range(order) /\ la < lb
  BY DEF Place, Precedes
<1>5. la \in Nat /\ la > 0 /\ lb \in Nat /\ lb > 0
  BY <1>1
<1>6. (a \in Range(order) => pa \in Nat /\ pa <= n) /\ (b \in Range(order) => pb \in Nat /\ pb <= n)
  BY <1>1, <1>2, <1>3
<1> HIDE DEF n, pa, pb, la, lb
<1>7. Place(order, a) \in Nat /\ Place(order, b) \in Nat
  BY <1>1, <1>4, <1>5, <1>6
<1>8. ASSUME Place(order, a) = Place(order, b) PROVE a = b
  <2>1. CASE a \in Range(order) /\ b \in Range(order)
    BY <1>2, <1>3, <1>4, <1>8, <2>1
  <2>2. CASE a \notin Range(order) /\ b \notin Range(order)
    <3>1. n + la = n + lb
      BY <1>4, <1>8, <2>2
    <3>2. la = lb
      BY <1>1, <1>5, <3>1
    <3>3. QED
      BY <1>1, <3>2
  <2>3. CASE a \in Range(order) /\ b \notin Range(order)
    BY <1>1, <1>4, <1>5, <1>6, <1>8, <2>3
  <2>4. CASE a \notin Range(order) /\ b \in Range(order)
    BY <1>1, <1>4, <1>5, <1>6, <1>8, <2>4
  <2>5. QED
    BY <2>1, <2>2, <2>3, <2>4
<1>9. Precedes(order, a, b) <=> Place(order, a) < Place(order, b)
  BY <1>1, <1>4, <1>5, <1>6
<1>10. QED
  BY <1>7, <1>8, <1>9

PlaceOf(order, entries, i) == Place(order, entries[i].key)

Ranked(order, entries, i) ==
  Cardinality({ j \in DOMAIN entries : Before(order, entries, j, i) }) + 1

(* Entries are ordered by the place of the key, then by where they were. *)
LEMMA BeforeIs ==
  ASSUME NEW order, IsSequence(order), NEW entries, Sortable(entries),
         NEW i \in DOMAIN entries, NEW j \in DOMAIN entries
  PROVE  /\ PlaceOf(order, entries, i) \in Nat /\ PlaceOf(order, entries, j) \in Nat
         /\ Before(order, entries, i, j) <=>
              \/ PlaceOf(order, entries, i) < PlaceOf(order, entries, j)
              \/ PlaceOf(order, entries, i) = PlaceOf(order, entries, j) /\ i < j
<1>1. entries[i].key \in Keys /\ entries[j].key \in Keys
  BY DEF Sortable
<1>2. /\ PlaceOf(order, entries, i) \in Nat /\ PlaceOf(order, entries, j) \in Nat
      /\ Precedes(order, entries[i].key, entries[j].key)
           <=> PlaceOf(order, entries, i) < PlaceOf(order, entries, j)
      /\ Precedes(order, entries[j].key, entries[i].key)
           <=> PlaceOf(order, entries, j) < PlaceOf(order, entries, i)
  BY <1>1, KeysHavePlaces DEF PlaceOf
<1>3. QED
  BY <1>2 DEF Before

(* Every entry has a rank of its own, in that order. *)
LEMMA RanksAre ==
  ASSUME NEW order, IsSequence(order), NEW entries, Sortable(entries)
  PROVE  /\ \A i \in DOMAIN entries : Ranked(order, entries, i) \in DOMAIN entries
         /\ \A i, j \in DOMAIN entries :
              Before(order, entries, i, j) <=>
                Ranked(order, entries, i) < Ranked(order, entries, j)
         /\ \A i, j \in DOMAIN entries :
              Ranked(order, entries, i) = Ranked(order, entries, j) => i = j
<1> DEFINE n == Len(entries)
           P(i) == PlaceOf(order, entries, i)
           B(i, j) == Before(order, entries, i, j)
           lower(i) == { j \in 1..n : B(j, i) }
           rank(i) == Ranked(order, entries, i)
<1>1. n \in Nat /\ DOMAIN entries = 1..n
  BY SequenceOf DEF Sortable
<1>2. \A i, j \in 1..n :
        /\ P(i) \in Nat /\ P(j) \in Nat
        /\ B(i, j) <=> P(i) < P(j) \/ (P(i) = P(j) /\ i < j)
  BY <1>1, BeforeIs
<1>3. \A i \in 1..n : rank(i) = Cardinality(lower(i)) + 1
  BY <1>1 DEF Ranked
<1> HIDE DEF P, B, rank
<1>4. IsFiniteSet(1..n) /\ Cardinality(1..n) = n
  <2>1. 1 \in Int /\ n \in Int /\ n >= 0
    BY <1>1
  <2> HIDE DEF n
  <2>2. IsFiniteSet(1..n) /\ Cardinality(1..n) = IF 1 > n THEN 0 ELSE n - 1 + 1
    BY <2>1, FS_Interval
  <2>3. QED
    BY <2>1, <2>2
<1>5. \A i \in 1..n : IsFiniteSet(lower(i)) /\ Cardinality(lower(i)) \in Nat
  <2>1. ASSUME NEW i \in 1..n PROVE IsFiniteSet(lower(i))
    BY <1>4, FS_Subset
  <2>2. QED
    BY <2>1, FS_CardinalityType
<1>6. ASSUME NEW i \in 1..n PROVE rank(i) \in 1..n
  <2>1. lower(i) \subseteq (1..n) \ {i}
    <3>1. ~B(i, i)
      BY <1>2
    <3>2. QED
      BY <3>1
  <2>2. IsFiniteSet((1..n) \ {i}) /\ Cardinality((1..n) \ {i}) = n - 1
    BY <1>4, FS_RemoveElement
  <2>3. Cardinality(lower(i)) <= n - 1
    BY <2>1, <2>2, FS_Subset
  <2>4. /\ n \in Nat /\ Cardinality(lower(i)) \in Nat
        /\ rank(i) = Cardinality(lower(i)) + 1
    BY <1>1, <1>3, <1>5
  <2> HIDE DEF n, lower
  <2>5. QED
    BY <2>3, <2>4
<1>7. ASSUME NEW i \in 1..n, NEW j \in 1..n, B(i, j) PROVE rank(i) < rank(j)
  <2>1. lower(i) \subseteq lower(j) \ {i}
    <3>1. ASSUME NEW k \in 1..n, B(k, i) PROVE B(k, j) /\ k # i
      <4>1. /\ P(i) \in Nat /\ P(j) \in Nat /\ P(k) \in Nat /\ i \in Int /\ j \in Int /\ k \in Int
            /\ P(i) < P(j) \/ (P(i) = P(j) /\ i < j)
            /\ P(k) < P(i) \/ (P(k) = P(i) /\ k < i)
        BY <1>1, <1>2, <1>7, <3>1
      <4>2. (P(k) < P(j) \/ (P(k) = P(j) /\ k < j)) /\ k # i
        BY <4>1
      <4>3. QED
        BY <1>2, <4>2
    <3>2. QED
      BY <3>1
  <2>2. i \in lower(j)
    BY <1>7
  <2>3. /\ IsFiniteSet(lower(j) \ {i})
        /\ Cardinality(lower(j) \ {i}) = Cardinality(lower(j)) - 1
    BY <1>5, <2>2, FS_RemoveElement
  <2>4. Cardinality(lower(i)) <= Cardinality(lower(j)) - 1
    BY <2>1, <2>3, FS_Subset
  <2>5. /\ Cardinality(lower(i)) \in Nat /\ Cardinality(lower(j)) \in Nat
        /\ rank(i) = Cardinality(lower(i)) + 1 /\ rank(j) = Cardinality(lower(j)) + 1
    BY <1>3, <1>5
  <2> HIDE DEF lower
  <2>6. QED
    BY <2>4, <2>5
<1>8. ASSUME NEW i \in 1..n, NEW j \in 1..n PROVE i = j \/ B(i, j) \/ B(j, i)
  <2>1. P(i) \in Nat /\ P(j) \in Nat /\ i \in Int /\ j \in Int
    BY <1>1, <1>2
  <2>2. i = j \/ (P(i) < P(j) \/ (P(i) = P(j) /\ i < j)) \/ (P(j) < P(i) \/ (P(j) = P(i) /\ j < i))
    BY <2>1
  <2>3. QED
    BY <1>2, <2>2
<1>9. \A i \in 1..n : rank(i) \in 1..n /\ ~B(i, i)
  BY <1>2, <1>6
<1>10. \A i, j \in 1..n : B(i, j) => rank(i) < rank(j)
  BY <1>7
<1>11. ASSUME NEW i \in 1..n, NEW j \in 1..n
       PROVE  (B(i, j) <=> rank(i) < rank(j)) /\ (rank(i) = rank(j) => i = j)
  <2>1. /\ rank(i) \in Int /\ rank(j) \in Int
        /\ i = j \/ B(i, j) \/ B(j, i)
        /\ B(i, j) => rank(i) < rank(j)
        /\ B(j, i) => rank(j) < rank(i)
        /\ i = j => ~B(i, j) /\ rank(i) = rank(j)
    BY <1>8, <1>9, <1>10
  <2>2. QED
    BY <2>1
<1>12. QED
  BY <1>1, <1>9, <1>11 DEF B, rank

(* Sorting rearranges: the entry of rank k is put at k. *)
LEMMA SortedIs ==
  ASSUME NEW order, IsSequence(order), NEW entries, Sortable(entries)
  PROVE  \E from \in [DOMAIN entries -> DOMAIN entries] :
           /\ Sorted(order, entries) = [ k \in DOMAIN entries |-> entries[from[k]] ]
           /\ \A k \in DOMAIN entries : Ranked(order, entries, from[k]) = k
           /\ \A i \in DOMAIN entries : from[Ranked(order, entries, i)] = i
<1> DEFINE n == Len(entries)
           D == DOMAIN entries
           r(i) == Ranked(order, entries, i)
           f == [ i \in D |-> r(i) ]
           from == [ k \in D |-> CHOOSE i \in D : r(i) = k ]
<1>1. n \in Nat /\ D = 1..n
  BY SequenceOf DEF Sortable
<1>2. (\A i \in D : r(i) \in D) /\ (\A i, j \in D : r(i) = r(j) => i = j)
  BY RanksAre
<1> HIDE DEF r, D
<1>3. f \in [D -> D] /\ \A i, j \in D : f[i] = f[j] => i = j
  BY <1>2
<1>4. f \in Injection(D, D)
  BY <1>3 DEF Injection, IsInjective
<1>5. IsFiniteSet(D)
  BY <1>1, FS_Interval
<1>6. f \in Surjection(D, D)
  BY <1>4, <1>5, FS_Injection
<1>7. \A k \in D : \E i \in D : r(i) = k
  BY <1>6 DEF Surjection
<1>8. \A k \in D : from[k] \in D /\ r(from[k]) = k
  BY <1>7
<1>9. \A i \in D : from[r(i)] = i
  BY <1>2, <1>8
<1>10. Sorted(order, entries) = [ k \in D |-> entries[from[k]] ]
  BY DEF Sorted, Ranked, r, D
<1>11. from \in [D -> D]
  BY <1>8
<1> HIDE DEF from
<1>12. QED
  BY <1>8, <1>9, <1>10, <1>11 DEF r, D

InOrder(order, entries) ==
  \A i, j \in DOMAIN entries :
    i < j => PlaceOf(order, entries, i) <= PlaceOf(order, entries, j)

Apart(entries) == \A i, j \in DOMAIN entries : entries[i].key = entries[j].key => i = j

(* Sorting loses no entry, doubles none and leaves them in order. *)
LEMMA SortedOrders ==
  ASSUME NEW order, IsSequence(order), NEW entries, Sortable(entries)
  PROVE  /\ DOMAIN Sorted(order, entries) = DOMAIN entries
         /\ Range(Sorted(order, entries)) = Range(entries)
         /\ \A X : entries \in Seq(X) => Sorted(order, entries) \in Seq(X)
         /\ Sortable(Sorted(order, entries))
         /\ InOrder(order, Sorted(order, entries))
         /\ Apart(entries) => Apart(Sorted(order, entries))
<1> DEFINE D == DOMAIN entries
           s == Sorted(order, entries)
           n == Len(entries)
<1>1. n \in Nat /\ D = 1..n
  BY SequenceOf DEF Sortable
<1>2. PICK from \in [D -> D] :
        /\ s = [ k \in D |-> entries[from[k]] ]
        /\ \A k \in D : Ranked(order, entries, from[k]) = k
        /\ \A i \in D : from[Ranked(order, entries, i)] = i
  BY SortedIs
<1>3. \A i \in D : Ranked(order, entries, i) \in D
  BY RanksAre
<1> HIDE DEF D, s
<1>4. DOMAIN s = D /\ \A k \in D : from[k] \in D /\ s[k] = entries[from[k]]
  BY <1>2
<1>5. \A i \in D : \E k \in D : s[k] = entries[i]
  BY <1>2, <1>3, <1>4
<1>6. Range(s) = Range(entries)
  <2>1. Range(s) = { s[k] : k \in D } /\ Range(entries) = { entries[i] : i \in D }
    BY <1>4 DEF Range, D
  <2>2. QED
    BY <1>4, <1>5, <2>1
<1>7. ASSUME NEW X, entries \in Seq(X) PROVE s \in Seq(X)
  <2>1. \A i \in 1..n : entries[i] \in X
    BY <1>1, <1>7, ElementOfSeq DEF D
  <2>2. \A k \in 1..n : entries[from[k]] \in X
    BY <1>1, <1>4, <2>1
  <2>3. s = [ k \in 1..n |-> entries[from[k]] ]
    BY <1>1, <1>2
  <2>4. s \in [1..n -> X]
    BY <2>2, <2>3
  <2>5. QED
    BY <1>1, <2>4, SeqDef
<1>8. Sortable(s)
  <2>1. IsSequence(s)
    BY <1>7, SequenceIs DEF Sortable, IsSequence
  <2>2. QED
    BY <1>4, <2>1 DEF Sortable, D
<1>9. ASSUME NEW k \in D, NEW l \in D, k < l PROVE PlaceOf(order, s, k) <= PlaceOf(order, s, l)
  <2>1. Ranked(order, entries, from[k]) = k /\ Ranked(order, entries, from[l]) = l
    BY <1>2
  <2>2. Before(order, entries, from[k], from[l])
    BY <1>4, <1>9, <2>1, RanksAre DEF D
  <2>3. /\ PlaceOf(order, entries, from[k]) \in Nat /\ PlaceOf(order, entries, from[l]) \in Nat
        /\ \/ PlaceOf(order, entries, from[k]) < PlaceOf(order, entries, from[l])
           \/ PlaceOf(order, entries, from[k]) = PlaceOf(order, entries, from[l])
    BY <1>4, <2>2, BeforeIs DEF D
  <2>4. /\ PlaceOf(order, s, k) = PlaceOf(order, entries, from[k])
        /\ PlaceOf(order, s, l) = PlaceOf(order, entries, from[l])
    BY <1>4 DEF PlaceOf
  <2>5. QED
    BY <2>3, <2>4
<1>10. ASSUME Apart(entries) PROVE Apart(s)
  <2>1. ASSUME NEW k \in D, NEW l \in D, s[k].key = s[l].key PROVE k = l
    <3>1. from[k] = from[l]
      BY <1>4, <1>10, <2>1 DEF Apart, D
    <3>2. QED
      BY <1>2, <3>1
  <2>2. QED
    BY <1>4, <2>1 DEF Apart
<1>11. QED
  BY <1>4, <1>6, <1>7, <1>8, <1>9, <1>10 DEF InOrder, D, s

(* Entries already in order stay where they are, equal keys included. *)
LEMMA SortedInPlace ==
  ASSUME NEW order, IsSequence(order), NEW entries, Sortable(entries), InOrder(order, entries)
  PROVE  Sorted(order, entries) = entries
<1> DEFINE D == DOMAIN entries
           n == Len(entries)
<1>1. n \in Nat /\ D = 1..n /\ entries \in Seq(Range(entries))
  BY SequenceOf DEF Sortable
<1>2. PICK from \in [D -> D] :
        /\ Sorted(order, entries) = [ k \in D |-> entries[from[k]] ]
        /\ \A k \in D : Ranked(order, entries, from[k]) = k
        /\ \A i \in D : from[Ranked(order, entries, i)] = i
  BY SortedIs
<1> HIDE DEF D
<1>3. ASSUME NEW i \in D, NEW j \in D PROVE Before(order, entries, j, i) <=> j < i
  <2>1. /\ PlaceOf(order, entries, i) \in Nat /\ PlaceOf(order, entries, j) \in Nat
        /\ Before(order, entries, j, i) <=>
              \/ PlaceOf(order, entries, j) < PlaceOf(order, entries, i)
              \/ PlaceOf(order, entries, j) = PlaceOf(order, entries, i) /\ j < i
    BY BeforeIs DEF D
  <2>2. /\ i < j => PlaceOf(order, entries, i) <= PlaceOf(order, entries, j)
        /\ j < i => PlaceOf(order, entries, j) <= PlaceOf(order, entries, i)
    BY DEF InOrder, D
  <2>3. i \in Int /\ j \in Int
    BY <1>1
  <2>4. i < j \/ j < i \/ i = j
    BY <2>3
  <2>5. QED
    BY <2>1, <2>2, <2>3, <2>4
<1>4. ASSUME NEW i \in D PROVE Ranked(order, entries, i) = i
  <2>1. i \in Int /\ 1 <= i /\ i <= n /\ n \in Int
    BY <1>1
  <2>2. { j \in D : Before(order, entries, j, i) } = 1..i - 1
    <3>1. \A j \in D : Before(order, entries, j, i) <=> j < i
      BY <1>3
    <3>2. \A j : j \in D /\ j < i <=> j \in 1..i - 1
      BY <1>1, <2>1
    <3>3. QED
      BY <3>1, <3>2
  <2>3. Cardinality(1..i - 1) = IF 1 > i - 1 THEN 0 ELSE (i - 1) - 1 + 1
    <3>1. 1 \in Int /\ i - 1 \in Int
      BY <2>1
    <3>2. QED
      BY <3>1, FS_Interval
  <2>4. Cardinality(1..i - 1) = i - 1
    BY <2>1, <2>3
  <2>5. Ranked(order, entries, i) = Cardinality({ j \in D : Before(order, entries, j, i) }) + 1
    BY DEF Ranked, D
  <2>6. Ranked(order, entries, i) = (i - 1) + 1
    BY <2>2, <2>4, <2>5
  <2>7. QED
    BY <2>1, <2>6
<1>5. \A k \in D : from[k] = k
  BY <1>2, <1>4
<1>6. Sorted(order, entries) = [ k \in D |-> entries[k] ]
  BY <1>2, <1>5
<1>7. entries = [ k \in D |-> entries[k] ]
  BY <1>1, LenProperties DEF D
<1>8. QED
  BY <1>6, <1>7

(* How many entries come before one says where it is. *)
LEMMA PlacedByRank ==
  ASSUME NEW order, IsSequence(order), NEW entries, Sortable(entries), Apart(entries),
         InOrder(order, entries), NEW k \in DOMAIN entries
  PROVE  Cardinality({ e \in Range(entries) : Place(order, e.key) < PlaceOf(order, entries, k) })
           = k - 1
<1> DEFINE D == DOMAIN entries
           n == Len(entries)
           P(i) == PlaceOf(order, entries, i)
           lower == { e \in Range(entries) : Place(order, e.key) < P(k) }
           f == [ i \in 1..k - 1 |-> entries[i] ]
<1>1. n \in Nat /\ D = 1..n
  BY SequenceOf DEF Sortable
<1>2. k \in Int /\ 1 <= k /\ k <= n
  BY <1>1
<1>3. ASSUME NEW i \in D, NEW j \in D
      PROVE  P(i) \in Nat /\ (P(i) = P(j) => i = j) /\ (i < j => P(i) < P(j))
  <2>1. P(i) \in Nat /\ P(j) \in Nat /\ (P(i) = P(j) => entries[i].key = entries[j].key)
    BY KeysHavePlaces DEF PlaceOf, Sortable
  <2>2. P(i) = P(j) => i = j
    BY <2>1 DEF Apart
  <2>3. i < j => P(i) <= P(j) /\ i # j
    BY <1>1 DEF InOrder
  <2> HIDE DEF P
  <2>4. QED
    BY <2>1, <2>2, <2>3
<1>4. \A i \in D : i < k <=> P(i) < P(k)
  <2>1. ASSUME NEW i \in D PROVE i < k <=> P(i) < P(k)
    <3>1. /\ P(i) \in Nat /\ P(k) \in Nat
          /\ i < k => P(i) < P(k)
          /\ k < i => P(k) < P(i)
          /\ i = k => P(i) = P(k)
      BY <1>3
    <3>2. i \in Int
      BY <1>1
    <3> HIDE DEF P
    <3>3. QED
      BY <1>2, <3>1, <3>2
  <2>2. QED
    BY <2>1
<1>5. 1..k - 1 \subseteq D /\ \A i \in 1..k - 1 : i < k
  BY <1>1, <1>2
<1>6. \A i \in D : entries[i] \in lower <=> i < k
  <2>1. \A i \in D : entries[i] \in Range(entries) /\ P(i) = Place(order, entries[i].key)
    BY DEF Range, PlaceOf
  <2>2. QED
    BY <1>4, <2>1
<1>7. \A e \in lower : \E i \in 1..k - 1 : e = entries[i]
  <2>1. ASSUME NEW e \in lower PROVE \E i \in 1..k - 1 : e = entries[i]
    <3>1. PICK i \in D : e = entries[i]
      BY DEF Range
    <3>2. i < k
      BY <1>6, <3>1
    <3>3. i \in 1..k - 1
      BY <1>1, <1>2, <3>2
    <3>4. QED
      BY <3>1, <3>3
  <2>2. QED
    BY <2>1
<1> HIDE DEF lower
<1>8. f \in [1..k - 1 -> lower]
  BY <1>5, <1>6
<1>9. f \in Surjection(1..k - 1, lower)
  BY <1>7, <1>8 DEF Surjection
<1>10. f \in Injection(1..k - 1, lower)
  <2>1. \A i, j \in 1..k - 1 : entries[i] = entries[j] => i = j
    BY <1>5 DEF Apart
  <2>2. \A i, j \in 1..k - 1 : f[i] = f[j] => i = j
    BY <2>1
  <2>3. QED
    BY <1>8, <2>2 DEF Injection, IsInjective
<1>11. IsFiniteSet(1..k - 1) /\ Cardinality(1..k - 1) = k - 1
  <2>1. 1 \in Int /\ k - 1 \in Int
    BY <1>2
  <2>2. IsFiniteSet(1..k - 1) /\ Cardinality(1..k - 1) = IF 1 > k - 1 THEN 0 ELSE (k - 1) - 1 + 1
    BY <2>1, FS_Interval
  <2>3. QED
    BY <1>2, <2>2
<1>12. Cardinality(lower) = Cardinality(1..k - 1)
  BY <1>9, <1>10, <1>11, FS_Surjection
<1>13. QED
  BY <1>11, <1>12 DEF lower

(* Entries under different keys have one order only. *)
LEMMA OrderedOnce ==
  ASSUME NEW order, IsSequence(order), NEW s, NEW t, Sortable(s), Sortable(t),
         Apart(s), Apart(t), InOrder(order, s), InOrder(order, t),
         DOMAIN s = DOMAIN t, Range(s) = Range(t)
  PROVE  s = t
<1>1. /\ s = [ k \in DOMAIN s |-> s[k] ] /\ t = [ k \in DOMAIN t |-> t[k] ]
      /\ DOMAIN s = 1..Len(s) /\ Len(s) \in Nat
  <2>1. s \in Seq(Range(s)) /\ t \in Seq(Range(t))
    BY DEF Sortable, IsSequence
  <2>2. QED
    BY <2>1, LenProperties
<1>2. ASSUME NEW k \in DOMAIN s PROVE s[k] = t[k]
  <2>1. s[k] \in Range(t)
    BY DEF Range
  <2>2. PICK m \in DOMAIN t : s[k] = t[m]
    BY <2>1 DEF Range
  <2>3. PlaceOf(order, s, k) = PlaceOf(order, t, m)
    BY <2>2 DEF PlaceOf
  <2> DEFINE lower(p) == { e \in Range(t) : Place(order, e.key) < p }
  <2>8. Cardinality(lower(PlaceOf(order, s, k))) = k - 1
    BY PlacedByRank
  <2>9. Cardinality(lower(PlaceOf(order, t, m))) = m - 1
    BY PlacedByRank
  <2>4. k - 1 = m - 1
    BY <2>3, <2>8, <2>9
  <2>5. k \in Int /\ m \in Int
    BY <1>1
  <2>6. k = m
    BY <2>4, <2>5
  <2>7. QED
    BY <2>2, <2>6
<1>3. QED
  BY <1>1, <1>2

-----------------------------------------------------------------------------
(* canonicalize. *)

EncodedInner == Folded(DocumentTrees, EncodedNode)
DecodedInner == Folded(JsonTrees, DecodedNode)
HashInner    == Folded(DocumentTrees, HashStream)

(* Each function does to a tree what its node step says, and goes on       *)
(* inside.                                                                 *)
LEMMA Unfolded ==
  /\ \A v \in DocumentTrees[Nesting] :
       /\ CanonicalInner[v] = CanonicalNode(v, CanonicalInner)
       /\ EncodedInner[v] = EncodedNode(v, EncodedInner) /\ Encoded(v) = EncodedInner[v]
       /\ HashInner[v] = HashStream(v, HashInner) /\ Hash(v) = HashInner[v]
  /\ \A v \in JsonTrees[Nesting] :
       DecodedInner[v] = DecodedNode(v, DecodedInner) /\ Decoded(v) = DecodedInner[v]
<1> DEFINE C == Fold("canonicalize", DocumentScalars)
           E == Fold("encode", DocumentScalars)
           H == Fold("hash", DocumentScalars)
           D == Fold("decode", JsonScalars)
<1>1. /\ \A v \in DocumentTrees[Nesting] :
           /\ C[v] = Step("canonicalize", v, C)
           /\ E[v] = Step("encode", v, E)
           /\ H[v] = Step("hash", v, H)
      /\ \A v \in JsonTrees[Nesting] : D[v] = Step("decode", v, D)
  BY ScalarsAreLeaves, FoldUnfolds DEF Rules, DocumentTrees, JsonTrees
<1>2. CanonicalInner = C /\ EncodedInner = E /\ HashInner = H /\ DecodedInner = D
  BY FoldsOfTheCode DEF EncodedInner, DecodedInner, HashInner
<1>3. \A v, g : /\ Step("canonicalize", v, g) = CanonicalNode(v, g)
                /\ Step("encode", v, g) = EncodedNode(v, g)
                /\ Step("hash", v, g) = HashStream(v, g)
                /\ Step("decode", v, g) = DecodedNode(v, g)
  BY DEF Step
<1>4. \A v : Encoded(v) = EncodedInner[v] /\ Hash(v) = HashInner[v] /\ Decoded(v) = DecodedInner[v]
  BY DEF Encoded, Hash, Decoded, EncodedInner, DecodedInner, HashInner
<1> HIDE DEF C, E, H, D
<1>5. QED
  BY <1>1, <1>2, <1>3, <1>4

(* A collection whose elements are converted is a collection of what they  *)
(* are converted to.                                                       *)
LEMMA ConvertedTrees ==
  ASSUME NEW T, NEW U, NEW g, NEW v, \A w \in Children(v) : g[w] \in U
  PROVE  /\ v \in Lists(T) => Converted(v, g) \in Lists(U)
         /\ v \in Maps(T) => Converted(v, g) \in Maps(U)
<1>1. ASSUME v \in Lists(T) PROVE Converted(v, g) \in Lists(U)
  <2> DEFINE n == Len(v.items)
             items == [ i \in 1..n |-> g[v.items[i]] ]
  <2>1. n \in Nat /\ DOMAIN v.items = 1..n /\ v.kind = "list"
    BY <1>1, ListOfTrees
  <2>2. \A i \in 1..n : v.items[i] \in Children(v)
    BY <2>1, ChildrenAre
  <2>3. items \in [1..n -> U]
    BY <2>2
  <2>4. items \in Seq(U)
    BY <2>1, <2>3, SeqDef
  <2>5. Converted(v, g) = [kind |-> "list", items |-> items]
    BY <1>1, <2>1, ConvertedList
  <2> HIDE DEF items
  <2>6. QED
    BY <2>4, <2>5 DEF Lists
<1>2. ASSUME v \in Maps(T) PROVE Converted(v, g) \in Maps(U)
  <2> DEFINE n == Len(v.entries)
             F == [key : Keys, value : U]
             entries == [ i \in 1..n |-> [key |-> v.entries[i].key, value |-> g[v.entries[i].value]] ]
  <2>1. /\ n \in Nat /\ DOMAIN v.entries = 1..n /\ v.kind = "map"
        /\ \A i \in 1..n : v.entries[i].key \in Keys
    BY <1>2, MapOfTrees
  <2>2. \A i \in 1..n : v.entries[i].value \in Children(v)
    BY <2>1, ChildrenAre
  <2>3. entries \in [1..n -> F]
    BY <2>1, <2>2
  <2>4. entries \in Seq(F)
    BY <2>1, <2>3, SeqDef
  <2>5. Converted(v, g) = [kind |-> "map", entries |-> entries]
    BY <1>2, <2>1, ConvertedMap
  <2> HIDE DEF entries
  <2>6. QED
    BY <2>4, <2>5 DEF Maps
<1>3. QED
  BY <1>1, <1>2

(* And holds what its elements are converted to. *)
LEMMA ConvertedChildren ==
  ASSUME NEW T, NEW v \in Lists(T) \cup Maps(T), NEW g
  PROVE  Children(Converted(v, g)) = { g[w] : w \in Children(v) }
<1>1. CASE v \in Lists(T)
  <2> DEFINE c == Converted(v, g)
  <2>1. c = [kind |-> "list", items |-> [ i \in DOMAIN v.items |-> g[v.items[i]] ]]
    BY <1>1, ConvertedList
  <2>2. c.kind = "list" /\ DOMAIN c.items = DOMAIN v.items
        /\ \A i \in DOMAIN v.items : c.items[i] = g[v.items[i]]
    BY <2>1
  <2>3. v.kind = "list"
    BY <1>1, ListOfTrees
  <2> HIDE DEF c
  <2>4. /\ Children(c) = { c.items[i] : i \in DOMAIN v.items }
        /\ Children(v) = { v.items[i] : i \in DOMAIN v.items }
    BY <2>2, <2>3, ChildrenAre
  <2>5. QED
    BY <2>2, <2>4 DEF c
<1>2. CASE v \in Maps(T)
  <2> DEFINE c == Converted(v, g)
  <2>1. c = [kind |-> "map",
             entries |-> [ i \in DOMAIN v.entries |->
                             [key |-> v.entries[i].key, value |-> g[v.entries[i].value]] ]]
    BY <1>2, ConvertedMap
  <2>2. c.kind = "map" /\ DOMAIN c.entries = DOMAIN v.entries
        /\ \A i \in DOMAIN v.entries : c.entries[i].value = g[v.entries[i].value]
    BY <2>1
  <2>3. v.kind = "map"
    BY <1>2, MapOfTrees
  <2> HIDE DEF c
  <2>4. /\ Children(c) = { c.entries[i].value : i \in DOMAIN v.entries }
        /\ Children(v) = { v.entries[i].value : i \in DOMAIN v.entries }
    BY <2>2, <2>3, ChildrenAre
  <2>5. QED
    BY <2>2, <2>4 DEF c
<1>3. QED
  BY <1>1, <1>2

(* The entries of a map of trees can be sorted. *)
LEMMA EntriesAreSortable ==
  ASSUME NEW T, NEW v \in Maps(T)
  PROVE  Sortable(v.entries)
<1>1. v.entries \in Seq([key : Keys, value : T])
  BY MapOfTrees
<1>2. IsSequence(v.entries)
  BY <1>1, SequenceIs
<1>3. QED
  BY <1>2, MapOfTrees DEF Sortable

(* Arranging leaves a list alone, and keeps what a map holds. *)
LEMMA ArrangedTrees ==
  ASSUME NEW order, IsSequence(order), NEW T
  PROVE  /\ \A v \in Lists(T) : Arranged(order, v) = v
         /\ \A v \in Maps(T) :
              /\ Arranged(order, v) = [kind |-> "map", entries |-> Sorted(order, v.entries)]
              /\ Arranged(order, v) \in Maps(T)
              /\ Children(Arranged(order, v)) = Children(v)
<1>1. \A v \in Lists(T) : Arranged(order, v) = v
  BY ListOfTrees DEF Arranged
<1>2. ASSUME NEW v \in Maps(T)
      PROVE  /\ Arranged(order, v) = [kind |-> "map", entries |-> Sorted(order, v.entries)]
             /\ Arranged(order, v) \in Maps(T)
             /\ Children(Arranged(order, v)) = Children(v)
  <2> DEFINE s == Sorted(order, v.entries)
             a == Arranged(order, v)
  <2>1. v.kind = "map" /\ v = [kind |-> "map", entries |-> v.entries]
        /\ v.entries \in Seq([key : Keys, value : T])
    BY MapOfTrees
  <2>2. a = [kind |-> "map", entries |-> s]
    <3>1. a = [v EXCEPT !.entries = s]
      BY <2>1 DEF Arranged
    <3> HIDE DEF s
    <3>2. QED
      BY <2>1, <3>1
  <2>3. s \in Seq([key : Keys, value : T]) /\ Range(s) = Range(v.entries)
    BY <2>1, EntriesAreSortable, SortedOrders
  <2> HIDE DEF s, a
  <2>4. a \in Maps(T)
    BY <2>2, <2>3 DEF Maps
  <2>5. a.kind = "map" /\ a.entries = s
    BY <2>2
  <2>6. Elements(a) = Elements(v)
    BY <2>1, <2>3, <2>5 DEF Elements
  <2>7. QED
    BY <2>2, <2>4, <2>6 DEF Children, s, a
<1>3. QED
  BY <1>1, <1>2

(* What canonicalization makes of a document whose keys are in an order. *)
CanonicalBy(order, v) == Arranged(order, Converted(v, CanonicalInner))

OrderOf(fields) == [ i \in DOMAIN fields |-> fields[i].name ]

(* A scalar stays one, and arranging it again changes nothing. *)
LEMMA ArrangedScalars ==
  ASSUME NEW order, NEW v \in DocumentScalars
  PROVE  /\ Arranged(order, v) \in DocumentScalars
         /\ \A other : Arranged(other, Arranged(order, v)) = Arranged(order, v)
         /\ v.kind # "float" => Arranged(order, v) = v
         /\ v.kind = "float" =>
              Arranged(order, v) = [kind |-> "float", num |-> Normalized(v.num)]
<1>1. CASE v.kind # "float"
  <2>1. v.kind # "map"
    BY ScalarsAreLeaves DEF Leaf
  <2>2. \A other : Arranged(other, v) = v
    BY <1>1, <2>1 DEF Arranged
  <2>3. QED
    BY <1>1, <2>2
<1>2. CASE v.kind = "float"
  <2> DEFINE N == Float \cup {NaN, Infinite}
             z == [kind |-> "float", num |-> Normalized(v.num)]
  <2>1. v \in [kind : {"float"}, num : N]
    BY <1>2 DEF DocumentScalars, PlainScalars
  <2> HIDE DEF N
  <2>2. v = [kind |-> "float", num |-> v.num] /\ v.num \in N
    BY <2>1
  <2>3. \A other : Arranged(other, v) = z
    BY <2>2 DEF Arranged
  <2>4. Zero \in N
    BY DEF N, Float, Whole, Zero, Num
  <2>5. Normalized(v.num) \in N
    BY <2>2, <2>4 DEF Normalized
  <2>6. z \in DocumentScalars
    BY <2>5 DEF DocumentScalars, N
  <2>7. Normalized(Normalized(v.num)) = Normalized(v.num)
    <3>1. Zero # NegZero
      <4>1. DOMAIN Zero = {"is", "n"} /\ DOMAIN NegZero = {"is", "n", "negative"}
        BY DEF Zero, NegZero, Num
      <4>2. QED
        BY <4>1
    <3>2. QED
      BY <3>1 DEF Normalized
  <2>8. z.kind = "float" /\ z.num = Normalized(v.num)
    OBVIOUS
  <2>9. \A other : Arranged(other, z) = [kind |-> "float", num |-> Normalized(z.num)]
    BY <2>8 DEF Arranged
  <2>10. QED
    BY <1>2, <2>3, <2>6, <2>7, <2>8, <2>9
<1>3. QED
  BY <1>1, <1>2

(* Trees, case by case. *)
LEMMA TreesByShape ==
  ASSUME NEW scalars, \A x \in scalars : Leaf(x), NEW k \in 0..Nesting, NEW v \in Trees(scalars)[k]
  PROVE  /\ v \in Trees(scalars)[Nesting]
         /\ \/ v \in scalars /\ Leaf(v)
            \/ /\ k # 0 /\ k - 1 \in 0..Nesting
               /\ v \in Lists(Trees(scalars)[k - 1]) \cup Maps(Trees(scalars)[k - 1])
               /\ Trees(scalars)[k - 1] \subseteq Trees(scalars)[Nesting]
<1>1. Nesting \in Nat /\ Nesting \in 0..Nesting /\ k <= Nesting
  BY TreesByDepth
<1>2. v \in Trees(scalars)[Nesting]
  BY <1>1, TreesAreNested
<1>3. k - 1 \in 0..Nesting => Trees(scalars)[k - 1] \subseteq Trees(scalars)[Nesting]
  <2>1. SUFFICES ASSUME k - 1 \in 0..Nesting, NEW w \in Trees(scalars)[k - 1]
                 PROVE  w \in Trees(scalars)[Nesting]
    OBVIOUS
  <2>2. k - 1 <= Nesting
    BY <1>1, <2>1
  <2>3. QED
    BY <1>1, <2>1, <2>2, TreesAreNested
<1>4. \/ v \in scalars
      \/ /\ k # 0 /\ k - 1 \in 0..Nesting
         /\ v \in Lists(Trees(scalars)[k - 1]) \cup Maps(Trees(scalars)[k - 1])
  BY TreeShape
<1>5. QED
  BY <1>2, <1>3, <1>4

(* What a tree holds are trees that nest less deep. *)
LEMMA TreeChildren ==
  ASSUME NEW scalars, \A x \in scalars : Leaf(x), NEW k \in 0..Nesting, NEW v \in Trees(scalars)[k]
  PROVE  \A w \in Children(v) :
           /\ k # 0 /\ k - 1 \in 0..Nesting /\ w \in Trees(scalars)[k - 1]
           /\ w \in Trees(scalars)[Nesting]
<1>1. ASSUME NEW w \in Children(v)
      PROVE  /\ k # 0 /\ k - 1 \in 0..Nesting /\ w \in Trees(scalars)[k - 1]
             /\ w \in Trees(scalars)[Nesting]
  <2>1. ~Leaf(v)
    BY <1>1, ChildrenAre
  <2>2. /\ k # 0 /\ k - 1 \in 0..Nesting
        /\ v \in Lists(Trees(scalars)[k - 1]) \cup Maps(Trees(scalars)[k - 1])
        /\ Trees(scalars)[k - 1] \subseteq Trees(scalars)[Nesting]
    BY <2>1, TreesByShape
  <2>3. w \in Trees(scalars)[k - 1]
    BY <1>1, <2>2, ChildrenOfTrees
  <2>4. QED
    BY <2>2, <2>3
<1>2. QED
  BY <1>1

(* Documents, case by case. *)
LEMMA DocumentShape ==
  ASSUME NEW k \in 0..Nesting, NEW v \in DocumentTrees[k]
  PROVE  /\ v \in DocumentTrees[Nesting]
         /\ \/ v \in DocumentScalars /\ Leaf(v)
            \/ /\ k # 0 /\ k - 1 \in 0..Nesting
               /\ v \in Lists(DocumentTrees[k - 1]) \cup Maps(DocumentTrees[k - 1])
               /\ DocumentTrees[k - 1] \subseteq DocumentTrees[Nesting]
BY ScalarsAreLeaves, TreesByShape DEF DocumentTrees

(* A document's children are documents. *)
LEMMA DocumentChildren ==
  ASSUME NEW k \in 0..Nesting, NEW v \in DocumentTrees[k]
  PROVE  \A w \in Children(v) :
           /\ k # 0 /\ k - 1 \in 0..Nesting /\ w \in DocumentTrees[k - 1]
           /\ w \in DocumentTrees[Nesting]
BY ScalarsAreLeaves, TreeChildren DEF DocumentTrees

(* JSON values, case by case. *)
LEMMA JsonShape ==
  ASSUME NEW k \in 0..Nesting, NEW v \in JsonTrees[k]
  PROVE  /\ v \in JsonTrees[Nesting]
         /\ \/ v \in JsonScalars /\ Leaf(v)
            \/ /\ k # 0 /\ k - 1 \in 0..Nesting
               /\ v \in Lists(JsonTrees[k - 1]) \cup Maps(JsonTrees[k - 1])
               /\ JsonTrees[k - 1] \subseteq JsonTrees[Nesting]
BY ScalarsAreLeaves, TreesByShape DEF JsonTrees

(* What a JSON value holds are JSON values. *)
LEMMA JsonChildren ==
  ASSUME NEW k \in 0..Nesting, NEW v \in JsonTrees[k]
  PROVE  \A w \in Children(v) :
           /\ k # 0 /\ k - 1 \in 0..Nesting /\ w \in JsonTrees[k - 1]
           /\ w \in JsonTrees[Nesting]
BY ScalarsAreLeaves, TreeChildren DEF JsonTrees

(* A tree of one depth is a scalar, or holds trees of a depth less. *)
LEMMA TreesOf ==
  ASSUME NEW scalars, NEW k \in 0..Nesting
  PROVE  /\ scalars \subseteq Trees(scalars)[k]
         /\ k # 0 => /\ Lists(Trees(scalars)[k - 1]) \subseteq Trees(scalars)[k]
                     /\ Maps(Trees(scalars)[k - 1]) \subseteq Trees(scalars)[k]
<1>1. ASSUME NEW v \in scalars PROVE v \in Trees(scalars)[k]
  <2>1. 0 \in 0..Nesting /\ v \in Trees(scalars)[0] /\ 0 <= k
    BY TreesByDepth
  <2>2. QED
    BY <2>1, TreesAreNested
<1>2. QED
  BY <1>1, TreesByDepth

(* The canonical form of a document is one, as deep as the document. *)
LEMMA CanonicalTyped ==
  ASSUME NEW k \in 0..Nesting, NEW v \in DocumentTrees[k]
  PROVE  /\ CanonicalInner[v] \in DocumentTrees[k]
         /\ CanonicalInner[v] = CanonicalBy(<< >>, v)
         /\ \A order : IsSequence(order) => CanonicalBy(order, v) \in DocumentTrees[k]
<1> DEFINE S == { x \in DocumentTrees[Nesting] :
                    \A j \in 0..Nesting : x \in DocumentTrees[j] => CanonicalInner[x] \in DocumentTrees[j] }
<1>1. \A x \in DocumentTrees[Nesting] : CanonicalInner[x] = CanonicalBy(<< >>, x)
  BY Unfolded DEF CanonicalNode, CanonicalBy
<1>2. IsSequence(<< >>)
  <2>1. << >> \in Seq({})
    OBVIOUS
  <2>2. QED
    BY <2>1, SequenceIs
<1>3. ASSUME NEW j \in 0..Nesting, NEW x \in DocumentTrees[j],
             \A w \in Children(x) : w \in S,
             NEW order, IsSequence(order)
      PROVE  CanonicalBy(order, x) \in DocumentTrees[j]
  <2>1. CASE Leaf(x)
    <3>1. x \in DocumentScalars
      <4>1. \A T : x \notin Lists(T) /\ x \notin Maps(T)
        BY <2>1, ListOfTrees, MapOfTrees DEF Leaf
      <4>2. QED
        BY <4>1, DocumentShape
    <3>2. CanonicalBy(order, x) = Arranged(order, x)
      BY <2>1, ConvertedLeaf DEF CanonicalBy
    <3>3. CanonicalBy(order, x) \in DocumentScalars
      BY <3>1, <3>2, ArrangedScalars
    <3>4. QED
      BY <3>3, TreesOf DEF DocumentTrees
  <2>2. CASE ~Leaf(x)
    <3> DEFINE T == DocumentTrees[j - 1]
               c == Converted(x, CanonicalInner)
    <3>1. j # 0 /\ j - 1 \in 0..Nesting /\ x \in Lists(T) \cup Maps(T)
      BY <2>2, DocumentShape
    <3>2. /\ Lists(T) \subseteq DocumentTrees[j] /\ Maps(T) \subseteq DocumentTrees[j]
      BY <3>1, TreesOf DEF DocumentTrees
    <3>3. \A w \in Children(x) : w \in T
      BY <3>1, ChildrenOfTrees
    <3>4. \A w \in Children(x) : CanonicalInner[w] \in T
      BY <1>3, <3>1, <3>3
    <3> HIDE DEF T
    <3>5. c \in Lists(T) \cup Maps(T)
      BY <3>1, <3>4, ConvertedTrees
    <3>6. Arranged(order, c) \in Lists(T) \cup Maps(T)
      BY <1>3, <3>5, ArrangedTrees
    <3>7. QED
      BY <3>2, <3>6 DEF CanonicalBy
  <2>3. QED
    BY <2>1, <2>2
<1>4. ASSUME NEW x \in DocumentTrees[Nesting],
             \A w \in Children(x) : w \in DocumentTrees[Nesting] /\ w \in S
      PROVE  x \in S
  <2>1. ASSUME NEW j \in 0..Nesting, x \in DocumentTrees[j]
        PROVE  CanonicalInner[x] \in DocumentTrees[j]
    BY <1>1, <1>2, <1>3, <1>4, <2>1
  <2>2. QED
    BY <2>1
<1>5. DocumentTrees[Nesting] \subseteq S
  <2> HIDE DEF S
  <2>1. QED
    BY <1>4, ScalarsAreLeaves, TreeInduction DEF DocumentTrees
<1>6. v \in DocumentTrees[Nesting] /\ \A w \in Children(v) : w \in DocumentTrees[Nesting]
  <2>1. v \in DocumentTrees[Nesting]
    BY DocumentShape
  <2>2. ASSUME NEW w \in Children(v) PROVE w \in DocumentTrees[Nesting]
    BY <2>2, DocumentShape, ChildrenAre, ChildrenOfTrees
  <2>3. QED
    BY <2>1, <2>2
<1>7. \A order : IsSequence(order) => CanonicalBy(order, v) \in DocumentTrees[k]
  <2> HIDE DEF S
  <2>1. QED
    BY <1>3, <1>5, <1>6
<1>8. QED
  BY <1>1, <1>2, <1>6, <1>7

-----------------------------------------------------------------------------
(* Canonical documents. *)

(* A collection whose elements stay what they are stays what it is. *)
LEMMA ConvertedToItself ==
  ASSUME NEW T, NEW v \in Lists(T) \cup Maps(T), NEW g, \A w \in Children(v) : g[w] = w
  PROVE  Converted(v, g) = v
<1>1. CASE v \in Lists(T)
  <2>1. /\ v.kind = "list" /\ v = [kind |-> "list", items |-> v.items] /\ v.items \in Seq(T)
    BY <1>1, ListOfTrees
  <2>2. \A i \in DOMAIN v.items : v.items[i] \in Children(v)
    BY <2>1, ChildrenAre
  <2>3. v.items = [ i \in DOMAIN v.items |-> v.items[i] ]
    BY <2>1, LenProperties
  <2>4. [ i \in DOMAIN v.items |-> g[v.items[i]] ] = [ i \in DOMAIN v.items |-> v.items[i] ]
    BY <2>2
  <2>5. Converted(v, g) = [kind |-> "list", items |-> [ i \in DOMAIN v.items |-> g[v.items[i]] ]]
    BY <1>1, ConvertedList
  <2>6. QED
    BY <2>1, <2>3, <2>4, <2>5
<1>2. CASE v \in Maps(T)
  <2> DEFINE c == [ i \in DOMAIN v.entries |->
                      [key |-> v.entries[i].key, value |-> g[v.entries[i].value]] ]
  <2>1. /\ v.kind = "map" /\ v = [kind |-> "map", entries |-> v.entries]
        /\ v.entries \in Seq([key : Keys, value : T])
        /\ \A i \in DOMAIN v.entries :
             v.entries[i] = [key |-> v.entries[i].key, value |-> v.entries[i].value]
    BY <1>2, MapOfTrees
  <2>2. \A i \in DOMAIN v.entries : v.entries[i].value \in Children(v)
    BY <2>1, ChildrenAre
  <2>3. v.entries = [ i \in DOMAIN v.entries |-> v.entries[i] ]
    BY <2>1, LenProperties
  <2>4. \A i \in DOMAIN v.entries :
          [key |-> v.entries[i].key, value |-> g[v.entries[i].value]] = v.entries[i]
    BY <2>1, <2>2
  <2>5. c = [ i \in DOMAIN v.entries |-> v.entries[i] ]
    BY <2>4
  <2>6. Converted(v, g) = [kind |-> "map", entries |-> c]
    BY <1>2, ConvertedMap
  <2> HIDE DEF c
  <2>7. QED
    BY <2>1, <2>3, <2>5, <2>6
<1>3. QED
  BY <1>1, <1>2

(* What is arranged stays as it is. *)
LEMMA ArrangedTwice ==
  ASSUME NEW order, IsSequence(order), NEW T, NEW v \in Lists(T) \cup Maps(T)
  PROVE  Arranged(order, Arranged(order, v)) = Arranged(order, v)
<1>1. CASE v \in Lists(T)
  BY <1>1, ArrangedTrees
<1>2. CASE v \in Maps(T)
  <2> DEFINE s == Sorted(order, v.entries)
             a == Arranged(order, v)
  <2>1. a = [kind |-> "map", entries |-> s] /\ a \in Maps(T)
    BY <1>2, ArrangedTrees
  <2>2. Sorted(order, s) = s
    <3>1. Sortable(v.entries)
      BY <1>2, EntriesAreSortable
    <3>2. Sortable(s) /\ InOrder(order, s)
      BY <3>1, SortedOrders
    <3> HIDE DEF s
    <3>3. QED
      BY <3>2, SortedInPlace
  <2> HIDE DEF s, a
  <2>3. a.entries = s
    BY <2>1
  <2>4. Arranged(order, a) = [kind |-> "map", entries |-> Sorted(order, a.entries)]
    BY <2>1, ArrangedTrees
  <2>5. QED
    BY <2>1, <2>2, <2>3, <2>4 DEF a
<1>3. QED
  BY <1>1, <1>2

(* A canonical form holds the canonical forms of what the document holds.  *)
LEMMA CanonicalChildren ==
  ASSUME NEW v \in DocumentTrees[Nesting], NEW order, IsSequence(order)
  PROVE  Children(CanonicalBy(order, v)) = { CanonicalInner[w] : w \in Children(v) }
<1> DEFINE c == Converted(v, CanonicalInner)
<1>1. Nesting \in 0..Nesting
  BY TreesByDepth
<1>2. CASE v \in DocumentScalars /\ Leaf(v)
  <2>1. CanonicalBy(order, v) = Arranged(order, v)
    BY <1>2, ConvertedLeaf DEF CanonicalBy
  <2>2. Arranged(order, v) \in DocumentScalars
    BY <1>2, ArrangedScalars
  <2>3. Children(v) = {} /\ Children(Arranged(order, v)) = {}
    BY <1>2, <2>2, ScalarsAreLeaves, ChildrenAre
  <2>4. QED
    BY <2>1, <2>3
<1>3. ASSUME NEW T, v \in Lists(T) \cup Maps(T), \A w \in Children(v) : CanonicalInner[w] \in T
      PROVE  Children(CanonicalBy(order, v)) = { CanonicalInner[w] : w \in Children(v) }
  <2>1. c \in Lists(T) \cup Maps(T)
    BY <1>3, ConvertedTrees
  <2>2. Children(c) = { CanonicalInner[w] : w \in Children(v) }
    BY <1>3, ConvertedChildren
  <2> HIDE DEF c
  <2>3. Children(Arranged(order, c)) = Children(c)
    BY <2>1, ArrangedTrees
  <2>4. QED
    BY <2>2, <2>3 DEF CanonicalBy, c
<1>4. CASE ~(v \in DocumentScalars /\ Leaf(v))
  <2> DEFINE T == DocumentTrees[Nesting - 1]
  <2>1. /\ Nesting - 1 \in 0..Nesting /\ v \in Lists(T) \cup Maps(T)
        /\ \A w \in Children(v) : w \in T
    BY <1>1, <1>4, DocumentShape, DocumentChildren
  <2>2. \A w \in Children(v) : CanonicalInner[w] \in T
    BY <2>1, CanonicalTyped
  <2> HIDE DEF T
  <2>3. QED
    BY <1>3, <2>1, <2>2
<1>5. QED
  BY <1>2, <1>4

(* Canonicalizing what is canonical changes nothing, at any depth. *)
LEMMA CanonicalTwice ==
  ASSUME NEW v \in DocumentTrees[Nesting], NEW order, IsSequence(order)
  PROVE  CanonicalBy(order, CanonicalBy(order, v)) = CanonicalBy(order, v)
<1> DEFINE S == { x \in DocumentTrees[Nesting] :
                    CanonicalInner[CanonicalInner[x]] = CanonicalInner[x] }
<1>1. Nesting \in 0..Nesting
  BY TreesByDepth
<1>2. ASSUME NEW x \in DocumentTrees[Nesting], \A w \in Children(x) : w \in S,
             NEW o, IsSequence(o)
      PROVE  CanonicalBy(o, CanonicalBy(o, x)) = CanonicalBy(o, x)
  <2> DEFINE a == CanonicalBy(o, x)
  <2>1. CASE x \in DocumentScalars /\ Leaf(x)
    <3>1. a = Arranged(o, x)
      BY <2>1, ConvertedLeaf DEF CanonicalBy
    <3>2. a \in DocumentScalars /\ Arranged(o, a) = a
      BY <2>1, <3>1, ArrangedScalars
    <3> HIDE DEF a
    <3>3. CanonicalBy(o, a) = Arranged(o, a)
      BY <3>2, ScalarsAreLeaves, ConvertedLeaf DEF CanonicalBy
    <3>4. QED
      BY <3>2, <3>3 DEF a
  <2>2. ASSUME NEW T, x \in Lists(T) \cup Maps(T), \A w \in Children(x) : CanonicalInner[w] \in T
        PROVE  CanonicalBy(o, CanonicalBy(o, x)) = CanonicalBy(o, x)
    <3> DEFINE c == Converted(x, CanonicalInner)
    <3>1. c \in Lists(T) \cup Maps(T)
      BY <2>2, ConvertedTrees
    <3>2. a = Arranged(o, c)
      BY DEF CanonicalBy
    <3>3. Children(a) = { CanonicalInner[w] : w \in Children(x) }
      BY <1>2, CanonicalChildren
    <3> HIDE DEF a, c
    <3>4. a \in Lists(T) \cup Maps(T) /\ Arranged(o, a) = a
      BY <1>2, <3>1, <3>2, ArrangedTrees, ArrangedTwice
    <3>5. \A w \in Children(a) : CanonicalInner[w] = w
      BY <1>2, <3>3
    <3>6. Converted(a, CanonicalInner) = a
      BY <3>4, <3>5, ConvertedToItself
    <3>7. CanonicalBy(o, a) = a
      BY <3>4, <3>6 DEF CanonicalBy
    <3>8. QED
      BY <3>7 DEF a
  <2>3. CASE ~(x \in DocumentScalars /\ Leaf(x))
    <3> DEFINE T == DocumentTrees[Nesting - 1]
    <3>1. /\ Nesting - 1 \in 0..Nesting /\ x \in Lists(T) \cup Maps(T)
          /\ \A w \in Children(x) : w \in T
      BY <1>1, <2>3, DocumentShape, DocumentChildren
    <3>2. \A w \in Children(x) : CanonicalInner[w] \in T
      BY <3>1, CanonicalTyped
    <3> HIDE DEF T
    <3>3. QED
      BY <2>2, <3>1, <3>2
  <2>4. QED
    BY <2>1, <2>3
<1>3. ASSUME NEW x \in DocumentTrees[Nesting],
             \A w \in Children(x) : w \in DocumentTrees[Nesting] /\ w \in S
      PROVE  x \in S
  <2>1. IsSequence(<< >>)
    <3>1. << >> \in Seq({})
      OBVIOUS
    <3>2. QED
      BY <3>1, SequenceIs
  <2>2. CanonicalBy(<< >>, CanonicalBy(<< >>, x)) = CanonicalBy(<< >>, x)
    BY <1>2, <1>3, <2>1
  <2>3. /\ CanonicalInner[x] = CanonicalBy(<< >>, x) /\ CanonicalInner[x] \in DocumentTrees[Nesting]
        /\ CanonicalInner[CanonicalInner[x]] = CanonicalBy(<< >>, CanonicalInner[x])
    BY <1>1, CanonicalTyped
  <2>4. QED
    BY <2>2, <2>3
<1>4. DocumentTrees[Nesting] \subseteq S
  <2> HIDE DEF S
  <2>1. QED
    BY <1>3, ScalarsAreLeaves, TreeInduction DEF DocumentTrees
<1>5. \A w \in Children(v) : w \in S
  <2> HIDE DEF S
  <2>1. QED
    BY <1>1, <1>4, DocumentChildren
<1>6. QED
  <2> HIDE DEF S
  <2>1. QED
    BY <1>2, <1>5

-----------------------------------------------------------------------------
(* What is nested in a document. *)

(* Below one of its elements, a value holds what the element holds. *)
LEMMA BelowChild ==
  ASSUME NEW v, NEW w \in Children(v), NEW k \in Nat
  PROVE  AtDepth(w, k) \subseteq AtDepth(v, k + 1)
<1> DEFINE bad == { j \in Nat : ~(AtDepth(w, j) \subseteq AtDepth(v, j + 1)) }
<1>1. SUFFICES ASSUME bad # {} PROVE FALSE
  OBVIOUS
<1>2. PICK j \in bad : \A i \in bad : j <= i
  <2>1. bad \in SUBSET Nat
    OBVIOUS
  <2> HIDE DEF bad
  <2>2. QED
    BY <1>1, <2>1, LeastOfNaturals
<1>3. j \in Nat /\ ~(AtDepth(w, j) \subseteq AtDepth(v, j + 1))
  OBVIOUS
<1>4. CASE j = 0
  <2>1. AtDepth(w, 0) = {w} /\ AtDepth(v, 0) = {v}
    BY AtDepthSteps
  <2>2. 0 \in Nat /\ AtDepth(v, 0 + 1) = UNION { Children(x) : x \in AtDepth(v, 0) }
    BY AtDepthSteps
  <2>3. w \in AtDepth(v, 0 + 1)
    BY <2>1, <2>2
  <2>4. QED
    BY <1>3, <1>4, <2>1, <2>3
<1>5. CASE j # 0
  <2>1. j - 1 \in Nat /\ (j - 1) + 1 = j /\ ~(j <= j - 1)
    BY <1>3, <1>5
  <2>2. AtDepth(w, j - 1) \subseteq AtDepth(v, j)
    <3>1. j - 1 \notin bad
      BY <1>2, <2>1
    <3>2. QED
      BY <2>1, <3>1
  <2>3. AtDepth(w, j) = UNION { Children(x) : x \in AtDepth(w, j - 1) }
    BY <2>1, AtDepthSteps
  <2>4. AtDepth(v, j + 1) = UNION { Children(x) : x \in AtDepth(v, j) }
    BY <1>3, AtDepthSteps
  <2>5. QED
    BY <1>3, <2>2, <2>3, <2>4
<1>6. QED
  BY <1>4, <1>5

(* A tree holds nothing deeper than it nests. *)
LEMMA DepthIsBounded ==
  ASSUME NEW m \in 0..Nesting, NEW v \in DocumentTrees[m], NEW k \in Nat
  PROVE  \A w \in AtDepth(v, k) :
           k <= m /\ m - k \in 0..Nesting /\ w \in DocumentTrees[m - k]
<1> DEFINE fine(j) == \A w \in AtDepth(v, j) :
                        j <= m /\ m - j \in 0..Nesting /\ w \in DocumentTrees[m - j]
           bad == { j \in Nat : ~fine(j) }
<1>1. SUFFICES ASSUME bad # {} PROVE FALSE
  OBVIOUS
<1>2. PICK j \in bad : \A i \in bad : j <= i
  <2>1. bad \in SUBSET Nat
    OBVIOUS
  <2> HIDE DEF bad
  <2>2. QED
    BY <1>1, <2>1, LeastOfNaturals
<1>3. j \in Nat /\ ~fine(j) /\ Nesting \in Nat
  BY TreesByDepth
<1>4. CASE j = 0
  <2>1. AtDepth(v, 0) = {v} /\ m - 0 = m /\ 0 <= m
    BY <1>3, AtDepthSteps
  <2>2. fine(0)
    BY <2>1
  <2>3. QED
    BY <1>3, <1>4, <2>2
<1>5. CASE j # 0
  <2>1. j - 1 \in Nat /\ (j - 1) + 1 = j /\ ~(j <= j - 1)
    BY <1>3, <1>5
  <2>2. fine(j - 1)
    <3>1. j - 1 \notin bad
      BY <1>2, <2>1
    <3>2. QED
      BY <2>1, <3>1
  <2>3. AtDepth(v, j) = UNION { Children(x) : x \in AtDepth(v, j - 1) }
    BY <2>1, AtDepthSteps
  <2>4. ASSUME NEW w \in AtDepth(v, j)
        PROVE  j <= m /\ m - j \in 0..Nesting /\ w \in DocumentTrees[m - j]
    <3>1. PICK x \in AtDepth(v, j - 1) : w \in Children(x)
      BY <2>3
    <3>2. j - 1 <= m /\ m - (j - 1) \in 0..Nesting /\ x \in DocumentTrees[m - (j - 1)]
      BY <2>2
    <3>3. /\ m - (j - 1) # 0 /\ (m - (j - 1)) - 1 \in 0..Nesting
          /\ w \in DocumentTrees[(m - (j - 1)) - 1]
      BY <3>1, <3>2, DocumentChildren
    <3>4. (m - (j - 1)) - 1 = m - j /\ j <= m
      BY <1>3, <3>2, <3>3
    <3>5. QED
      BY <3>3, <3>4
  <2>5. QED
    BY <1>3, <2>4
<1>6. QED
  BY <1>4, <1>5

(* A document is one of the values nested in it, with all that are nested  *)
(* in one of its elements.                                                 *)
LEMMA NestedInDocument ==
  ASSUME NEW v \in DocumentTrees[Nesting]
  PROVE  /\ v \in Nested(v, Nesting)
         /\ \A w \in Children(v) : Nested(w, Nesting) \subseteq Nested(v, Nesting)
         /\ \A w \in Nested(v, Nesting) : w \in DocumentTrees[Nesting]
<1>1. Nesting \in Nat /\ Nesting \in 0..Nesting /\ 0 \in 0..Nesting /\ 0 \in Nat
  BY TreesByDepth
<1>2. v \in Nested(v, Nesting)
  <2>1. AtDepth(v, 0) = {v}
    BY <1>1, AtDepthSteps
  <2>2. QED
    BY <1>1, <2>1 DEF Nested
<1>3. ASSUME NEW w \in Children(v), NEW x \in Nested(w, Nesting)
      PROVE  x \in Nested(v, Nesting)
  <2>1. PICK k \in 0..Nesting : x \in AtDepth(w, k)
    BY <1>3 DEF Nested
  <2>2. Nesting - 1 \in 0..Nesting /\ w \in DocumentTrees[Nesting - 1]
    BY <1>1, <1>3, DocumentChildren
  <2>3. k <= Nesting - 1 /\ k \in Nat
    BY <1>1, <2>1, <2>2, DepthIsBounded
  <2>4. x \in AtDepth(v, k + 1) /\ k + 1 \in 0..Nesting
    BY <1>1, <1>3, <2>1, <2>3, BelowChild
  <2>5. QED
    BY <2>4 DEF Nested
<1>4. ASSUME NEW w \in Nested(v, Nesting) PROVE w \in DocumentTrees[Nesting]
  <2>1. PICK k \in 0..Nesting : w \in AtDepth(v, k)
    BY <1>4 DEF Nested
  <2>2. k \in Nat /\ Nesting - k \in 0..Nesting /\ w \in DocumentTrees[Nesting - k]
    BY <1>1, <2>1, DepthIsBounded
  <2>3. QED
    BY <2>2, DocumentShape
<1>5. QED
  BY <1>2, <1>3, <1>4

(* Whatever a canonical form holds is the canonical form of what the       *)
(* document holds there.                                                   *)
LEMMA CanonicalDepths ==
  ASSUME NEW v \in DocumentTrees[Nesting], NEW order, IsSequence(order), NEW k \in Nat
  PROVE  \A u \in AtDepth(CanonicalBy(order, v), k) :
           \E w \in AtDepth(v, k) : \E o : IsSequence(o) /\ u = CanonicalBy(o, w)
<1> DEFINE a == CanonicalBy(order, v)
           from(j) == \A u \in AtDepth(a, j) :
                        \E w \in AtDepth(v, j) : \E o : IsSequence(o) /\ u = CanonicalBy(o, w)
           bad == { j \in Nat : ~from(j) }
<1>1. SUFFICES ASSUME bad # {} PROVE FALSE
  OBVIOUS
<1>2. PICK j \in bad : \A i \in bad : j <= i
  <2>1. bad \in SUBSET Nat
    OBVIOUS
  <2> HIDE DEF bad
  <2>2. QED
    BY <1>1, <2>1, LeastOfNaturals
<1>3. j \in Nat /\ ~from(j) /\ Nesting \in Nat /\ Nesting \in 0..Nesting
  BY TreesByDepth
<1>4. CASE j = 0
  <2>1. AtDepth(v, 0) = {v} /\ AtDepth(a, 0) = {a}
    BY AtDepthSteps
  <2>2. from(0)
    BY <2>1
  <2>3. QED
    BY <1>3, <1>4, <2>2
<1>5. CASE j # 0
  <2>1. j - 1 \in Nat /\ (j - 1) + 1 = j /\ ~(j <= j - 1)
    BY <1>3, <1>5
  <2>2. from(j - 1)
    <3>1. j - 1 \notin bad
      BY <1>2, <2>1
    <3>2. QED
      BY <2>1, <3>1
  <2>3. /\ AtDepth(v, j) = UNION { Children(x) : x \in AtDepth(v, j - 1) }
        /\ AtDepth(a, j) = UNION { Children(x) : x \in AtDepth(a, j - 1) }
    BY <2>1, AtDepthSteps
  <2>4. ASSUME NEW u \in AtDepth(a, j)
        PROVE  \E w \in AtDepth(v, j) : \E o : IsSequence(o) /\ u = CanonicalBy(o, w)
    <3>1. PICK y \in AtDepth(a, j - 1) : u \in Children(y)
      BY <2>3
    <3>2. PICK x \in AtDepth(v, j - 1) : \E o : IsSequence(o) /\ y = CanonicalBy(o, x)
      BY <2>2
    <3>3. x \in DocumentTrees[Nesting]
      <4>1. Nesting - (j - 1) \in 0..Nesting /\ x \in DocumentTrees[Nesting - (j - 1)]
        BY <1>3, <2>1, DepthIsBounded
      <4>2. QED
        BY <4>1, DocumentShape
    <3>4. PICK w \in Children(x) : u = CanonicalInner[w]
      BY <3>1, <3>2, <3>3, CanonicalChildren
    <3>5. w \in AtDepth(v, j)
      BY <2>3
    <3>6. w \in DocumentTrees[Nesting]
      BY <1>3, <3>3, DocumentChildren
    <3>7. u = CanonicalBy(<< >>, w)
      BY <1>3, <3>4, <3>6, CanonicalTyped
    <3>8. IsSequence(<< >>)
      <4>1. << >> \in Seq({})
        OBVIOUS
      <4>2. QED
        BY <4>1, SequenceIs
    <3>9. QED
      BY <3>5, <3>7, <3>8
  <2>5. QED
    BY <1>3, <2>4
<1>6. QED
  BY <1>4, <1>5

(* Of each value nested in a document, canonicalizing keeps the kind, the  *)
(* size, the finiteness of a number and that no key is there twice.        *)
LEMMA CanonicalKeeps ==
  ASSUME NEW v \in DocumentTrees[Nesting], NEW order, IsSequence(order)
  PROVE  LET a == CanonicalBy(order, v)
         IN  /\ a.kind = v.kind
             /\ v.kind = "map" => (Apart(v.entries) => Apart(a.entries))
             /\ v.kind = "float" => (v.num.is = "number" => a.num.is = "number")
             /\ v.kind \in {"list", "map"} => Size(a) = Size(v)
             /\ TooLarge(a) => TooLarge(v)
<1> DEFINE a == CanonicalBy(order, v)
           goal == /\ a.kind = v.kind
                   /\ v.kind = "map" => (Apart(v.entries) => Apart(a.entries))
                   /\ v.kind = "float" => (v.num.is = "number" => a.num.is = "number")
                   /\ v.kind \in {"list", "map"} => Size(a) = Size(v)
                   /\ TooLarge(a) => TooLarge(v)
<1>1. CASE v \in DocumentScalars /\ Leaf(v)
  <2>1. a = Arranged(order, v)
    BY <1>1, ConvertedLeaf DEF CanonicalBy
  <2> HIDE DEF a
  <2>2. CASE v.kind # "float"
    <3>1. a = v
      BY <1>1, <2>1, <2>2, ArrangedScalars
    <3>2. QED
      BY <2>2, <3>1 DEF a
  <2>3. CASE v.kind = "float"
    <3>1. a = [kind |-> "float", num |-> Normalized(v.num)]
      BY <1>1, <2>1, <2>3, ArrangedScalars
    <3>2. a.kind = "float" /\ a.num = Normalized(v.num)
      BY <3>1
    <3>3. v.num.is = "number" => a.num.is = "number"
      BY <3>2 DEF Normalized, Zero, Num
    <3>4. ~TooLarge(a)
      BY <3>2 DEF TooLarge
    <3>5. QED
      BY <2>3, <3>2, <3>3, <3>4 DEF a
  <2>4. QED
    BY <2>2, <2>3 DEF a
<1>2. ASSUME NEW T, v \in Lists(T) PROVE goal
  <2> DEFINE items == [ i \in DOMAIN v.items |-> CanonicalInner[v.items[i]] ]
  <2>1. /\ v.kind = "list" /\ DOMAIN v.items = 1..Len(v.items) /\ Len(v.items) \in Nat
    BY <1>2, ListOfTrees
  <2>2. Converted(v, CanonicalInner) = [kind |-> "list", items |-> items]
    BY <1>2, ConvertedList
  <2>3. a = [kind |-> "list", items |-> items]
    BY <2>2 DEF CanonicalBy, Arranged
  <2>4. Len(items) = Len(v.items)
    BY <2>1
  <2> HIDE DEF a, items
  <2>5. a.kind = "list" /\ a.items = items
    BY <2>3
  <2>6. Size(a) = Len(items) /\ Size(v) = Len(v.items)
    BY <2>1, <2>5 DEF Size
  <2>7. TooLarge(a) => TooLarge(v)
    BY <2>1, <2>4, <2>5, <2>6 DEF TooLarge
  <2>8. QED
    BY <2>1, <2>4, <2>5, <2>6, <2>7
<1>3. ASSUME NEW T, v \in Maps(T), \A w \in Children(v) : CanonicalInner[w] \in T PROVE goal
  <2> DEFINE c == Converted(v, CanonicalInner)
             entries == [ i \in DOMAIN v.entries |->
                            [key |-> v.entries[i].key, value |-> CanonicalInner[v.entries[i].value]] ]
             s == Sorted(order, c.entries)
  <2>1. /\ v.kind = "map" /\ DOMAIN v.entries = 1..Len(v.entries) /\ Len(v.entries) \in Nat
    BY <1>3, MapOfTrees
  <2>2. c = [kind |-> "map", entries |-> entries]
    BY <1>3, ConvertedMap
  <2>3. DOMAIN entries = DOMAIN v.entries /\ \A i \in DOMAIN v.entries : entries[i].key = v.entries[i].key
    OBVIOUS
  <2>4. c \in Maps(T)
    BY <1>3, ConvertedTrees
  <2> HIDE DEF c, entries
  <2>5. c.entries = entries
    BY <2>2
  <2>6. a = [kind |-> "map", entries |-> s]
    BY <2>4, ArrangedTrees DEF CanonicalBy, c
  <2>7. Sortable(c.entries)
    BY <2>4, EntriesAreSortable
  <2>8. /\ DOMAIN s = DOMAIN c.entries /\ Sortable(s)
        /\ Apart(c.entries) => Apart(s)
    BY <2>7, SortedOrders
  <2> HIDE DEF s, a
  <2>9. a.kind = "map" /\ a.entries = s
    BY <2>6
  <2>10. Apart(v.entries) => Apart(c.entries)
    BY <2>3, <2>5 DEF Apart
  <2>11. Len(s) = Len(v.entries)
    <3>1. DOMAIN s = 1..Len(s) /\ Len(s) \in Nat
      BY <2>8, SequenceOf DEF Sortable
    <3>2. DOMAIN s = 1..Len(v.entries)
      BY <2>1, <2>3, <2>5, <2>8
    <3>3. QED
      BY <2>1, <3>1, <3>2
  <2>12. Size(a) = Len(s) /\ Size(v) = Len(v.entries)
    BY <2>1, <2>9 DEF Size
  <2>13. TooLarge(a) => TooLarge(v)
    BY <2>1, <2>9, <2>11, <2>12 DEF TooLarge
  <2>14. QED
    BY <2>1, <2>8, <2>9, <2>10, <2>11, <2>12, <2>13
<1>4. CASE ~(v \in DocumentScalars /\ Leaf(v))
  <2> DEFINE T == DocumentTrees[Nesting - 1]
  <2>1. Nesting \in 0..Nesting
    BY TreesByDepth
  <2>2. /\ Nesting - 1 \in 0..Nesting /\ v \in Lists(T) \cup Maps(T)
        /\ \A w \in Children(v) : w \in T
    BY <1>4, <2>1, DocumentShape, DocumentChildren
  <2>3. \A w \in Children(v) : CanonicalInner[w] \in T
    BY <2>2, CanonicalTyped
  <2> HIDE DEF T, goal
  <2>4. QED
    BY <1>2, <1>3, <2>2, <2>3 DEF goal
<1>5. QED
  BY <1>1, <1>4

-----------------------------------------------------------------------------
(* encode and decode_with_limits. *)

FirstOf(entries, key) ==
  CHOOSE i \in DOMAIN entries :
    /\ entries[i].key = key
    /\ \A j \in DOMAIN entries : entries[j].key = key => i <= j

LastOf(entries, key) ==
  CHOOSE i \in DOMAIN entries :
    /\ entries[i].key = key
    /\ \A j \in DOMAIN entries : entries[j].key = key => j <= i

Kept(entries) == { i \in DOMAIN entries : FirstOf(entries, entries[i].key) = i }

KeptRank(entries, i) == Cardinality({ j \in Kept(entries) : j <= i })

(* The first and the last place of a key hold the key. *)
LEMMA FirstAndLast ==
  ASSUME NEW entries, IsSequence(entries), NEW i \in DOMAIN entries
  PROVE  LET key == entries[i].key
         IN  /\ FirstOf(entries, key) \in DOMAIN entries
             /\ entries[FirstOf(entries, key)].key = key
             /\ \A j \in DOMAIN entries : entries[j].key = key => FirstOf(entries, key) <= j
             /\ LastOf(entries, key) \in DOMAIN entries
             /\ entries[LastOf(entries, key)].key = key
<1> DEFINE key == entries[i].key
           D == DOMAIN entries
           places == { j \in D : entries[j].key = key }
           n == Len(entries)
<1>1. n \in Nat /\ D = 1..n
  BY SequenceOf
<1> HIDE DEF n
<1>2. places # {} /\ places \in SUBSET Nat /\ places \in SUBSET (0..n)
  BY <1>1
<1>3. \A j : j \in places <=> j \in D /\ entries[j].key = key
  OBVIOUS
<1> HIDE DEF places
<1>4. PICK least \in places : \A j \in places : least <= j
  BY <1>2, LeastOfNaturals
<1>5. PICK greatest \in places : \A j \in places : j <= greatest
  BY <1>1, <1>2, GreatestBelow
<1>6. \E x \in D : entries[x].key = key /\ \A j \in D : entries[j].key = key => x <= j
  BY <1>3, <1>4
<1>7. \E x \in D : entries[x].key = key /\ \A j \in D : entries[j].key = key => j <= x
  BY <1>3, <1>5
<1>8. /\ FirstOf(entries, key) \in D
      /\ entries[FirstOf(entries, key)].key = key
      /\ \A j \in D : entries[j].key = key => FirstOf(entries, key) <= j
  BY <1>6 DEF FirstOf
<1>9. LastOf(entries, key) \in D /\ entries[LastOf(entries, key)].key = key
  BY <1>7 DEF LastOf
<1>10. QED
  BY <1>8, <1>9

(* The places kept are numbered without a gap. *)
LEMMA KeptRanks ==
  ASSUME NEW entries, IsSequence(entries)
  PROVE  /\ IsFiniteSet(Kept(entries)) /\ Cardinality(Kept(entries)) \in Nat
         /\ \A k \in 1..Cardinality(Kept(entries)) :
              \E i \in Kept(entries) : KeptRank(entries, i) = k
<1> DEFINE K == Kept(entries)
           c == Cardinality(K)
           n == Len(entries)
           upTo(i) == { j \in K : j <= i }
           r(i) == KeptRank(entries, i)
           f == [ i \in K |-> r(i) ]
<1>1. n \in Nat /\ DOMAIN entries = 1..n
  BY SequenceOf
<1>2. K \subseteq 1..n /\ \A i \in K : i \in Int
  BY <1>1 DEF Kept
<1>3. IsFiniteSet(1..n)
  BY <1>1, FS_Interval
<1>4. IsFiniteSet(K) /\ c \in Nat
  BY <1>2, <1>3, FS_Subset, FS_CardinalityType
<1> HIDE DEF K, n
<1>5. \A i \in K : IsFiniteSet(upTo(i)) /\ Cardinality(upTo(i)) \in Nat /\ r(i) = Cardinality(upTo(i))
  <2>1. ASSUME NEW i \in K PROVE IsFiniteSet(upTo(i))
    BY <1>4, FS_Subset
  <2>2. QED
    BY <2>1, FS_CardinalityType DEF KeptRank, K
<1>6. ASSUME NEW i \in K PROVE r(i) \in 1..c
  <2>1. Cardinality(upTo(i)) <= c
    BY <1>4, FS_Subset
  <2>2. Cardinality(upTo(i)) # 0
    <3>1. i \in upTo(i)
      BY <1>2
    <3> HIDE DEF upTo
    <3>2. QED
      BY <1>5, <3>1, FS_EmptySet
  <2>3. Cardinality(upTo(i)) \in Nat /\ r(i) = Cardinality(upTo(i))
    BY <1>5
  <2> HIDE DEF c, upTo, r
  <2>4. QED
    BY <1>4, <2>1, <2>2, <2>3
<1>7. ASSUME NEW i \in K, NEW j \in K, i < j PROVE r(i) < r(j)
  <2>1. upTo(i) \subseteq upTo(j) \ {j}
    <3>1. ASSUME NEW m \in K, m <= i PROVE m <= j /\ m # j
      <4>1. m \in Int /\ i \in Int /\ j \in Int
        BY <1>2
      <4>2. QED
        BY <1>7, <3>1, <4>1
    <3>2. QED
      BY <3>1
  <2>2. j \in upTo(j)
    BY <1>2
  <2>3. /\ IsFiniteSet(upTo(j) \ {j})
        /\ Cardinality(upTo(j) \ {j}) = Cardinality(upTo(j)) - 1
    BY <1>5, <2>2, FS_RemoveElement
  <2>4. Cardinality(upTo(i)) <= Cardinality(upTo(j)) - 1
    BY <2>1, <2>3, FS_Subset
  <2>5. /\ Cardinality(upTo(i)) \in Nat /\ r(i) = Cardinality(upTo(i))
        /\ Cardinality(upTo(j)) \in Nat /\ r(j) = Cardinality(upTo(j))
    BY <1>5
  <2> HIDE DEF upTo, r
  <2>6. QED
    BY <2>4, <2>5
<1> HIDE DEF r, c
<1>8. f \in [K -> 1..c]
  BY <1>6
<1>9. \A i, j \in K : f[i] = f[j] => i = j
  <2>1. ASSUME NEW i \in K, NEW j \in K, f[i] = f[j] PROVE i = j
    <3>1. r(i) = r(j) /\ r(i) \in 1..c
      BY <1>6, <2>1
    <3>2. ~(i < j) /\ ~(j < i) /\ i \in Int /\ j \in Int
      BY <1>2, <1>7, <3>1
    <3>3. QED
      BY <3>2
  <2>2. QED
    BY <2>1
<1>10. f \in Injection(K, 1..c)
  BY <1>8, <1>9 DEF Injection, IsInjective
<1>11. IsFiniteSet(1..c) /\ Cardinality(1..c) = c
  <2>1. 1 \in Int /\ c \in Int /\ c >= 0
    BY <1>4
  <2>2. IsFiniteSet(1..c) /\ Cardinality(1..c) = IF 1 > c THEN 0 ELSE c - 1 + 1
    BY <2>1, FS_Interval
  <2>3. QED
    BY <2>1, <2>2
<1>12. f \in Surjection(K, 1..c)
  BY <1>10, <1>11, FS_Injection DEF c
<1>13. \A k \in 1..c : \E i \in K : r(i) = k
  BY <1>12 DEF Surjection
<1>14. QED
  BY <1>4, <1>13 DEF K, c, r

(* A JSON object has no key twice, and is the map where that has none. *)
LEMMA CollapsedIs ==
  ASSUME NEW entries, IsSequence(entries)
  PROVE  /\ Apart(Collapsed(entries))
         /\ \A X : entries \in Seq(X) => Collapsed(entries) \in Seq(X)
         /\ Range(Collapsed(entries)) \subseteq Range(entries)
         /\ Apart(entries) => Collapsed(entries) = entries
<1> DEFINE K == Kept(entries)
           c == Cardinality(K)
           n == Len(entries)
           at(k) == CHOOSE i \in K : KeptRank(entries, i) = k
           last(k) == LastOf(entries, entries[at(k)].key)
           s == Collapsed(entries)
<1>1. n \in Nat /\ DOMAIN entries = 1..n /\ entries \in Seq(Range(entries))
  BY SequenceOf
<1>2. s = [ k \in 1..c |-> entries[last(k)] ]
  BY DEF Collapsed, Kept, KeptRank, FirstOf, LastOf
<1>3. c \in Nat /\ \A k \in 1..c : at(k) \in K /\ KeptRank(entries, at(k)) = k
  BY KeptRanks
<1>4. \A i \in K : i \in DOMAIN entries /\ FirstOf(entries, entries[i].key) = i
  BY DEF Kept
<1> HIDE DEF K, at
<1>5. \A k \in 1..c : last(k) \in DOMAIN entries /\ entries[last(k)].key = entries[at(k)].key
  BY <1>3, <1>4, FirstAndLast
<1> HIDE DEF c, last, s
<1>6. DOMAIN s = 1..c /\ \A k \in 1..c : s[k] = entries[last(k)] /\ s[k].key = entries[at(k)].key
  BY <1>2, <1>5
<1>7. Apart(s)
  <2>1. ASSUME NEW k \in 1..c, NEW l \in 1..c, s[k].key = s[l].key PROVE k = l
    <3>1. entries[at(k)].key = entries[at(l)].key
      BY <1>6, <2>1
    <3>2. at(k) = at(l)
      BY <1>3, <1>4, <3>1
    <3>3. QED
      BY <1>3, <3>2
  <2>2. QED
    BY <1>6, <2>1 DEF Apart
<1>8. ASSUME NEW X, entries \in Seq(X) PROVE s \in Seq(X)
  <2>1. \A i \in DOMAIN entries : entries[i] \in X
    BY <1>1, <1>8, ElementOfSeq
  <2>2. s \in [1..c -> X]
    BY <1>2, <1>5, <2>1
  <2>3. QED
    BY <1>3, <2>2, SeqDef
<1>9. Range(s) \subseteq Range(entries)
  BY <1>5, <1>6 DEF Range
<1>10. ASSUME Apart(entries) PROVE s = entries
  <2>1. K = 1..n
    <3>1. ASSUME NEW i \in 1..n PROVE FirstOf(entries, entries[i].key) = i
      BY <1>1, <1>10, FirstAndLast DEF Apart
    <3>2. QED
      BY <1>1, <3>1 DEF Kept, K
  <2>2. c = n
    <3>1. Cardinality(1..n) = IF 1 > n THEN 0 ELSE n - 1 + 1
      <4>1. 1 \in Int /\ n \in Int
        BY <1>1
      <4> HIDE DEF n
      <4>2. QED
        BY <4>1, FS_Interval
    <3>2. n \in Nat
      BY <1>1
    <3> HIDE DEF n
    <3>3. QED
      BY <2>1, <3>1, <3>2 DEF c
  <2>3. ASSUME NEW i \in 1..n PROVE KeptRank(entries, i) = i
    <3>1. i \in Int /\ 1 <= i /\ i <= n /\ n \in Int
      BY <1>1
    <3>2. { j \in K : j <= i } = 1..i
      BY <2>1, <3>1
    <3>3. Cardinality(1..i) = IF 1 > i THEN 0 ELSE i - 1 + 1
      BY <3>1, FS_Interval
    <3>4. KeptRank(entries, i) = Cardinality({ j \in K : j <= i })
      BY DEF KeptRank, K
    <3>5. KeptRank(entries, i) = Cardinality(1..i)
      BY <3>2, <3>4
    <3>8. ~(1 > i)
      BY <3>1
    <3>6. KeptRank(entries, i) = i - 1 + 1
      BY <3>3, <3>5, <3>8
    <3>7. QED
      BY <3>1, <3>6
  <2>4. ASSUME NEW k \in 1..n PROVE s[k] = entries[k]
    <3>1. k \in 1..c /\ at(k) \in 1..n /\ KeptRank(entries, at(k)) = k
      BY <1>3, <2>1, <2>2
    <3>2. at(k) = k
      BY <2>3, <3>1
    <3>3. entries[last(k)].key = entries[k].key /\ last(k) \in 1..n /\ s[k] = entries[last(k)]
      BY <1>1, <1>5, <1>6, <3>1, <3>2
    <3>4. last(k) = k
      BY <1>1, <1>10, <3>3 DEF Apart
    <3>5. QED
      BY <3>3, <3>4
  <2>5. entries = [ k \in 1..n |-> entries[k] ] /\ s = [ k \in 1..n |-> s[k] ]
    <3>1. s = [ k \in 1..n |-> entries[last(k)] ]
      BY <1>2, <2>2
    <3>2. entries = [ k \in 1..n |-> entries[k] ]
      BY <1>1, LenProperties
    <3>3. QED
      BY <3>1, <3>2
  <2>6. QED
    BY <2>4, <2>5
<1>11. QED
  BY <1>7, <1>8, <1>9, <1>10 DEF s

(* A collection keeps its kind, its size and its keys while its elements   *)
(* are converted.                                                          *)
LEMMA ConvertedKeeps ==
  ASSUME NEW T, NEW v \in Lists(T) \cup Maps(T), NEW g
  PROVE  /\ v.kind \in {"list", "map"} /\ Converted(v, g).kind = v.kind
         /\ Size(Converted(v, g)) = Size(v)
         /\ v.kind = "map" =>
              /\ DOMAIN Converted(v, g).entries = DOMAIN v.entries
              /\ Apart(Converted(v, g).entries) <=> Apart(v.entries)
<1> DEFINE c == Converted(v, g)
<1>1. CASE v \in Lists(T)
  <2> DEFINE items == [ i \in DOMAIN v.items |-> g[v.items[i]] ]
  <2>1. v.kind = "list" /\ DOMAIN v.items = 1..Len(v.items) /\ Len(v.items) \in Nat
    BY <1>1, ListOfTrees
  <2>2. c = [kind |-> "list", items |-> items]
    BY <1>1, ConvertedList
  <2>3. Len(items) = Len(v.items)
    BY <2>1
  <2> HIDE DEF c, items
  <2>4. c.kind = "list" /\ c.items = items
    BY <2>2
  <2>5. QED
    BY <2>1, <2>3, <2>4 DEF Size, c
<1>2. CASE v \in Maps(T)
  <2> DEFINE entries == [ i \in DOMAIN v.entries |->
                            [key |-> v.entries[i].key, value |-> g[v.entries[i].value]] ]
  <2>1. v.kind = "map" /\ DOMAIN v.entries = 1..Len(v.entries) /\ Len(v.entries) \in Nat
    BY <1>2, MapOfTrees
  <2>2. c = [kind |-> "map", entries |-> entries]
    BY <1>2, ConvertedMap
  <2>3. Len(entries) = Len(v.entries)
    BY <2>1
  <2>4. DOMAIN entries = DOMAIN v.entries /\ \A i \in DOMAIN v.entries : entries[i].key = v.entries[i].key
    OBVIOUS
  <2> HIDE DEF c, entries
  <2>5. c.kind = "map" /\ c.entries = entries
    BY <2>2
  <2>6. Apart(entries) <=> Apart(v.entries)
    BY <2>4 DEF Apart
  <2>7. QED
    BY <2>1, <2>3, <2>4, <2>5, <2>6 DEF Size, c
<1>3. QED
  BY <1>1, <1>2

(* Converting the elements back gives the collection back. *)
LEMMA ConvertedBack ==
  ASSUME NEW T, NEW v \in Lists(T) \cup Maps(T), NEW U, NEW g, NEW h,
         \A w \in Children(v) : g[w] \in U /\ h[g[w]] = w
  PROVE  Converted(Converted(v, g), h) = v
<1> DEFINE c == Converted(v, g)
<1>1. CASE v \in Lists(T)
  <2>1. /\ v.kind = "list" /\ v = [kind |-> "list", items |-> v.items] /\ v.items \in Seq(T)
    BY <1>1, ListOfTrees
  <2>2. \A i \in DOMAIN v.items : v.items[i] \in Children(v)
    BY <2>1, ChildrenAre
  <2>3. c = [kind |-> "list", items |-> [ i \in DOMAIN v.items |-> g[v.items[i]] ]]
    BY <1>1, ConvertedList
  <2>4. c \in Lists(U)
    BY <1>1, ConvertedTrees
  <2>5. DOMAIN c.items = DOMAIN v.items /\ \A i \in DOMAIN v.items : c.items[i] = g[v.items[i]]
    BY <2>3
  <2> HIDE DEF c
  <2>6. Converted(c, h) = [kind |-> "list", items |-> [ i \in DOMAIN c.items |-> h[c.items[i]] ]]
    BY <2>4, ConvertedList
  <2>7. [ i \in DOMAIN c.items |-> h[c.items[i]] ] = [ i \in DOMAIN v.items |-> v.items[i] ]
    BY <2>2, <2>5
  <2>8. v.items = [ i \in DOMAIN v.items |-> v.items[i] ]
    BY <2>1, LenProperties
  <2>9. QED
    BY <2>1, <2>6, <2>7, <2>8 DEF c
<1>2. CASE v \in Maps(T)
  <2> DEFINE back == [ i \in DOMAIN c.entries |->
                         [key |-> c.entries[i].key, value |-> h[c.entries[i].value]] ]
  <2>1. /\ v.kind = "map" /\ v = [kind |-> "map", entries |-> v.entries]
        /\ v.entries \in Seq([key : Keys, value : T])
        /\ \A i \in DOMAIN v.entries :
             v.entries[i] = [key |-> v.entries[i].key, value |-> v.entries[i].value]
    BY <1>2, MapOfTrees
  <2>2. \A i \in DOMAIN v.entries : v.entries[i].value \in Children(v)
    BY <2>1, ChildrenAre
  <2>3. c = [kind |-> "map",
             entries |-> [ i \in DOMAIN v.entries |->
                             [key |-> v.entries[i].key, value |-> g[v.entries[i].value]] ]]
    BY <1>2, ConvertedMap
  <2>4. c \in Maps(U)
    BY <1>2, ConvertedTrees
  <2>5. /\ DOMAIN c.entries = DOMAIN v.entries
        /\ \A i \in DOMAIN v.entries : /\ c.entries[i].key = v.entries[i].key
                                       /\ c.entries[i].value = g[v.entries[i].value]
    BY <2>3
  <2> HIDE DEF c
  <2>6. Converted(c, h) = [kind |-> "map", entries |-> back]
    BY <2>4, ConvertedMap
  <2>7. \A i \in DOMAIN v.entries :
          [key |-> c.entries[i].key, value |-> h[c.entries[i].value]] = v.entries[i]
    BY <2>1, <2>2, <2>5
  <2>8. back = [ i \in DOMAIN v.entries |-> v.entries[i] ]
    BY <2>5, <2>7
  <2>9. v.entries = [ i \in DOMAIN v.entries |-> v.entries[i] ]
    BY <2>1, LenProperties
  <2> HIDE DEF back
  <2>10. QED
    BY <2>1, <2>6, <2>8, <2>9 DEF c
<1>3. QED
  BY <1>1, <1>2

(* A collection is encoded as one with the same elements encoded, but for  *)
(* keys that are there twice.                                              *)
LEMMA EncodedCollections ==
  ASSUME NEW T, NEW v \in Lists(T) \cup Maps(T), NEW g
  PROVE  LET e == EncodedNode(v, g)
         IN  /\ e.kind = v.kind
             /\ \A U : (\A w \in Children(v) : g[w] \in U) => e \in Lists(U) \cup Maps(U)
             /\ e.kind = "map" => Apart(e.entries)
             /\ (v.kind = "map" => Apart(v.entries)) => e = Converted(v, g)
             /\ \A u \in Children(e) : \E w \in Children(v) : u = g[w]
<1> DEFINE c == Converted(v, g)
           e == EncodedNode(v, g)
<1>1. Children(c) = { g[w] : w \in Children(v) } /\ c.kind = v.kind
  BY ConvertedChildren, ConvertedKeeps
<1>2. CASE v \in Lists(T)
  <2>1. v.kind = "list"
    BY <1>2, ListOfTrees
  <2>2. e = c
    BY <2>1 DEF EncodedNode
  <2>3. ASSUME NEW U, \A w \in Children(v) : g[w] \in U PROVE c \in Lists(U)
    BY <1>2, <2>3, ConvertedTrees
  <2> HIDE DEF c, e
  <2>4. QED
    BY <1>1, <2>1, <2>2, <2>3 DEF c, e
<1>3. CASE v \in Maps(T)
  <2> DEFINE s == Collapsed(c.entries)
             F(U) == [key : Keys, value : U]
             I == { g[w] : w \in Children(v) }
  <2>1. v.kind = "map" /\ c \in Maps(I)
    <3>1. \A w \in Children(v) : g[w] \in I
      OBVIOUS
    <3> HIDE DEF I
    <3>2. QED
      BY <1>3, <3>1, MapOfTrees, ConvertedTrees
  <2>2. e = [c EXCEPT !.entries = s]
    BY <2>1 DEF EncodedNode
  <2>3. c = [kind |-> "map", entries |-> c.entries] /\ IsSequence(c.entries)
    BY <2>1, MapOfTrees, SequenceIs
  <2>5. /\ Apart(s) /\ (\A X : c.entries \in Seq(X) => s \in Seq(X))
        /\ Range(s) \subseteq Range(c.entries)
        /\ Apart(c.entries) => s = c.entries
    BY <2>3, CollapsedIs
  <2>6. Apart(c.entries) <=> Apart(v.entries)
    BY <2>1, ConvertedKeeps
  <2> HIDE DEF c, e, s
  <2>7. e = [kind |-> "map", entries |-> s]
    BY <2>2, <2>3
  <2>8. ASSUME NEW U, \A w \in Children(v) : g[w] \in U PROVE e \in Maps(U)
    <3>1. c \in Maps(U)
      BY <1>3, <2>8, ConvertedTrees DEF c
    <3>2. c.entries \in Seq(F(U))
      BY <3>1, MapOfTrees
    <3>3. s \in Seq(F(U))
      BY <2>5, <3>2
    <3>4. QED
      BY <2>7, <3>3 DEF Maps
  <2>9. e.kind = "map" /\ e.entries = s /\ c.kind = "map"
    BY <2>3, <2>7
  <2>10. Apart(v.entries) => e = c
    BY <2>3, <2>5, <2>6, <2>7
  <2>11. Elements(e) \subseteq Elements(c)
    BY <2>5, <2>9 DEF Elements
  <2>12. Children(e) \subseteq Children(c)
    BY <2>11 DEF Children
  <2>13. QED
    BY <1>1, <2>1, <2>5, <2>8, <2>9, <2>10, <2>12 DEF c, e
<1>4. QED
  BY <1>2, <1>3

(* A scalar is encoded as a scalar; where JSON can spell it and it is not  *)
(* bytes, it is read back.                                                 *)
LEMMA ScalarsEncoded ==
  ASSUME NEW v \in DocumentScalars, NEW g
  PROVE  /\ EncodedNode(v, g) \in JsonScalars
         /\ v.kind # "bytes" /\ (v.kind = "float" => v.num.is = "number") =>
              /\ DecodedScalar(EncodedNode(v, g)) = v
              /\ TooLarge(EncodedNode(v, g)) => TooLarge(v)
<1> DEFINE e == EncodedNode(v, g)
<1>1. Leaf(v)
  BY ScalarsAreLeaves
<1>2. CASE v \in PlainScalars
  <2>1. v.kind \in {"null", "bool", "string"}
    <3>1. v = [kind |-> "null"] \/ v \in [kind : {"bool"}, value : BOOLEAN]
            \/ v \in [kind : {"string"}, len : Nat, form : Forms]
      BY <1>2 DEF PlainScalars
    <3>2. QED
      BY <3>1
  <2>2. e = v
    BY <1>1, <2>1, ConvertedLeaf DEF EncodedNode
  <2>3. v \in JsonScalars /\ DecodedScalar(v) = v
    BY <1>2, <2>1 DEF JsonScalars, DecodedScalar
  <2>4. QED
    BY <2>2, <2>3
<1>3. CASE v \in [kind : {"integer"}, num : Whole]
  <2> DEFINE j == [kind |-> "number", num |-> v.num, point |-> FALSE]
  <2>1. v.kind = "integer" /\ v = [kind |-> "integer", num |-> v.num] /\ v.num \in Whole
    BY <1>3
  <2>2. v.num.is = "number"
    BY <2>1 DEF Whole
  <2>3. e = j
    BY <2>1, <2>2 DEF EncodedNode, EncodedNumber
  <2>4. j \in JsonScalars
    BY <2>1 DEF JsonScalars
  <2>5. DecodedScalar(j) = [kind |-> "integer", num |-> v.num]
    BY DEF DecodedScalar, DecodedNumber
  <2>6. ~TooLarge(j)
    BY DEF TooLarge
  <2>7. QED
    BY <2>1, <2>3, <2>4, <2>5, <2>6
<1>4. CASE v \in [kind : {"float"}, num : Float \cup {NaN, Infinite}]
  <2> DEFINE j == [kind |-> "number", num |-> v.num, point |-> TRUE]
             none == [kind |-> "null"]
  <2>1. v.kind = "float" /\ v = [kind |-> "float", num |-> v.num] /\ v.num \in Float \cup {NaN, Infinite}
    BY <1>4
  <2>2. CASE v.num.is = "number"
    <3>1. v.num \in Float
      BY <2>1, <2>2 DEF NaN, Infinite
    <3>2. e = j
      BY <2>1, <2>2 DEF EncodedNode, EncodedNumber
    <3>3. j \in JsonScalars
      BY <3>1 DEF JsonScalars
    <3>4. DecodedScalar(j) = [kind |-> "float", num |-> v.num]
      BY DEF DecodedScalar, DecodedNumber
    <3>5. ~TooLarge(j)
      BY DEF TooLarge
    <3>6. QED
      BY <2>1, <3>2, <3>3, <3>4, <3>5
  <2>3. CASE v.num.is # "number"
    <3>1. e = none
      BY <2>1, <2>3 DEF EncodedNode, EncodedNumber
    <3>2. none \in JsonScalars
      BY DEF JsonScalars, PlainScalars
    <3>3. QED
      BY <2>1, <2>3, <3>1, <3>2
  <2>4. QED
    BY <2>2, <2>3
<1>5. CASE v \in [kind : {"bytes"}, len : Nat]
  <2> DEFINE j == [kind |-> "string", len |-> Base64Len(v.len), form |-> "other"]
  <2>1. v.kind = "bytes" /\ v.len \in Nat
    BY <1>5
  <2>2. e = j
    BY <2>1 DEF EncodedNode
  <2>3. Base64Len(v.len) \in Nat
    <3>1. (v.len + 2) \div 3 \in Nat
      BY <2>1
    <3>2. QED
      BY <3>1 DEF Base64Len
  <2>4. j \in JsonScalars
    BY <2>3 DEF JsonScalars, PlainScalars, Forms
  <2>5. QED
    BY <2>1, <2>2, <2>4
<1>6. QED
  BY <1>2, <1>3, <1>4, <1>5 DEF DocumentScalars

(* What a JSON scalar is read as: never bytes, always finite. *)
LEMMA ScalarsDecoded ==
  ASSUME NEW j \in JsonScalars, NEW g
  PROVE  LET d == DecodedNode(j, g)
         IN  /\ d = DecodedScalar(j) /\ d \in DocumentScalars /\ d.kind # "bytes"
             /\ d.kind = "float" => d.num.is = "number"
             /\ TooLarge(d) => TooLarge(j)
<1> DEFINE d == DecodedNode(j, g)
<1>1. CASE j \in PlainScalars
  <2>1. j.kind \in {"null", "bool", "string"}
    <3>1. j = [kind |-> "null"] \/ j \in [kind : {"bool"}, value : BOOLEAN]
            \/ j \in [kind : {"string"}, len : Nat, form : Forms]
      BY <1>1 DEF PlainScalars
    <3>2. QED
      BY <3>1
  <2>2. DecodedScalar(j) = j /\ Leaf(j)
    BY <2>1 DEF DecodedScalar, Leaf
  <2>3. d = j
    BY <2>2, ConvertedLeaf DEF DecodedNode
  <2>4. QED
    BY <1>1, <2>1, <2>2, <2>3 DEF DocumentScalars
<1>2. ASSUME NEW N, NEW P, j \in [kind : {"number"}, num : N, point : P],
             \A x \in N : x.is = "number",
             [kind : {IF j.point THEN "float" ELSE "integer"}, num : N] \subseteq DocumentScalars
      PROVE  /\ d = DecodedScalar(j) /\ d \in DocumentScalars /\ d.kind # "bytes"
             /\ d.kind = "float" => d.num.is = "number"
             /\ TooLarge(d) => TooLarge(j)
  <2> DEFINE f == [kind |-> IF j.point THEN "float" ELSE "integer", num |-> j.num]
  <2>1. j.kind = "number" /\ j.num \in N
    BY <1>2
  <2>2. DecodedScalar(j) = f
    BY <2>1 DEF DecodedScalar, DecodedNumber
  <2>3. f.kind \in {"float", "integer"} /\ f.num = j.num
    OBVIOUS
  <2>4. f \in DocumentScalars
    BY <1>2, <2>1
  <2> HIDE DEF f
  <2>5. Converted(f, g) = f
    BY <2>3, ConvertedLeaf DEF Leaf
  <2>6. d = f
    BY <2>2, <2>5 DEF DecodedNode
  <2>7. ~TooLarge(f)
    BY <2>3 DEF TooLarge
  <2>8. QED
    BY <1>2, <2>1, <2>2, <2>3, <2>4, <2>6, <2>7
<1>3. \A x \in Whole : x.is = "number"
  BY DEF Whole
<1>4. \A x \in Float : x.is = "number"
  BY <1>3 DEF Float, NegZero
<1>5. CASE j \in [kind : {"number"}, num : Whole, point : {FALSE}]
  <2>1. j.point = FALSE
    BY <1>5
  <2>2. [kind : {IF j.point THEN "float" ELSE "integer"}, num : Whole] \subseteq DocumentScalars
    BY <2>1 DEF DocumentScalars
  <2>3. QED
    BY <1>2, <1>3, <1>5, <2>2
<1>6. CASE j \in [kind : {"number"}, num : Float, point : {TRUE}]
  <2>1. j.point = TRUE
    BY <1>6
  <2>2. [kind : {IF j.point THEN "float" ELSE "integer"}, num : Float] \subseteq DocumentScalars
    BY <2>1 DEF DocumentScalars
  <2>3. QED
    BY <1>2, <1>4, <1>6, <2>2
<1>7. QED
  BY <1>1, <1>5, <1>6 DEF JsonScalars

(* What encode makes of a document is a JSON value that nests as deep. *)
LEMMA EncodedTyped ==
  ASSUME NEW k \in 0..Nesting, NEW v \in DocumentTrees[k]
  PROVE  EncodedInner[v] \in JsonTrees[k]
<1> DEFINE S == { x \in DocumentTrees[Nesting] :
                    \A j \in 0..Nesting : x \in DocumentTrees[j] => EncodedInner[x] \in JsonTrees[j] }
<1>1. ASSUME NEW x \in DocumentTrees[Nesting],
             \A w \in Children(x) : w \in DocumentTrees[Nesting] /\ w \in S,
             NEW j \in 0..Nesting, x \in DocumentTrees[j]
      PROVE  EncodedInner[x] \in JsonTrees[j]
  <2>1. EncodedInner[x] = EncodedNode(x, EncodedInner)
    BY Unfolded
  <2>2. CASE x \in DocumentScalars
    BY <2>1, <2>2, ScalarsEncoded, TreesOf DEF JsonTrees
  <2>3. CASE x \notin DocumentScalars
    <3> DEFINE T == DocumentTrees[j - 1]
               U == JsonTrees[j - 1]
    <3>1. j # 0 /\ j - 1 \in 0..Nesting /\ x \in Lists(T) \cup Maps(T)
      BY <1>1, <2>3, DocumentShape
    <3>2. Lists(U) \subseteq JsonTrees[j] /\ Maps(U) \subseteq JsonTrees[j]
      BY <3>1, TreesOf DEF JsonTrees
    <3>3. \A w \in Children(x) : w \in T
      BY <3>1, ChildrenOfTrees
    <3>4. \A w \in Children(x) : EncodedInner[w] \in U
      BY <1>1, <3>1, <3>3
    <3> HIDE DEF T, U
    <3>5. EncodedNode(x, EncodedInner) \in Lists(U) \cup Maps(U)
      BY <3>1, <3>4, EncodedCollections
    <3>6. QED
      BY <2>1, <3>2, <3>5
  <2>4. QED
    BY <2>2, <2>3
<1>2. DocumentTrees[Nesting] \subseteq S
  <2>1. \A x \in DocumentTrees[Nesting] :
          (\A w \in Children(x) : w \in DocumentTrees[Nesting] /\ w \in S) => x \in S
    BY <1>1
  <2> HIDE DEF S
  <2>2. QED
    BY <2>1, ScalarsAreLeaves, TreeInduction DEF DocumentTrees
<1>3. v \in DocumentTrees[Nesting]
  BY DocumentShape
<1>4. QED
  BY <1>2, <1>3

(* What is decoded is a document that nests as deep. *)
LEMMA DecodedTyped ==
  ASSUME NEW k \in 0..Nesting, NEW v \in JsonTrees[k]
  PROVE  DecodedInner[v] \in DocumentTrees[k]
<1> DEFINE S == { x \in JsonTrees[Nesting] :
                    \A j \in 0..Nesting : x \in JsonTrees[j] => DecodedInner[x] \in DocumentTrees[j] }
<1>1. ASSUME NEW x \in JsonTrees[Nesting],
             \A w \in Children(x) : w \in JsonTrees[Nesting] /\ w \in S,
             NEW j \in 0..Nesting, x \in JsonTrees[j]
      PROVE  DecodedInner[x] \in DocumentTrees[j]
  <2>1. DecodedInner[x] = DecodedNode(x, DecodedInner)
    BY Unfolded
  <2>2. CASE x \in JsonScalars
    BY <2>1, <2>2, ScalarsDecoded, TreesOf DEF DocumentTrees
  <2>3. CASE x \notin JsonScalars
    <3> DEFINE T == JsonTrees[j - 1]
               U == DocumentTrees[j - 1]
    <3>1. j # 0 /\ j - 1 \in 0..Nesting /\ x \in Lists(T) \cup Maps(T)
      BY <1>1, <2>3, JsonShape
    <3>2. Lists(U) \subseteq DocumentTrees[j] /\ Maps(U) \subseteq DocumentTrees[j]
      BY <3>1, TreesOf DEF DocumentTrees
    <3>3. \A w \in Children(x) : w \in T
      BY <3>1, ChildrenOfTrees
    <3>4. \A w \in Children(x) : DecodedInner[w] \in U
      BY <1>1, <3>1, <3>3
    <3> HIDE DEF T, U
    <3>5. DecodedScalar(x) = x
      <4>1. x.kind # "number"
        BY <3>1, ConvertedKeeps
      <4>2. QED
        BY <4>1 DEF DecodedScalar
    <3>6. Converted(x, DecodedInner) \in Lists(U) \cup Maps(U)
      BY <3>1, <3>4, ConvertedTrees
    <3>7. QED
      BY <2>1, <3>2, <3>5, <3>6 DEF DecodedNode
  <2>4. QED
    BY <2>2, <2>3
<1>2. JsonTrees[Nesting] \subseteq S
  <2>1. \A x \in JsonTrees[Nesting] :
          (\A w \in Children(x) : w \in JsonTrees[Nesting] /\ w \in S) => x \in S
    BY <1>1
  <2> HIDE DEF S
  <2>2. QED
    BY <2>1, ScalarsAreLeaves, TreeInduction DEF JsonTrees
<1>3. v \in JsonTrees[Nesting]
  BY JsonShape
<1>4. QED
  BY <1>2, <1>3

(* One node encoded: it holds what is encoded below, names no key twice,   *)
(* and is not larger where no key was there twice.                         *)
LEMMA EncodedOne ==
  ASSUME NEW v \in DocumentTrees[Nesting]
  PROVE  LET e == EncodedInner[v]
         IN  /\ \A u \in Children(e) : \E w \in Children(v) : u = EncodedInner[w]
             /\ e.kind = "map" => Apart(e.entries)
             /\ /\ v.kind # "bytes" /\ (v.kind = "map" => Apart(v.entries))
                /\ v.kind = "float" => v.num.is = "number"
                => (TooLarge(e) => TooLarge(v))
<1> DEFINE e == EncodedInner[v]
<1>1. Nesting \in 0..Nesting /\ e = EncodedNode(v, EncodedInner)
  BY TreesByDepth, Unfolded
<1>2. CASE v \in DocumentScalars
  <2>1. e \in JsonScalars
    BY <1>1, <1>2, ScalarsEncoded
  <2>2. Leaf(e)
    BY <2>1, ScalarsAreLeaves
  <2>3. /\ v.kind # "bytes" /\ (v.kind = "float" => v.num.is = "number")
        => (TooLarge(e) => TooLarge(v))
    BY <1>1, <1>2, ScalarsEncoded
  <2> HIDE DEF e
  <2>4. Children(e) = {} /\ e.kind # "map"
    BY <2>2, ChildrenAre DEF Leaf
  <2>5. QED
    BY <2>3, <2>4 DEF e
<1>3. CASE v \notin DocumentScalars
  <2> DEFINE T == DocumentTrees[Nesting - 1]
             U == JsonTrees[Nesting - 1]
             c == Converted(v, EncodedInner)
  <2>1. /\ Nesting - 1 \in 0..Nesting /\ v \in Lists(T) \cup Maps(T)
        /\ \A w \in Children(v) : w \in T
    BY <1>1, <1>3, DocumentShape, DocumentChildren
  <2>2. \A w \in Children(v) : EncodedInner[w] \in U
    BY <2>1, EncodedTyped
  <2> HIDE DEF T, U
  <2> DEFINE n == EncodedNode(v, EncodedInner)
  <2>7. /\ n.kind = v.kind /\ (n.kind = "map" => Apart(n.entries))
        /\ \A u \in Children(n) : \E w \in Children(v) : u = EncodedInner[w]
        /\ (v.kind = "map" => Apart(v.entries)) => n = c
    BY <2>1, EncodedCollections
  <2>3. /\ e.kind = v.kind /\ (e.kind = "map" => Apart(e.entries))
        /\ \A u \in Children(e) : \E w \in Children(v) : u = EncodedInner[w]
        /\ (v.kind = "map" => Apart(v.entries)) => e = c
    BY <1>1, <2>7
  <2>4. v.kind \in {"list", "map"} /\ c.kind = v.kind /\ Size(c) = Size(v)
    BY <2>1, ConvertedKeeps
  <2>5. TooLarge(c) => TooLarge(v)
    BY <2>4 DEF TooLarge
  <2> HIDE DEF e, c
  <2>6. QED
    BY <2>3, <2>5 DEF e
<1>4. QED
  BY <1>2, <1>3

(* One node decoded: it holds what is decoded below, is not bytes, is a    *)
(* finite number if one, names no key twice if the object did not, and is  *)
(* not larger.                                                             *)
LEMMA DecodedOne ==
  ASSUME NEW v \in JsonTrees[Nesting]
  PROVE  LET d == DecodedInner[v]
         IN  /\ Children(d) = { DecodedInner[w] : w \in Children(v) }
             /\ d.kind # "bytes" /\ (d.kind = "float" => d.num.is = "number")
             /\ (v.kind = "map" => Apart(v.entries)) => (d.kind = "map" => Apart(d.entries))
             /\ TooLarge(d) => TooLarge(v)
<1> DEFINE d == DecodedInner[v]
<1>1. Nesting \in 0..Nesting /\ d = DecodedNode(v, DecodedInner)
  BY TreesByDepth, Unfolded
<1>2. CASE v \in JsonScalars
  <2>1. /\ d \in DocumentScalars /\ d.kind # "bytes"
        /\ d.kind = "float" => d.num.is = "number"
        /\ TooLarge(d) => TooLarge(v)
    BY <1>1, <1>2, ScalarsDecoded
  <2>2. Leaf(d) /\ Leaf(v)
    BY <1>2, <2>1, ScalarsAreLeaves
  <2> HIDE DEF d
  <2>3. Children(d) = {} /\ Children(v) = {} /\ d.kind # "map"
    BY <2>2, ChildrenAre DEF Leaf
  <2>4. QED
    BY <2>1, <2>3 DEF d
<1>3. CASE v \notin JsonScalars
  <2> DEFINE T == JsonTrees[Nesting - 1]
  <2>1. Nesting - 1 \in 0..Nesting /\ v \in Lists(T) \cup Maps(T)
    BY <1>1, <1>3, JsonShape
  <2> HIDE DEF T
  <2>2. /\ v.kind \in {"list", "map"} /\ Converted(v, DecodedInner).kind = v.kind
        /\ Size(Converted(v, DecodedInner)) = Size(v)
        /\ v.kind = "map" => (Apart(Converted(v, DecodedInner).entries) <=> Apart(v.entries))
    BY <2>1, ConvertedKeeps
  <2>3. d = Converted(v, DecodedInner)
    BY <1>1, <2>2 DEF DecodedNode, DecodedScalar
  <2>4. Children(Converted(v, DecodedInner)) = { DecodedInner[w] : w \in Children(v) }
    BY <2>1, ConvertedChildren
  <2>5. TooLarge(Converted(v, DecodedInner)) => TooLarge(v)
    BY <2>2 DEF TooLarge
  <2> HIDE DEF d
  <2>6. QED
    BY <2>2, <2>3, <2>4, <2>5 DEF d
<1>4. QED
  BY <1>2, <1>3

(* Without bytes, without a key twice, without what JSON cannot spell, a   *)
(* document is read back as it was.                                        *)
LEMMA RoundTrip ==
  ASSUME NEW v \in DocumentTrees[Nesting], Portable(v), Encodable(v)
  PROVE  DecodedInner[EncodedInner[v]] = v
<1> DEFINE S == { x \in DocumentTrees[Nesting] :
                    x \in Nested(v, Nesting) => DecodedInner[EncodedInner[x]] = x }
<1>1. Nesting \in 0..Nesting
  BY TreesByDepth
<1>2. \A x \in Nested(v, Nesting) :
        /\ x.kind # "bytes" /\ (x.kind = "float" => x.num.is = "number")
        /\ x.kind = "map" => Apart(x.entries)
  BY DEF Portable, Encodable, Apart
<1>3. ASSUME NEW x \in DocumentTrees[Nesting], x \in Nested(v, Nesting),
             \A w \in Children(x) : w \in DocumentTrees[Nesting] /\ w \in S,
             \A w \in Children(x) : w \in Nested(v, Nesting)
      PROVE  DecodedInner[EncodedInner[x]] = x
  <2> DEFINE e == EncodedInner[x]
  <2>1. e = EncodedNode(x, EncodedInner) /\ e \in JsonTrees[Nesting]
    BY <1>1, Unfolded, EncodedTyped
  <2>2. DecodedInner[e] = DecodedNode(e, DecodedInner)
    BY <2>1, Unfolded
  <2>3. CASE x \in DocumentScalars
    <3>1. e \in JsonScalars /\ DecodedScalar(e) = x
      BY <1>2, <1>3, <2>1, <2>3, ScalarsEncoded
    <3> HIDE DEF e
    <3>2. DecodedNode(e, DecodedInner) = DecodedScalar(e)
      BY <3>1, ScalarsDecoded
    <3>3. QED
      BY <2>2, <3>1, <3>2 DEF e
  <2>4. CASE x \notin DocumentScalars
    <3> DEFINE T == DocumentTrees[Nesting - 1]
               U == JsonTrees[Nesting - 1]
    <3>1. /\ Nesting - 1 \in 0..Nesting /\ x \in Lists(T) \cup Maps(T)
          /\ \A w \in Children(x) : w \in T
      BY <1>1, <2>4, DocumentShape, DocumentChildren
    <3>2. \A w \in Children(x) : EncodedInner[w] \in U
      BY <3>1, EncodedTyped
    <3> HIDE DEF T, U
    <3> DEFINE n == EncodedNode(x, EncodedInner)
    <3>8. x.kind = "map" => Apart(x.entries)
      BY <1>2, <1>3
    <3>9. n.kind = x.kind /\ n = Converted(x, EncodedInner)
      BY <3>1, <3>2, <3>8, EncodedCollections
    <3>10. x.kind \in {"list", "map"}
      BY <3>1, ConvertedKeeps
    <3>3. e = Converted(x, EncodedInner) /\ e.kind = x.kind /\ x.kind \in {"list", "map"}
      BY <2>1, <3>9, <3>10
    <3>4. \A w \in Children(x) : DecodedInner[EncodedInner[w]] = w
      BY <1>3
    <3>5. Converted(Converted(x, EncodedInner), DecodedInner) = x
      BY <3>1, <3>2, <3>4, ConvertedBack
    <3>6. DecodedNode(e, DecodedInner) = Converted(e, DecodedInner)
      BY <3>3 DEF DecodedNode, DecodedScalar
    <3>7. QED
      BY <2>2, <3>3, <3>5, <3>6
  <2>5. QED
    BY <2>3, <2>4
<1>4. \A x \in Nested(v, Nesting) : \A w \in Children(x) : w \in Nested(v, Nesting)
  <2>1. ASSUME NEW x \in Nested(v, Nesting), NEW w \in Children(x)
        PROVE  w \in Nested(v, Nesting)
    <3>1. PICK k \in 0..Nesting : x \in AtDepth(v, k)
      BY <2>1 DEF Nested
    <3>2. k \in Nat /\ k + 1 \in Nat
      OBVIOUS
    <3>3. w \in AtDepth(v, k + 1)
      BY <2>1, <3>1, <3>2, AtDepthSteps
    <3>4. k + 1 <= Nesting /\ Nesting \in Nat
      BY <1>1, <3>2, <3>3, DepthIsBounded, TreesByDepth
    <3>5. k + 1 \in 0..Nesting
      BY <3>2, <3>4
    <3>6. QED
      BY <3>3, <3>5 DEF Nested
  <2>2. QED
    BY <2>1
<1>5. DocumentTrees[Nesting] \subseteq S
  <2>1. \A x \in DocumentTrees[Nesting] :
          (\A w \in Children(x) : w \in DocumentTrees[Nesting] /\ w \in S) => x \in S
    BY <1>3, <1>4
  <2> HIDE DEF S
  <2>2. QED
    BY <2>1, ScalarsAreLeaves, TreeInduction DEF DocumentTrees
<1>6. v \in Nested(v, Nesting)
  BY NestedInDocument
<1>7. QED
  BY <1>5, <1>6

(* Where each element of one value stems from an element of another, so    *)
(* does whatever is nested in it, at the same depth.                       *)
LEMMA DepthsRelate ==
  ASSUME NEW R, NEW a, NEW v, << a, v >> \in R,
         \A p \in R : \A u \in Children(p[1]) : \E w \in Children(p[2]) : << u, w >> \in R,
         NEW k \in Nat
  PROVE  \A u \in AtDepth(a, k) : \E w \in AtDepth(v, k) : << u, w >> \in R
<1> DEFINE from(j) == \A u \in AtDepth(a, j) : \E w \in AtDepth(v, j) : << u, w >> \in R
           bad == { j \in Nat : ~from(j) }
<1>1. SUFFICES ASSUME bad # {} PROVE FALSE
  OBVIOUS
<1>2. PICK j \in bad : \A i \in bad : j <= i
  <2>1. bad \in SUBSET Nat
    OBVIOUS
  <2> HIDE DEF bad
  <2>2. QED
    BY <1>1, <2>1, LeastOfNaturals
<1>3. j \in Nat /\ ~from(j)
  OBVIOUS
<1>4. CASE j = 0
  <2>1. AtDepth(v, 0) = {v} /\ AtDepth(a, 0) = {a}
    BY AtDepthSteps
  <2>2. from(0)
    BY <2>1
  <2>3. QED
    BY <1>3, <1>4, <2>2
<1>5. CASE j # 0
  <2>1. j - 1 \in Nat /\ (j - 1) + 1 = j /\ ~(j <= j - 1)
    BY <1>3, <1>5
  <2>2. from(j - 1)
    <3>1. j - 1 \notin bad
      BY <1>2, <2>1
    <3>2. QED
      BY <2>1, <3>1
  <2>3. /\ AtDepth(v, j) = UNION { Children(x) : x \in AtDepth(v, j - 1) }
        /\ AtDepth(a, j) = UNION { Children(x) : x \in AtDepth(a, j - 1) }
    BY <2>1, AtDepthSteps
  <2>4. ASSUME NEW u \in AtDepth(a, j) PROVE \E w \in AtDepth(v, j) : << u, w >> \in R
    <3>1. PICK y \in AtDepth(a, j - 1) : u \in Children(y)
      BY <2>3
    <3>2. PICK x \in AtDepth(v, j - 1) : << y, x >> \in R
      BY <2>2
    <3>3. << y, x >>[1] = y /\ << y, x >>[2] = x
      OBVIOUS
    <3>4. PICK w \in Children(x) : << u, w >> \in R
      BY <3>1, <3>2, <3>3
    <3>5. QED
      BY <2>3, <3>4
  <2>5. QED
    BY <1>3, <2>4
<1>6. QED
  BY <1>4, <1>5

(* Whatever an encoded document holds is what is encoded there. *)
LEMMA EncodedDepths ==
  ASSUME NEW v \in DocumentTrees[Nesting], NEW k \in Nat
  PROVE  \A u \in AtDepth(EncodedInner[v], k) :
           \E w \in AtDepth(v, k) : w \in DocumentTrees[Nesting] /\ u = EncodedInner[w]
<1> DEFINE R == { << EncodedInner[x], x >> : x \in DocumentTrees[Nesting] }
<1>1. Nesting \in 0..Nesting
  BY TreesByDepth
<1>2. ASSUME NEW p \in R, NEW u \in Children(p[1])
      PROVE  \E w \in Children(p[2]) : << u, w >> \in R
  <2>1. PICK x \in DocumentTrees[Nesting] : p = << EncodedInner[x], x >>
    OBVIOUS
  <2>2. p[1] = EncodedInner[x] /\ p[2] = x
    BY <2>1
  <2>3. PICK w \in Children(x) : u = EncodedInner[w]
    BY <1>2, <2>2, EncodedOne
  <2>4. w \in DocumentTrees[Nesting]
    BY <1>1, DocumentChildren
  <2>5. QED
    BY <2>2, <2>3, <2>4
<1>3. << EncodedInner[v], v >> \in R
  OBVIOUS
<1>4. \A u, w : << u, w >> \in R => w \in DocumentTrees[Nesting] /\ u = EncodedInner[w]
  <2>1. ASSUME NEW u, NEW w, << u, w >> \in R PROVE w \in DocumentTrees[Nesting] /\ u = EncodedInner[w]
    <3>1. PICK x \in DocumentTrees[Nesting] : << u, w >> = << EncodedInner[x], x >>
      BY <2>1
    <3>2. QED
      BY <3>1
  <2>2. QED
    BY <2>1
<1> HIDE DEF R
<1>5. \A u \in AtDepth(EncodedInner[v], k) : \E w \in AtDepth(v, k) : << u, w >> \in R
  BY <1>2, <1>3, DepthsRelate
<1>6. QED
  BY <1>4, <1>5

(* Whatever a decoded value holds is what is decoded there. *)
LEMMA DecodedDepths ==
  ASSUME NEW v \in JsonTrees[Nesting], NEW k \in Nat
  PROVE  \A u \in AtDepth(DecodedInner[v], k) :
           \E w \in AtDepth(v, k) : w \in JsonTrees[Nesting] /\ u = DecodedInner[w]
<1> DEFINE R == { << DecodedInner[x], x >> : x \in JsonTrees[Nesting] }
<1>1. Nesting \in 0..Nesting
  BY TreesByDepth
<1>2. ASSUME NEW p \in R, NEW u \in Children(p[1])
      PROVE  \E w \in Children(p[2]) : << u, w >> \in R
  <2>1. PICK x \in JsonTrees[Nesting] : p = << DecodedInner[x], x >>
    OBVIOUS
  <2>2. p[1] = DecodedInner[x] /\ p[2] = x
    BY <2>1
  <2>3. PICK w \in Children(x) : u = DecodedInner[w]
    BY <1>2, <2>2, DecodedOne
  <2>4. w \in JsonTrees[Nesting]
    BY <1>1, JsonChildren
  <2>5. QED
    BY <2>2, <2>3, <2>4
<1>3. << DecodedInner[v], v >> \in R
  OBVIOUS
<1>4. \A u, w : << u, w >> \in R => w \in JsonTrees[Nesting] /\ u = DecodedInner[w]
  <2>1. ASSUME NEW u, NEW w, << u, w >> \in R PROVE w \in JsonTrees[Nesting] /\ u = DecodedInner[w]
    <3>1. PICK x \in JsonTrees[Nesting] : << u, w >> = << DecodedInner[x], x >>
      BY <2>1
    <3>2. QED
      BY <3>1
  <2>2. QED
    BY <2>1
<1> HIDE DEF R
<1>5. \A u \in AtDepth(DecodedInner[v], k) : \E w \in AtDepth(v, k) : << u, w >> \in R
  BY <1>2, <1>3, DepthsRelate
<1>6. QED
  BY <1>4, <1>5

(* Canonicalization keeps a document free of bytes and of keys twice,      *)
(* within what JSON can spell and within the limits.                       *)
LEMMA CanonicalStaysClean ==
  ASSUME NEW v \in DocumentTrees[Nesting], NEW order, IsSequence(order)
  PROVE  /\ Portable(v) => Portable(CanonicalBy(order, v))
         /\ Encodable(v) => Encodable(CanonicalBy(order, v))
         /\ WithinLimits(v) => WithinLimits(CanonicalBy(order, v))
<1> DEFINE a == CanonicalBy(order, v)
<1>1. ASSUME NEW k \in 0..Nesting, NEW u \in AtDepth(a, k)
      PROVE  \E w \in AtDepth(v, k) :
               /\ w \in Nested(v, Nesting)
               /\ u.kind = w.kind
               /\ w.kind = "map" => (Apart(w.entries) => Apart(u.entries))
               /\ w.kind = "float" => (w.num.is = "number" => u.num.is = "number")
               /\ TooLarge(u) => TooLarge(w)
  <2>1. k \in Nat
    OBVIOUS
  <2>2. PICK w \in AtDepth(v, k) : \E o : IsSequence(o) /\ u = CanonicalBy(o, w)
    BY <1>1, <2>1, CanonicalDepths
  <2>3. w \in Nested(v, Nesting)
    BY <2>2 DEF Nested
  <2>4. w \in DocumentTrees[Nesting]
    BY <2>3, NestedInDocument
  <2>5. /\ u.kind = w.kind
        /\ w.kind = "map" => (Apart(w.entries) => Apart(u.entries))
        /\ w.kind = "float" => (w.num.is = "number" => u.num.is = "number")
        /\ TooLarge(u) => TooLarge(w)
    BY <2>2, <2>4, CanonicalKeeps
  <2>6. QED
    BY <2>3, <2>5
<1>2. \A u \in Nested(a, Nesting) : \E k \in 0..Nesting : u \in AtDepth(a, k)
  BY DEF Nested
<1> HIDE DEF a
<1>3. Portable(v) => Portable(a)
  BY <1>1, <1>2 DEF Portable, Apart
<1>4. Encodable(v) => Encodable(a)
  BY <1>1, <1>2 DEF Encodable
<1>5. WithinLimits(v) => WithinLimits(a)
  BY <1>1 DEF WithinLimits
<1>6. QED
  BY <1>3, <1>4, <1>5 DEF a

(* What is read is free of bytes, of keys twice and of what JSON cannot    *)
(* spell, whatever was sent, and within the limits it was read under.      *)
LEMMA DecodedIsClean ==
  ASSUME NEW v \in DocumentTrees[Nesting]
  PROVE  LET json == EncodedInner[v]
             d    == DecodedInner[json]
         IN  /\ Portable(d) /\ Encodable(d)
             /\ WithinLimits(json) => WithinLimits(d)
<1> DEFINE json == EncodedInner[v]
           d == DecodedInner[json]
<1>1. json \in JsonTrees[Nesting]
  BY EncodedTyped, TreesByDepth
<1>2. ASSUME NEW k \in 0..Nesting, NEW u \in AtDepth(d, k)
      PROVE  /\ u.kind # "bytes" /\ (u.kind = "float" => u.num.is = "number")
             /\ u.kind = "map" => Apart(u.entries)
             /\ \E w \in AtDepth(json, k) : TooLarge(u) => TooLarge(w)
  <2>1. k \in Nat
    OBVIOUS
  <2>2. PICK w \in AtDepth(json, k) : w \in JsonTrees[Nesting] /\ u = DecodedInner[w]
    <3> HIDE DEF json
    <3>1. QED
      BY <1>1, <1>2, <2>1, DecodedDepths
  <2>3. PICK x \in AtDepth(v, k) : x \in DocumentTrees[Nesting] /\ w = EncodedInner[x]
    BY <2>1, <2>2, EncodedDepths
  <2>4. w.kind = "map" => Apart(w.entries)
    BY <2>3, EncodedOne
  <2>5. /\ u.kind # "bytes" /\ (u.kind = "float" => u.num.is = "number")
        /\ u.kind = "map" => Apart(u.entries)
        /\ TooLarge(u) => TooLarge(w)
    BY <2>2, <2>4, DecodedOne
  <2>6. QED
    BY <2>5
<1>3. \A u \in Nested(d, Nesting) : \E k \in 0..Nesting : u \in AtDepth(d, k)
  BY DEF Nested
<1> HIDE DEF d, json
<1>4. Portable(d)
  BY <1>2, <1>3 DEF Portable, Apart
<1>5. Encodable(d)
  BY <1>2, <1>3 DEF Encodable
<1>6. WithinLimits(json) => WithinLimits(d)
  BY <1>2 DEF WithinLimits
<1>7. QED
  BY <1>4, <1>5, <1>6 DEF d, json

(* What is within the limits stays so when encoded, bytes excepted, which  *)
(* grow into text.                                                         *)
LEMMA EncodedStaysWithin ==
  ASSUME NEW v \in DocumentTrees[Nesting], Portable(v), Encodable(v), WithinLimits(v)
  PROVE  WithinLimits(EncodedInner[v])
<1>1. ASSUME NEW k \in 0..Nesting, NEW u \in AtDepth(EncodedInner[v], k)
      PROVE  \E w \in AtDepth(v, k) : TooLarge(u) => TooLarge(w)
  <2>1. k \in Nat
    OBVIOUS
  <2>2. PICK w \in AtDepth(v, k) : w \in DocumentTrees[Nesting] /\ u = EncodedInner[w]
    BY <1>1, <2>1, EncodedDepths
  <2>3. w \in Nested(v, Nesting)
    BY <2>2 DEF Nested
  <2>4. /\ w.kind # "bytes" /\ (w.kind = "map" => Apart(w.entries))
        /\ w.kind = "float" => w.num.is = "number"
    BY <2>3 DEF Portable, Encodable, Apart
  <2>5. TooLarge(u) => TooLarge(w)
    BY <2>2, <2>4, EncodedOne
  <2>6. QED
    BY <2>5
<1>2. QED
  BY <1>1 DEF WithinLimits

-----------------------------------------------------------------------------
(* document_hash. *)

ItemParts(v) == [ i \in DOMAIN v.items |-> HashInner[v.items[i]] ]

EntryParts(v) ==
  [ i \in DOMAIN v.entries |-> << [key |-> v.entries[i].key] >> \o HashInner[v.entries[i].value] ]

Body(v) ==
  CASE v.kind = "bool" -> << [flag |-> v.value] >>
    [] v.kind \in {"integer", "float"} -> << [bits |-> v.num] >>
    [] v.kind = "string" -> << [text |-> << v.len, v.form >>] >>
    [] v.kind = "bytes" -> << [bytes |-> v.len] >>
    [] v.kind = "list" -> << [count |-> Len(v.items)] >> \o FlattenSeq(ItemParts(v))
    [] v.kind = "map" -> << [count |-> Len(v.entries)] >> \o FlattenSeq(EntryParts(v))
    [] OTHER -> << >>

(* The hash of a value is of its tag and what the tag announces. *)
LEMMA HashIs ==
  ASSUME NEW v \in DocumentTrees[Nesting]
  PROVE  HashInner[v] = << [tag |-> v.kind] >> \o Body(v)
BY Unfolded DEF HashStream, Body, ItemParts, EntryParts, Counted

(* Scalars, written out. *)
LEMMA ScalarShape ==
  ASSUME NEW v \in DocumentScalars
  PROVE  \/ v.kind = "null" /\ v = [kind |-> "null"]
         \/ v.kind = "bool" /\ v = [kind |-> "bool", value |-> v.value]
         \/ v.kind = "string" /\ v = [kind |-> "string", len |-> v.len, form |-> v.form]
         \/ v.kind = "integer" /\ v = [kind |-> "integer", num |-> v.num]
         \/ v.kind = "float" /\ v = [kind |-> "float", num |-> v.num]
         \/ v.kind = "bytes" /\ v = [kind |-> "bytes", len |-> v.len]
<1>1. CASE v = [kind |-> "null"]
  BY <1>1
<1>2. CASE v \in [kind : {"bool"}, value : BOOLEAN]
  BY <1>2
<1>3. CASE v \in [kind : {"string"}, len : Nat, form : Forms]
  BY <1>3
<1>4. CASE v \in [kind : {"integer"}, num : Whole]
  BY <1>4
<1>5. CASE v \in [kind : {"float"}, num : Float \cup {NaN, Infinite}]
  BY <1>5
<1>6. CASE v \in [kind : {"bytes"}, len : Nat]
  BY <1>6
<1>7. QED
  BY <1>1, <1>2, <1>3, <1>4, <1>5, <1>6 DEF DocumentScalars, PlainScalars

(* The stream of a collection goes on, element by element. *)
LEMMA PartsAre ==
  ASSUME NEW T, NEW v \in Lists(T) \cup Maps(T), \A w \in Children(v) : IsSequence(HashInner[w])
  PROVE  /\ v.kind = "list" =>
              /\ Pieced(ItemParts(v)) /\ Len(ItemParts(v)) = Len(v.items) /\ Len(v.items) \in Nat
              /\ \A i \in 1..Len(v.items) :
                   v.items[i] \in Children(v) /\ ItemParts(v)[i] = HashInner[v.items[i]]
         /\ v.kind = "map" =>
              /\ Pieced(EntryParts(v)) /\ Len(EntryParts(v)) = Len(v.entries)
              /\ Len(v.entries) \in Nat
              /\ \A i \in 1..Len(v.entries) :
                   /\ v.entries[i].value \in Children(v)
                   /\ EntryParts(v)[i] = << [key |-> v.entries[i].key] >> \o HashInner[v.entries[i].value]
<1>1. CASE v \in Lists(T)
  <2> DEFINE q == ItemParts(v)
             n == Len(v.items)
  <2>1. v.kind = "list" /\ n \in Nat /\ DOMAIN v.items = 1..n
    BY <1>1, ListOfTrees
  <2>2. \A i \in 1..n : v.items[i] \in Children(v)
    BY <2>1, ChildrenAre
  <2>3. q = [ i \in 1..n |-> HashInner[v.items[i]] ]
    BY <2>1 DEF ItemParts
  <2>4. \A i \in 1..n : q[i] = HashInner[v.items[i]] /\ IsSequence(q[i])
    BY <2>2, <2>3
  <2>5. q = [ i \in 1..n |-> q[i] ]
    BY <2>3
  <2>6. Pieced(q) /\ Len(q) = n
    <3> HIDE DEF q, n
    <3>1. QED
      BY <2>1, <2>4, <2>5, PiecedOf
  <2>7. QED
    BY <2>1, <2>2, <2>4, <2>6
<1>2. CASE v \in Maps(T)
  <2> DEFINE q == EntryParts(v)
             n == Len(v.entries)
             part(i) == << [key |-> v.entries[i].key] >> \o HashInner[v.entries[i].value]
  <2>1. v.kind = "map" /\ n \in Nat /\ DOMAIN v.entries = 1..n
    BY <1>2, MapOfTrees
  <2>2. \A i \in 1..n : v.entries[i].value \in Children(v)
    BY <2>1, ChildrenAre
  <2>3. q = [ i \in 1..n |-> part(i) ]
    BY <2>1 DEF EntryParts
  <2>4. ASSUME NEW i \in 1..n PROVE IsSequence(part(i))
    BY <2>2, OneToken, JoinIsSequence
  <2> HIDE DEF part
  <2>5. \A i \in 1..n : q[i] = part(i) /\ IsSequence(q[i])
    BY <2>3, <2>4
  <2>6. q = [ i \in 1..n |-> q[i] ]
    BY <2>3
  <2>7. Pieced(q) /\ Len(q) = n
    <3> HIDE DEF q, n
    <3>1. QED
      BY <2>1, <2>5, <2>6, PiecedOf
  <2>8. QED
    BY <2>1, <2>2, <2>5, <2>7 DEF part
<1>3. QED
  BY <1>1, <1>2

(* Every body is a sequence. *)
LEMMA BodyIsSequence ==
  ASSUME NEW v \in DocumentTrees[Nesting], \A w \in Children(v) : IsSequence(HashInner[w])
  PROVE  IsSequence(Body(v)) /\ IsSequence(HashInner[v])
<1>1. IsSequence(Body(v))
  <2>1. IsSequence(<< >>)
    <3>1. << >> \in Seq({})
      OBVIOUS
    <3>2. QED
      BY <3>1, SequenceIs
  <2>2. CASE v \in DocumentScalars
    <3>1. /\ IsSequence(<< [flag |-> v.value] >>) /\ IsSequence(<< [bits |-> v.num] >>)
          /\ IsSequence(<< [text |-> << v.len, v.form >>] >>) /\ IsSequence(<< [bytes |-> v.len] >>)
      BY OneToken
    <3>2. QED
      BY <2>1, <2>2, <3>1, ScalarShape DEF Body
  <2>3. CASE v \notin DocumentScalars
    <3>1. PICK T : v \in Lists(T) \cup Maps(T)
      BY <2>3, DocumentShape, TreesByDepth
    <3>2. CASE v.kind = "list"
      <4>1. IsSequence(FlattenSeq(ItemParts(v))) /\ IsSequence(<< [count |-> Len(v.items)] >>)
        BY <3>1, <3>2, PartsAre, FlattenIsSequence, OneToken
      <4>2. QED
        BY <3>2, <4>1, JoinIsSequence DEF Body
    <3>3. CASE v.kind = "map"
      <4>1. IsSequence(FlattenSeq(EntryParts(v))) /\ IsSequence(<< [count |-> Len(v.entries)] >>)
        BY <3>1, <3>3, PartsAre, FlattenIsSequence, OneToken
      <4>2. QED
        BY <3>3, <4>1, JoinIsSequence DEF Body
    <3>4. QED
      BY <3>1, <3>2, <3>3, ConvertedKeeps
  <2>4. QED
    BY <2>2, <2>3
<1>2. QED
  BY <1>1, HashIs, OneToken, JoinIsSequence

(* One key and what is under it. *)
LEMMA EntryIsRead ==
  ASSUME NEW a, NEW b, NEW k, NEW l, IsSequence(a), IsSequence(b), NEW s, NEW o \in Nat,
         At(s, o, << [key |-> k] >> \o a), At(s, o, << [key |-> l] >> \o b)
  PROVE  k = l /\ o + 1 \in Nat /\ At(s, o + 1, a) /\ At(s, o + 1, b)
<1>1. /\ IsSequence(<< [key |-> k] >>) /\ Len(<< [key |-> k] >>) = 1
      /\ IsSequence(<< [key |-> l] >>) /\ Len(<< [key |-> l] >>) = 1
  BY OneToken
<1>2. /\ At(s, o, << [key |-> k] >>) /\ At(s, o + 1, a)
      /\ At(s, o, << [key |-> l] >>) /\ At(s, o + 1, b)
  BY <1>1, AtJoined
<1>3. s[o + 1] = [key |-> k] /\ s[o + 1] = [key |-> l]
  BY <1>2, OneTokenAt
<1>4. k = l
  <2>1. [key |-> k].key = k /\ [key |-> l].key = l
    OBVIOUS
  <2>2. QED
    BY <1>3, <2>1
<1>5. QED
  BY <1>2, <1>4

(* What is fed for a document is a sequence. *)
LEMMA HashIsSequence ==
  ASSUME NEW v \in DocumentTrees[Nesting]
  PROVE  IsSequence(HashInner[v]) /\ IsSequence(Body(v))
<1> DEFINE S == { x \in DocumentTrees[Nesting] : IsSequence(HashInner[x]) }
<1>1. \A x \in DocumentTrees[Nesting] :
        (\A w \in Children(x) : w \in DocumentTrees[Nesting] /\ w \in S) => x \in S
  BY BodyIsSequence
<1>2. DocumentTrees[Nesting] \subseteq S
  <2> HIDE DEF S
  <2>1. QED
    BY <1>1, ScalarsAreLeaves, TreeInduction DEF DocumentTrees
<1>3. \A w \in Children(v) : IsSequence(HashInner[w])
  BY <1>2, DocumentChildren, TreesByDepth
<1>4. QED
  BY <1>3, BodyIsSequence

(* Decides(x): found at one offset, the stream of x and that of another    *)
(* document are the streams of one document.                               *)
Decides(x) ==
  \A y \in DocumentTrees[Nesting] : \A s : \A p \in Nat :
    At(s, p, HashInner[x]) /\ At(s, p, HashInner[y]) => x = y

(* Elements are read one after the other. *)
LEMMA ListIsRead ==
  ASSUME NEW T, NEW x \in Lists(T), x \in DocumentTrees[Nesting],
         NEW U, NEW y \in Lists(U), y \in DocumentTrees[Nesting],
         \A w \in Children(x) : Decides(w),
         NEW s, NEW p \in Nat, At(s, p, Body(x)), At(s, p, Body(y))
  PROVE  x = y
<1> DEFINE q == ItemParts(x)
           r == ItemParts(y)
           m == Len(x.items)
           n == Len(y.items)
<1>1. /\ \A w \in Children(x) : w \in DocumentTrees[Nesting] /\ IsSequence(HashInner[w])
      /\ \A w \in Children(y) : w \in DocumentTrees[Nesting] /\ IsSequence(HashInner[w])
  BY DocumentChildren, TreesByDepth, HashIsSequence
<1>2. /\ x.kind = "list" /\ x = [kind |-> "list", items |-> x.items] /\ x.items \in Seq(T)
      /\ y.kind = "list" /\ y = [kind |-> "list", items |-> y.items] /\ y.items \in Seq(U)
      /\ DOMAIN x.items = 1..m /\ DOMAIN y.items = 1..n
  BY ListOfTrees
<1>3. /\ Pieced(q) /\ Len(q) = m /\ m \in Nat
      /\ \A i \in 1..m : x.items[i] \in Children(x) /\ q[i] = HashInner[x.items[i]]
      /\ Pieced(r) /\ Len(r) = n /\ n \in Nat
      /\ \A i \in 1..n : y.items[i] \in Children(y) /\ r[i] = HashInner[y.items[i]]
  BY <1>1, <1>2, PartsAre
<1>4. Body(x) = << [count |-> m] >> \o FlattenSeq(q) /\ Body(y) = << [count |-> n] >> \o FlattenSeq(r)
  BY <1>2 DEF Body
<1> HIDE DEF q, r, m, n
<1>5. /\ IsSequence(<< [count |-> m] >>) /\ Len(<< [count |-> m] >>) = 1
      /\ IsSequence(<< [count |-> n] >>) /\ Len(<< [count |-> n] >>) = 1
      /\ IsSequence(FlattenSeq(q)) /\ IsSequence(FlattenSeq(r))
  BY <1>3, OneToken, FlattenIsSequence
<1>6. /\ At(s, p, << [count |-> m] >>) /\ At(s, p + 1, FlattenSeq(q))
      /\ At(s, p, << [count |-> n] >>) /\ At(s, p + 1, FlattenSeq(r))
  BY <1>4, <1>5, AtJoined
<1>7. m = n
  <2>1. s[p + 1] = [count |-> m] /\ s[p + 1] = [count |-> n]
    BY <1>6, OneTokenAt
  <2>2. [count |-> m].count = m /\ [count |-> n].count = n
    OBVIOUS
  <2>3. QED
    BY <2>1, <2>2
<1>8. ASSUME NEW i \in 1..m, NEW o \in Nat, NEW z, At(z, o, q[i]), At(z, o, r[i])
      PROVE  x.items[i] = y.items[i]
  BY <1>1, <1>3, <1>7, <1>8 DEF Decides
<1>9. DecidedBy(s, q, r)
  <2>1. ASSUME NEW i \in 1..m, NEW o \in Nat, At(s, o, q[i]), At(s, o, r[i]) PROVE q[i] = r[i]
    BY <1>3, <1>7, <1>8, <2>1
  <2>2. QED
    BY <1>3, <2>1 DEF DecidedBy
<1>10. ASSUME NEW i \in 1..m PROVE x.items[i] = y.items[i]
  <2>1. q[i] = r[i]
    <3>1. p + 1 \in Nat
      OBVIOUS
    <3>2. QED
      BY <1>3, <1>6, <1>7, <1>9, <3>1, FlattenIsRead
  <2>2. At(q[i], 0, q[i]) /\ 0 \in Nat
    BY <1>3, AtItself DEF Pieced
  <2>3. QED
    BY <1>8, <2>1, <2>2
<1>11. x.items = y.items
  <2>1. x.items = [ i \in 1..m |-> x.items[i] ] /\ y.items = [ i \in 1..n |-> y.items[i] ]
    BY <1>2, LenProperties DEF m, n
  <2>2. QED
    BY <1>7, <1>10, <2>1
<1>12. QED
  BY <1>2, <1>11

(* Keys and what is under them are read one after the other. *)
LEMMA MapIsRead ==
  ASSUME NEW T, NEW x \in Maps(T), x \in DocumentTrees[Nesting],
         NEW U, NEW y \in Maps(U), y \in DocumentTrees[Nesting],
         \A w \in Children(x) : Decides(w),
         NEW s, NEW p \in Nat, At(s, p, Body(x)), At(s, p, Body(y))
  PROVE  x = y
<1> DEFINE q == EntryParts(x)
           r == EntryParts(y)
           m == Len(x.entries)
           n == Len(y.entries)
<1>1. /\ \A w \in Children(x) : w \in DocumentTrees[Nesting] /\ IsSequence(HashInner[w])
      /\ \A w \in Children(y) : w \in DocumentTrees[Nesting] /\ IsSequence(HashInner[w])
  BY DocumentChildren, TreesByDepth, HashIsSequence
<1>2. /\ x.kind = "map" /\ x = [kind |-> "map", entries |-> x.entries]
      /\ y.kind = "map" /\ y = [kind |-> "map", entries |-> y.entries]
      /\ DOMAIN x.entries = 1..m /\ DOMAIN y.entries = 1..n
      /\ x.entries \in Seq([key : Keys, value : T]) /\ y.entries \in Seq([key : Keys, value : U])
      /\ \A i \in 1..m :
           x.entries[i] = [key |-> x.entries[i].key, value |-> x.entries[i].value]
      /\ \A i \in 1..n :
           y.entries[i] = [key |-> y.entries[i].key, value |-> y.entries[i].value]
  BY MapOfTrees
<1>3. /\ Pieced(q) /\ Len(q) = m /\ m \in Nat
      /\ \A i \in 1..m :
           /\ x.entries[i].value \in Children(x)
           /\ q[i] = << [key |-> x.entries[i].key] >> \o HashInner[x.entries[i].value]
      /\ Pieced(r) /\ Len(r) = n /\ n \in Nat
      /\ \A i \in 1..n :
           /\ y.entries[i].value \in Children(y)
           /\ r[i] = << [key |-> y.entries[i].key] >> \o HashInner[y.entries[i].value]
  BY <1>1, <1>2, PartsAre
<1>4. Body(x) = << [count |-> m] >> \o FlattenSeq(q) /\ Body(y) = << [count |-> n] >> \o FlattenSeq(r)
  BY <1>2 DEF Body
<1> HIDE DEF q, r, m, n
<1>5. /\ IsSequence(<< [count |-> m] >>) /\ Len(<< [count |-> m] >>) = 1
      /\ IsSequence(<< [count |-> n] >>) /\ Len(<< [count |-> n] >>) = 1
      /\ IsSequence(FlattenSeq(q)) /\ IsSequence(FlattenSeq(r))
  BY <1>3, OneToken, FlattenIsSequence
<1>6. /\ At(s, p, << [count |-> m] >>) /\ At(s, p + 1, FlattenSeq(q))
      /\ At(s, p, << [count |-> n] >>) /\ At(s, p + 1, FlattenSeq(r))
  BY <1>4, <1>5, AtJoined
<1>7. m = n
  <2>1. s[p + 1] = [count |-> m] /\ s[p + 1] = [count |-> n]
    BY <1>6, OneTokenAt
  <2>2. [count |-> m].count = m /\ [count |-> n].count = n
    OBVIOUS
  <2>3. QED
    BY <2>1, <2>2
<1>8. ASSUME NEW i \in 1..m, NEW o \in Nat, NEW z, At(z, o, q[i]), At(z, o, r[i])
      PROVE  x.entries[i] = y.entries[i]
  <2> DEFINE v == x.entries[i].value
             w == y.entries[i].value
             k == x.entries[i].key
             l == y.entries[i].key
  <2>1. /\ i \in 1..n /\ v \in Children(x) /\ w \in Children(y)
        /\ q[i] = << [key |-> k] >> \o HashInner[v] /\ r[i] = << [key |-> l] >> \o HashInner[w]
    BY <1>3, <1>7
  <2>2. IsSequence(HashInner[v]) /\ IsSequence(HashInner[w])
    BY <1>1, <2>1
  <2> HIDE DEF v, w, k, l
  <2>3. k = l /\ o + 1 \in Nat /\ At(z, o + 1, HashInner[v]) /\ At(z, o + 1, HashInner[w])
    <3>1. /\ At(z, o, << [key |-> k] >> \o HashInner[v])
          /\ At(z, o, << [key |-> l] >> \o HashInner[w]) /\ o \in Nat
      BY <1>8, <2>1
    <3> DEFINE a == HashInner[v]
               b == HashInner[w]
    <3>2. IsSequence(a) /\ IsSequence(b)
      BY <2>2
    <3> HIDE DEF a, b
    <3>3. At(z, o, << [key |-> k] >> \o a) /\ At(z, o, << [key |-> l] >> \o b)
      BY <3>1 DEF a, b
    <3>4. k = l /\ o + 1 \in Nat /\ At(z, o + 1, a) /\ At(z, o + 1, b)
      BY <3>1, <3>2, <3>3, EntryIsRead
    <3>5. QED
      BY <3>4 DEF a, b
  <2>4. Decides(v) /\ w \in DocumentTrees[Nesting]
    BY <1>1, <2>1
  <2>5. v = w
    BY <2>3, <2>4 DEF Decides
  <2>6. QED
    BY <1>2, <2>1, <2>3, <2>5 DEF v, w, k, l
<1>9. DecidedBy(s, q, r)
  <2>1. ASSUME NEW i \in 1..m, NEW o \in Nat, At(s, o, q[i]), At(s, o, r[i]) PROVE q[i] = r[i]
    BY <1>3, <1>7, <1>8, <2>1
  <2>2. QED
    BY <1>3, <2>1 DEF DecidedBy
<1>10. ASSUME NEW i \in 1..m PROVE x.entries[i] = y.entries[i]
  <2>1. q[i] = r[i]
    <3>1. p + 1 \in Nat
      OBVIOUS
    <3>2. QED
      BY <1>3, <1>6, <1>7, <1>9, <3>1, FlattenIsRead
  <2>2. At(q[i], 0, q[i]) /\ 0 \in Nat
    BY <1>3, AtItself DEF Pieced
  <2>3. QED
    BY <1>8, <2>1, <2>2
<1>11. x.entries = y.entries
  <2>1. x.entries = [ i \in 1..m |-> x.entries[i] ] /\ y.entries = [ i \in 1..n |-> y.entries[i] ]
    BY <1>2, LenProperties DEF m, n
  <2>2. QED
    BY <1>7, <1>10, <2>1
<1>12. QED
  BY <1>2, <1>11

(* One token of data tells scalars of one kind apart. *)
LEMMA ScalarIsRead ==
  ASSUME NEW x \in DocumentScalars, NEW y \in DocumentScalars, x.kind = y.kind,
         NEW s, NEW p \in Nat, At(s, p, Body(x)), At(s, p, Body(y))
  PROVE  x = y
<1>1. CASE x.kind = "null"
  BY <1>1, ScalarShape
<1>2. CASE x.kind = "bool"
  <2>1. At(s, p, << [flag |-> x.value] >>) /\ At(s, p, << [flag |-> y.value] >>)
    BY <1>2 DEF Body
  <2>2. [flag |-> x.value] = [flag |-> y.value]
    BY <2>1, OneTokenAt
  <2>3. x.value = y.value
    <3>1. [flag |-> x.value].flag = x.value /\ [flag |-> y.value].flag = y.value
      OBVIOUS
    <3>2. QED
      BY <2>2, <3>1
  <2>4. /\ x = [kind |-> "bool", value |-> x.value] /\ y = [kind |-> "bool", value |-> y.value]
    BY <1>2, ScalarShape
  <2>5. QED
    BY <2>3, <2>4
<1>3. CASE x.kind = "string"
  <2>1. /\ At(s, p, << [text |-> << x.len, x.form >>] >>)
        /\ At(s, p, << [text |-> << y.len, y.form >>] >>)
    BY <1>3 DEF Body
  <2>2. [text |-> << x.len, x.form >>] = [text |-> << y.len, y.form >>]
    BY <2>1, OneTokenAt
  <2>3. << x.len, x.form >> = << y.len, y.form >>
    <3>1. /\ [text |-> << x.len, x.form >>].text = << x.len, x.form >>
          /\ [text |-> << y.len, y.form >>].text = << y.len, y.form >>
      OBVIOUS
    <3>2. QED
      BY <2>2, <3>1
  <2>4. x.len = y.len /\ x.form = y.form
    BY <2>3
  <2>5. /\ x = [kind |-> "string", len |-> x.len, form |-> x.form]
        /\ y = [kind |-> "string", len |-> y.len, form |-> y.form]
    BY <1>3, ScalarShape
  <2>6. QED
    BY <2>4, <2>5
<1>4. CASE x.kind \in {"integer", "float"}
  <2>1. At(s, p, << [bits |-> x.num] >>) /\ At(s, p, << [bits |-> y.num] >>)
    BY <1>4 DEF Body
  <2>2. [bits |-> x.num] = [bits |-> y.num]
    BY <2>1, OneTokenAt
  <2>3. x.num = y.num
    <3>1. [bits |-> x.num].bits = x.num /\ [bits |-> y.num].bits = y.num
      OBVIOUS
    <3>2. QED
      BY <2>2, <3>1
  <2>4. x = [kind |-> x.kind, num |-> x.num] /\ y = [kind |-> y.kind, num |-> y.num]
    BY <1>4, ScalarShape
  <2>5. QED
    BY <2>3, <2>4
<1>5. CASE x.kind = "bytes"
  <2>1. At(s, p, << [bytes |-> x.len] >>) /\ At(s, p, << [bytes |-> y.len] >>)
    BY <1>5 DEF Body
  <2>2. [bytes |-> x.len] = [bytes |-> y.len]
    BY <2>1, OneTokenAt
  <2>3. x.len = y.len
    <3>1. [bytes |-> x.len].bytes = x.len /\ [bytes |-> y.len].bytes = y.len
      OBVIOUS
    <3>2. QED
      BY <2>2, <3>1
  <2>4. x = [kind |-> "bytes", len |-> x.len] /\ y = [kind |-> "bytes", len |-> y.len]
    BY <1>5, ScalarShape
  <2>5. QED
    BY <2>3, <2>4
<1>6. QED
  BY <1>1, <1>2, <1>3, <1>4, <1>5, ScalarShape

(* Every tag announces what follows, every count how much: no document is  *)
(* taken for another.                                                      *)
LEMMA HashIsRead ==
  ASSUME NEW v \in DocumentTrees[Nesting]
  PROVE  Decides(v)
<1> DEFINE S == { x \in DocumentTrees[Nesting] : Decides(x) }
<1>1. Nesting \in 0..Nesting
  BY TreesByDepth
<1>2. ASSUME NEW x \in DocumentTrees[Nesting], \A w \in Children(x) : Decides(w),
             NEW y \in DocumentTrees[Nesting], NEW s, NEW p \in Nat,
             At(s, p, HashInner[x]), At(s, p, HashInner[y])
      PROVE  x = y
  <2>1. /\ HashInner[x] = << [tag |-> x.kind] >> \o Body(x) /\ IsSequence(Body(x))
        /\ HashInner[y] = << [tag |-> y.kind] >> \o Body(y) /\ IsSequence(Body(y))
    BY HashIs, HashIsSequence
  <2>2. /\ IsSequence(<< [tag |-> x.kind] >>) /\ Len(<< [tag |-> x.kind] >>) = 1
        /\ IsSequence(<< [tag |-> y.kind] >>) /\ Len(<< [tag |-> y.kind] >>) = 1
    BY OneToken
  <2>3. /\ At(s, p, << [tag |-> x.kind] >>) /\ At(s, p + 1, Body(x))
        /\ At(s, p, << [tag |-> y.kind] >>) /\ At(s, p + 1, Body(y)) /\ p + 1 \in Nat
    <3>1. p \in Nat /\ p + 1 \in Nat
      BY <1>2
    <3>2. /\ At(s, p, << [tag |-> x.kind] >> \o Body(x))
          /\ At(s, p, << [tag |-> y.kind] >> \o Body(y))
      BY <1>2, <2>1
    <3>3. At(s, p, << [tag |-> x.kind] >>) /\ At(s, p + 1, Body(x))
      <4>1. At(s, p, << [tag |-> x.kind] >>) /\ At(s, p + Len(<< [tag |-> x.kind] >>), Body(x))
        BY <2>1, <2>2, <3>1, <3>2, AtJoined
      <4>2. QED
        BY <2>2, <4>1
    <3>4. At(s, p, << [tag |-> y.kind] >>) /\ At(s, p + 1, Body(y))
      <4>1. At(s, p, << [tag |-> y.kind] >>) /\ At(s, p + Len(<< [tag |-> y.kind] >>), Body(y))
        BY <2>1, <2>2, <3>1, <3>2, AtJoined
      <4>2. QED
        BY <2>2, <4>1
    <3>5. QED
      BY <3>1, <3>3, <3>4
  <2>4. x.kind = y.kind
    <3>1. s[p + 1] = [tag |-> x.kind] /\ s[p + 1] = [tag |-> y.kind]
      BY <2>3, OneTokenAt
    <3>2. [tag |-> x.kind].tag = x.kind /\ [tag |-> y.kind].tag = y.kind
      OBVIOUS
    <3>3. QED
      BY <3>1, <3>2
  <2> DEFINE T == DocumentTrees[Nesting - 1]
  <2>5. /\ (x \in DocumentScalars /\ Leaf(x)) \/ x \in Lists(T) \/ x \in Maps(T)
        /\ (y \in DocumentScalars /\ Leaf(y)) \/ y \in Lists(T) \/ y \in Maps(T)
    BY <1>1, DocumentShape
  <2> HIDE DEF T
  <2>6. /\ x \in Lists(T) => x.kind = "list"
        /\ y \in Lists(T) => y.kind = "list"
        /\ x \in Maps(T) => x.kind = "map"
        /\ y \in Maps(T) => y.kind = "map"
    BY ListOfTrees, MapOfTrees
  <2>7. CASE x \in DocumentScalars /\ Leaf(x)
    <3>1. y \in DocumentScalars
      BY <2>4, <2>5, <2>6, <2>7 DEF Leaf
    <3>2. QED
      BY <2>3, <2>4, <2>7, <3>1, ScalarIsRead
  <2>8. CASE x \in Lists(T)
    <3>1. y \in Lists(T)
      BY <2>4, <2>5, <2>6, <2>8 DEF Leaf
    <3>2. QED
      BY <1>2, <2>3, <2>8, <3>1, ListIsRead
  <2>9. CASE x \in Maps(T)
    <3>1. y \in Maps(T)
      BY <2>4, <2>5, <2>6, <2>9 DEF Leaf
    <3>2. QED
      BY <1>2, <2>3, <2>9, <3>1, MapIsRead
  <2>10. QED
    BY <2>5, <2>7, <2>8, <2>9
<1>3. \A x \in DocumentTrees[Nesting] : (\A w \in Children(x) : Decides(w)) => Decides(x)
  BY <1>2 DEF Decides
<1>4. \A x \in DocumentTrees[Nesting] :
        (\A w \in Children(x) : w \in DocumentTrees[Nesting] /\ w \in S) => x \in S
  BY <1>3
<1>5. DocumentTrees[Nesting] \subseteq S
  <2> HIDE DEF S
  <2>1. QED
    BY <1>4, ScalarsAreLeaves, TreeInduction DEF DocumentTrees
<1>6. QED
  BY <1>5

(* Equal hashes are hashes of equal documents. *)
LEMMA HashTellsApart ==
  ASSUME NEW v \in DocumentTrees[Nesting], NEW w \in DocumentTrees[Nesting], Hash(v) = Hash(w)
  PROVE  v = w
<1>1. HashInner[v] = HashInner[w]
  BY Unfolded
<1>2. At(HashInner[v], 0, HashInner[v]) /\ 0 \in Nat
  BY HashIsSequence, AtItself
<1>3. Decides(v)
  BY HashIsRead
<1>4. QED
  BY <1>1, <1>2, <1>3 DEF Decides

-----------------------------------------------------------------------------
(* The holders. *)

(* Sent(v): what a holder of v encodes, v canonicalized under the schema of *)
(* the run.                                                                *)
Sent(v) == CanonicalBy(OrderOf(schema), v)

HeldInv ==
  /\ schema \in Schemas
  /\ original \in DocumentTrees[Nesting] /\ held \in DocumentTrees[Nesting]
  /\ hops \in Nat /\ (hops = 0 => held = original)

(* What is on the wire is what the present holder's document is encoded to. *)
WireInv == stage = "wire" => Encodable(Sent(held)) /\ wire = Encoded(Sent(held))

(* What arrived has none of what the encoding loses, and differs from what *)
(* arrived first in its order at most.                                     *)
ArrivedInv ==
  hops > 0 => /\ Portable(held) /\ Encodable(held) /\ WithinLimits(held)
              /\ first \in DocumentTrees[Nesting] /\ Sent(held) = Sent(first)

(* Where nothing is lost, only the order ever changes. *)
IntactInv == Portable(original) => held = original \/ held = Sent(original)

Inv == HeldInv /\ WireInv /\ ArrivedInv /\ IntactInv

(* A schema orders keys by a sequence of names. *)
LEMMA OrderIsSequence ==
  ASSUME NEW fields \in Schemas
  PROVE  IsSequence(OrderOf(fields))
<1> DEFINE n == Len(fields)
<1>1. IsSequence(fields)
  BY SchemasAssumption
<1>2. n \in Nat /\ DOMAIN fields = 1..n
  BY <1>1, SequenceOf
<1>3. OrderOf(fields) = [ i \in 1..n |-> fields[i].name ]
  BY <1>2 DEF OrderOf
<1> HIDE DEF n
<1>4. [ i \in 1..n |-> fields[i].name ] \in Seq({ fields[i].name : i \in 1..n })
  BY <1>2
<1>5. QED
  BY <1>3, <1>4, SequenceIs

(* Canonical of the module is Sent. *)
LEMMA CanonicalIs ==
  ASSUME NEW v
  PROVE  Canonical(schema, v) = Sent(v)
BY DEF Canonical, Sent, CanonicalBy, OrderOf, CanonicalInner

(* Canonical documents are documents, and canonicalizing them again changes *)
(* nothing.                                                                 *)
LEMMA CanonicalDocuments ==
  ASSUME schema \in Schemas, NEW v \in DocumentTrees[Nesting]
  PROVE  /\ Sent(v) \in DocumentTrees[Nesting] /\ Sent(Sent(v)) = Sent(v)
         /\ Portable(v) => Portable(Sent(v))
         /\ Encodable(v) => Encodable(Sent(v))
         /\ WithinLimits(v) => WithinLimits(Sent(v))
<1>1. IsSequence(OrderOf(schema)) /\ Nesting \in 0..Nesting
  BY OrderIsSequence, TreesByDepth
<1>2. QED
  BY <1>1, CanonicalTyped, CanonicalTwice, CanonicalStaysClean DEF Sent

(* Init establishes Inv. *)
LEMMA InvAtStart ==
  ASSUME Init
  PROVE  Inv
<1>1. original \in DocumentTrees[Nesting] /\ held = original /\ hops = 0 /\ stage = "held"
  BY DocumentsAssumption DEF Init
<1>2. HeldInv
  BY <1>1 DEF HeldInv, Init
<1>3. QED
  BY <1>1, <1>2 DEF Inv, WireInv, ArrivedInv, IntactInv

(* What a receiver decodes has lost what the encoding loses. *)
LEMMA Arrival ==
  ASSUME NEW v \in DocumentTrees[Nesting]
  PROVE  LET d == Decoded(Encoded(v))
         IN  /\ d \in DocumentTrees[Nesting] /\ Portable(d) /\ Encodable(d)
             /\ WithinLimits(Encoded(v)) => WithinLimits(d)
             /\ Portable(v) /\ Encodable(v) => d = v
<1>1. Nesting \in 0..Nesting
  BY TreesByDepth
<1>2. Encoded(v) = EncodedInner[v] /\ EncodedInner[v] \in JsonTrees[Nesting]
  BY <1>1, Unfolded, EncodedTyped
<1>3. Decoded(EncodedInner[v]) = DecodedInner[EncodedInner[v]]
  BY <1>2, Unfolded
<1>4. DecodedInner[EncodedInner[v]] \in DocumentTrees[Nesting]
  BY <1>1, <1>2, DecodedTyped
<1>5. QED
  BY <1>2, <1>3, <1>4, DecodedIsClean, RoundTrip

(* A step preserves Inv. *)
LEMMA InvPreserved ==
  ASSUME Inv, [Next]_vars
  PROVE  Inv'
<1>1. /\ HeldInv /\ WireInv /\ ArrivedInv /\ IntactInv
      /\ schema \in Schemas /\ held \in DocumentTrees[Nesting] /\ original \in DocumentTrees[Nesting]
  BY DEF Inv, HeldInv
<1>3. ASSUME UNCHANGED << schema, original, held, first, hops >>
      PROVE  HeldInv' /\ ArrivedInv' /\ IntactInv'
  BY <1>1, <1>3 DEF HeldInv, ArrivedInv, IntactInv, Sent, Portable, Encodable, WithinLimits
<1>4. CASE Send
  <2>1. UNCHANGED << schema, original, held, first, hops >>
    BY <1>4 DEF Send
  <2>2. Encodable(Sent(held)) /\ wire' = Encoded(Sent(held))
    BY <1>4, CanonicalIs DEF Send
  <2>3. WireInv'
    BY <2>1, <2>2 DEF WireInv, Sent
  <2>4. QED
    BY <1>3, <2>1, <2>3 DEF Inv
<1>5. CASE SendFails \/ ReceiveRefuses
  <2>1. UNCHANGED << schema, original, held, first, hops >> /\ stage' # "wire"
    BY <1>5 DEF SendFails, ReceiveRefuses
  <2>2. QED
    BY <1>3, <2>1 DEF Inv, WireInv
<1>6. CASE Receive
  <2> DEFINE c == Sent(held)
             d == Decoded(Encoded(c))
  <2>1. /\ wire = Encoded(c) /\ Encodable(c) /\ WithinLimits(Encoded(c))
    BY <1>1, <1>6 DEF Receive, WireInv
  <2>2. /\ held' = d /\ first' = (IF hops = 0 THEN held' ELSE first) /\ hops' = hops + 1
        /\ stage' = "held" /\ schema' = schema /\ original' = original
    BY <1>6, <2>1 DEF Receive
  <2>3. c \in DocumentTrees[Nesting] /\ Sent(c) = c
    BY <1>1, CanonicalDocuments
  <2>4. /\ d \in DocumentTrees[Nesting] /\ Portable(d) /\ Encodable(d) /\ WithinLimits(d)
        /\ Portable(c) => d = c
    BY <2>1, <2>3, Arrival
  <2>5. hops # 0 => d = c /\ first \in DocumentTrees[Nesting] /\ c = Sent(first)
    BY <1>1, <2>4, CanonicalDocuments DEF ArrivedInv, HeldInv
  <2>6. Portable(original) => d = Sent(original)
    <3>1. Portable(original) => c = Sent(original) /\ Portable(c)
      BY <1>1, CanonicalDocuments DEF IntactInv
    <3>2. QED
      BY <2>4, <3>1
  <2> HIDE DEF c, d
  <2>7. HeldInv'
    BY <1>1, <2>2, <2>4 DEF HeldInv
  <2>8. WireInv'
    BY <2>2 DEF WireInv
  <2>9. /\ first' \in DocumentTrees[Nesting] /\ Sent(d) = Sent(first')
    <3>1. CASE hops = 0
      BY <2>2, <2>4, <3>1
    <3>2. CASE hops # 0
      BY <2>2, <2>3, <2>5, <3>2
    <3>3. QED
      BY <3>1, <3>2
  <2>10. ArrivedInv'
    BY <2>2, <2>4, <2>9 DEF ArrivedInv, Sent, Portable, Encodable, WithinLimits
  <2>11. IntactInv'
    BY <2>2, <2>6 DEF IntactInv, Sent, Portable
  <2>12. QED
    BY <2>7, <2>8, <2>10, <2>11 DEF Inv
<1>7. CASE UNCHANGED vars
  <2>1. UNCHANGED << schema, original, held, first, hops, stage, wire >>
    BY <1>7 DEF vars
  <2>2. WireInv'
    BY <1>1, <2>1 DEF WireInv, Sent
  <2>3. QED
    BY <1>3, <2>1, <2>2 DEF Inv
<1>8. QED
  BY <1>4, <1>5, <1>6, <1>7 DEF Next

(* The inductive invariant of every run. *)
THEOREM InvHolds == Spec => []Inv
<1>1. Init => Inv
  BY InvAtStart
<1>2. Inv /\ [Next]_vars => Inv'
  BY InvPreserved
<1>3. QED
  BY <1>1, <1>2, PTL DEF Spec

-----------------------------------------------------------------------------
(* The properties. *)

(* HashSurvives, for every document, schema and number of holders. *)
THEOREM HashAlwaysSurvives == Spec => []HashSurvives
<1>1. Inv => HashSurvives
  <2> SUFFICES ASSUME Inv, Portable(original)
               PROVE  Hash(Canonical(schema, held)) = Hash(Canonical(schema, original))
    BY DEF HashSurvives
  <2>1. /\ schema \in Schemas /\ original \in DocumentTrees[Nesting]
        /\ held = original \/ held = Sent(original)
    BY DEF Inv, HeldInv, IntactInv
  <2>2. Sent(held) = Sent(original)
    BY <2>1, CanonicalDocuments
  <2>3. QED
    BY <2>2, CanonicalIs
<1>2. QED
  BY <1>1, InvHolds, PTL

(* LossIsConfinedToFirstHop, likewise: what is lost is lost to the first   *)
(* holder's encoding.                                                      *)
THEOREM LossIsAlwaysConfined == Spec => []LossIsConfinedToFirstHop
<1>1. Inv => LossIsConfinedToFirstHop
  BY CanonicalIs DEF Inv, ArrivedInv, LossIsConfinedToFirstHop
<1>2. QED
  BY <1>1, InvHolds, PTL

(* AcceptedIsPassedOn, likewise: under the same limits, no holder refuses  *)
(* what another one accepted.                                              *)
THEOREM AcceptedIsAlwaysPassedOn == Spec => []AcceptedIsPassedOn
<1>1. Inv => AcceptedIsPassedOn
  <2> SUFFICES ASSUME Inv, hops > 0
               PROVE  Encodable(Sent(held)) /\ WithinLimits(Encoded(Sent(held)))
    BY CanonicalIs DEF AcceptedIsPassedOn
  <2>1. /\ schema \in Schemas /\ held \in DocumentTrees[Nesting]
        /\ Portable(held) /\ Encodable(held) /\ WithinLimits(held)
    BY DEF Inv, HeldInv, ArrivedInv
  <2>2. /\ Sent(held) \in DocumentTrees[Nesting]
        /\ Portable(Sent(held)) /\ Encodable(Sent(held)) /\ WithinLimits(Sent(held))
    BY <2>1, CanonicalDocuments
  <2>3. Encoded(Sent(held)) = EncodedInner[Sent(held)]
    BY <2>2, Unfolded
  <2>4. QED
    BY <2>2, <2>3, EncodedStaysWithin
<1>2. QED
  BY <1>1, InvHolds, PTL

(* HashTellsDocumentsApart, likewise: before SHA-256, equal hashes are     *)
(* hashes of one canonical document.                                       *)
THEOREM HashAlwaysTellsApart == Spec => []HashTellsDocumentsApart
<1>1. Inv => HashTellsDocumentsApart
  <2> SUFFICES ASSUME Inv, NEW doc \in Documents, Hash(Sent(held)) = Hash(Sent(doc))
               PROVE  Sent(held) = Sent(doc)
    BY CanonicalIs DEF HashTellsDocumentsApart
  <2>1. /\ schema \in Schemas /\ held \in DocumentTrees[Nesting] /\ doc \in DocumentTrees[Nesting]
    BY DocumentsAssumption DEF Inv, HeldInv
  <2>2. Sent(held) \in DocumentTrees[Nesting] /\ Sent(doc) \in DocumentTrees[Nesting]
    BY <2>1, CanonicalDocuments
  <2>3. QED
    BY <2>2, HashTellsApart
<1>2. QED
  BY <1>1, InvHolds, PTL

(* CanonicalIsIdempotent, likewise. *)
THEOREM CanonicalIsAlwaysIdempotent == Spec => []CanonicalIsIdempotent
<1>1. Inv => CanonicalIsIdempotent
  <2> SUFFICES ASSUME Inv PROVE Hash(Sent(Sent(held))) = Hash(Sent(held))
    BY CanonicalIs DEF CanonicalIsIdempotent
  <2>1. Sent(Sent(held)) = Sent(held)
    BY CanonicalDocuments DEF Inv, HeldInv
  <2>2. QED
    BY <2>1
<1>2. QED
  BY <1>1, InvHolds, PTL

(* Maps of the same entries in two orders, no key twice, are canonically   *)
(* one map.                                                                *)
LEMMA SameEntriesSameMap ==
  ASSUME NEW order, IsSequence(order), NEW T, NEW v \in Maps(T), NEW w \in Maps(T),
         DOMAIN v.entries = DOMAIN w.entries, Range(v.entries) = Range(w.entries),
         Apart(v.entries), Apart(w.entries)
  PROVE  CanonicalBy(order, v) = CanonicalBy(order, w)
<1> DEFINE g    == CanonicalInner
           U    == { g[x] : x \in T }
           a    == Converted(v, g)
           b    == Converted(w, g)
           conv(e) == [key |-> e.key, value |-> g[e.value]]
<1>1. /\ DOMAIN v.entries = 1..Len(v.entries) /\ v.entries \in Seq([key : Keys, value : T])
      /\ \A x \in Children(v) : x \in T
      /\ \A x \in Children(w) : x \in T
  BY MapOfTrees, ChildrenOfTrees
<1>2. a \in Maps(U) /\ b \in Maps(U)
  BY <1>1, ConvertedTrees
<1>3. /\ a = [kind |-> "map", entries |-> [ i \in DOMAIN v.entries |-> conv(v.entries[i]) ]]
      /\ b = [kind |-> "map", entries |-> [ i \in DOMAIN w.entries |-> conv(w.entries[i]) ]]
  BY ConvertedMap
<1>4. /\ a.entries = [ i \in DOMAIN v.entries |-> conv(v.entries[i]) ]
      /\ b.entries = [ i \in DOMAIN w.entries |-> conv(w.entries[i]) ]
  BY <1>3
<1>5. Range(a.entries) = Range(b.entries)
  <2>1. /\ Range(a.entries) = { conv(e) : e \in Range(v.entries) }
        /\ Range(b.entries) = { conv(e) : e \in Range(w.entries) }
    <3> HIDE DEF conv, a, b
    <3>1. QED
      BY <1>4 DEF Range
  <2>2. QED
    BY <2>1
<1>6. Apart(a.entries) /\ Apart(b.entries)
  <2>1. /\ v.kind = "map" /\ w.kind = "map"
    BY MapOfTrees
  <2>2. QED
    BY <2>1, ConvertedKeeps
<1>7. DOMAIN a.entries = DOMAIN b.entries
  BY <1>4
<1>8. Sortable(a.entries) /\ Sortable(b.entries)
  BY <1>2, EntriesAreSortable
<1> HIDE DEF a, b, conv
<1> DEFINE s == Sorted(order, a.entries)
           t == Sorted(order, b.entries)
<1>9. /\ DOMAIN s = DOMAIN a.entries /\ Range(s) = Range(a.entries)
      /\ Sortable(s) /\ InOrder(order, s) /\ Apart(s)
      /\ DOMAIN t = DOMAIN b.entries /\ Range(t) = Range(b.entries)
      /\ Sortable(t) /\ InOrder(order, t) /\ Apart(t)
  BY <1>6, <1>8, SortedOrders
<1>10. s = t
  <2> HIDE DEF s, t
  <2>1. QED
    BY <1>5, <1>7, <1>9, OrderedOnce
<1>11. /\ CanonicalBy(order, v) = [kind |-> "map", entries |-> s]
       /\ CanonicalBy(order, w) = [kind |-> "map", entries |-> t]
  BY <1>2, ArrangedTrees DEF CanonicalBy, a, b
<1>12. QED
  BY <1>10, <1>11

(* What EXCEPT makes of a map. *)
LEMMA SwappedRecord ==
  ASSUME NEW e, NEW i \in DOMAIN e, NEW j \in DOMAIN e, NEW v, v = [kind |-> "map", entries |-> e]
  PROVE  Swapped(v, i, j) =
           [kind |-> "map", entries |-> [[e EXCEPT ![i] = e[j]] EXCEPT ![j] = e[i]]]
<1> DEFINE f == [e EXCEPT ![i] = e[j]]
           x == [v EXCEPT !.entries[i] = e[j]]
<1>1. v.entries = e /\ x = [kind |-> "map", entries |-> f]
  OBVIOUS
<1>2. [x EXCEPT !.entries[j] = e[i]] = [kind |-> "map", entries |-> [f EXCEPT ![j] = e[i]]]
  <2> HIDE DEF x, f
  <2>1. QED
    BY <1>1
<1>3. Swapped(v, i, j) = [x EXCEPT !.entries[j] = e[i]]
  BY <1>1 DEF Swapped
<1>4. QED
  BY <1>2, <1>3

(* Two entries of a map change places. *)
LEMMA SwappedEntries ==
  ASSUME NEW T, NEW v \in Maps(T), Apart(v.entries),
         NEW i \in DOMAIN v.entries, NEW j \in DOMAIN v.entries
  PROVE  LET w == Swapped(v, i, j)
         IN  /\ w \in Maps(T) /\ DOMAIN w.entries = DOMAIN v.entries
             /\ Range(w.entries) = Range(v.entries) /\ Apart(w.entries)
<1> DEFINE e == v.entries
           n == Len(e)
           f == [[e EXCEPT ![i] = e[j]] EXCEPT ![j] = e[i]]
           w == Swapped(v, i, j)
           at(k) == IF k = j THEN i ELSE IF k = i THEN j ELSE k
<1>1. /\ v = [kind |-> "map", entries |-> e] /\ e \in Seq([key : Keys, value : T])
      /\ DOMAIN e = 1..n /\ n \in Nat
  BY MapOfTrees
<1>2. w = [kind |-> "map", entries |-> f]
  BY <1>1, SwappedRecord
<1>3. DOMAIN f = 1..n /\ \A k \in 1..n : f[k] = e[at(k)]
  BY <1>1
<1>4. \A k \in 1..n : at(k) \in 1..n /\ at(at(k)) = k
  BY <1>1
<1>5. w.entries = f
  BY <1>2
<1> HIDE DEF at, f, w, e, n
<1>6. \A k \in 1..n : e[k] \in [key : Keys, value : T]
  BY <1>1, ElementOfSeq DEF n
<1>7. f \in Seq([key : Keys, value : T])
  <2>1. f = [ k \in 1..n |-> e[at(k)] ]
    <3>1. f = [ k \in 1..n |-> f[k] ]
      BY <1>3 DEF f
    <3>2. QED
      BY <1>3, <3>1
  <2>2. \A k \in 1..n : e[at(k)] \in [key : Keys, value : T]
    BY <1>4, <1>6
  <2>3. QED
    BY <1>1, <2>1, <2>2
<1>8. w \in Maps(T)
  BY <1>2, <1>7 DEF Maps
<1>9. Range(f) = Range(e)
  BY <1>1, <1>3, <1>4 DEF Range
<1>10. Apart(f)
  <2> SUFFICES ASSUME NEW k \in 1..n, NEW l \in 1..n, f[k].key = f[l].key PROVE k = l
    BY <1>3 DEF Apart
  <2>1. at(k) = at(l)
    BY <1>1, <1>3, <1>4 DEF Apart, e
  <2>2. QED
    BY <1>4, <2>1
<1>11. /\ w \in Maps(T) /\ DOMAIN w.entries = DOMAIN e /\ Range(w.entries) = Range(e) /\ Apart(w.entries)
  BY <1>1, <1>3, <1>5, <1>8, <1>9, <1>10
<1>12. QED
  BY <1>11 DEF w, e

(* OrderDoesNotMatter, likewise. *)
THEOREM OrderNeverMatters == Spec => []OrderDoesNotMatter
<1>1. Inv => OrderDoesNotMatter
  <2> SUFFICES ASSUME Inv, Portable(held), held.kind = "map",
                      NEW i \in DOMAIN held.entries, NEW j \in DOMAIN held.entries
               PROVE  Hash(Sent(Swapped(held, i, j))) = Hash(Sent(held))
    BY CanonicalIs DEF OrderDoesNotMatter
  <2> DEFINE T == DocumentTrees[Nesting - 1]
             swapped == Swapped(held, i, j)
  <2>1. /\ schema \in Schemas /\ held \in DocumentTrees[Nesting] /\ Nesting \in 0..Nesting
    BY TreesByDepth DEF Inv, HeldInv
  <2>2. held \in Maps(T)
    <3>1. ~Leaf(held) /\ \A U : held \in Lists(U) => held.kind = "list"
      BY ListOfTrees DEF Leaf
    <3>2. QED
      BY <2>1, <3>1, DocumentShape
  <2> HIDE DEF T
  <2>3. Apart(held.entries)
    BY <2>1, NestedInDocument DEF Portable, Apart
  <2>4. /\ swapped \in Maps(T) /\ DOMAIN swapped.entries = DOMAIN held.entries
        /\ Range(swapped.entries) = Range(held.entries) /\ Apart(swapped.entries)
    BY <2>2, <2>3, SwappedEntries
  <2> HIDE DEF swapped
  <2>5. IsSequence(OrderOf(schema))
    BY <2>1, OrderIsSequence
  <2>6. Sent(swapped) = Sent(held)
    BY <2>2, <2>3, <2>4, <2>5, SameEntriesSameMap DEF Sent
  <2>7. QED
    BY <2>6 DEF swapped
<1>2. QED
  BY <1>1, InvHolds, PTL

-----------------------------------------------------------------------------
(* What validate() looks at, canonicalizing leaves alone. *)

(* All but lists, maps and -0.0 stay what they are. *)
LEMMA CanonicalLooks ==
  ASSUME NEW v \in DocumentTrees[Nesting]
  PROVE  LET a == CanonicalInner[v]
         IN  /\ a \in DocumentTrees[Nesting] /\ a.kind = v.kind
             /\ v.kind \notin {"list", "map", "float"} => a = v
             /\ v.kind = "float" => a.num = Normalized(v.num)
             /\ v.kind \in {"list", "map"} => Size(a) = Size(v)
             /\ Children(a) = { CanonicalInner[w] : w \in Children(v) }
<1>1. Nesting \in 0..Nesting /\ IsSequence(<< >>)
  <2>1. << >> \in Seq({})
    OBVIOUS
  <2>2. IsSequence(<< >>)
    BY <2>1, SequenceIs
  <2>3. QED
    BY <2>2, TreesByDepth
<1>2. CanonicalInner[v] = CanonicalBy(<< >>, v) /\ CanonicalInner[v] \in DocumentTrees[Nesting]
  BY <1>1, CanonicalTyped
<1>3. /\ CanonicalInner[v].kind = v.kind
      /\ v.kind \in {"list", "map"} => Size(CanonicalInner[v]) = Size(v)
      /\ Children(CanonicalInner[v]) = { CanonicalInner[w] : w \in Children(v) }
  BY <1>1, <1>2, CanonicalKeeps, CanonicalChildren
<1>4. ASSUME v.kind \notin {"list", "map"}
      PROVE  /\ v.kind # "float" => CanonicalInner[v] = v
             /\ v.kind = "float" => CanonicalInner[v].num = Normalized(v.num)
  <2>1. Leaf(v)
    BY <1>4 DEF Leaf
  <2>2. \A T : v \notin Lists(T) \cup Maps(T)
    BY <1>4, ListOfTrees, MapOfTrees
  <2>3. v \in DocumentScalars
    BY <1>1, <2>2, DocumentShape
  <2>4. CanonicalInner[v] = Arranged(<< >>, v)
    BY <1>2, <2>1, ConvertedLeaf DEF CanonicalBy
  <2>5. /\ v.kind # "float" => CanonicalInner[v] = v
        /\ v.kind = "float" => CanonicalInner[v] = [kind |-> "float", num |-> Normalized(v.num)]
    BY <2>3, <2>4, ArrangedScalars
  <2>6. [kind |-> "float", num |-> Normalized(v.num)].num = Normalized(v.num)
    OBVIOUS
  <2>7. QED
    BY <2>5, <2>6
<1>5. QED
  BY <1>2, <1>3, <1>4

(* -0.0 compares as 0.0 does. *)
LEMMA NormalizedCompares ==
  ASSUME NEW n, NEW m
  PROVE  Less(Normalized(n), m) = Less(n, m) /\ Less(m, Normalized(n)) = Less(m, n)
<1>1. Normalized(n).is = n.is /\ (n.is = "number" => Normalized(n).n = n.n)
  BY DEF Normalized, NegZero, Zero, Num
<1> DEFINE k == Normalized(n)
<1> HIDE DEF k
<1>2. k.is = n.is /\ (n.is = "number" => k.n = n.n)
  BY <1>1 DEF k
<1>3. Less(k, m) = Less(n, m) /\ Less(m, k) = Less(m, n)
  BY <1>2 DEF Less
<1>4. QED
  BY <1>3 DEF k

(* A constraint is satisfied, and a pattern evaluable, as before. *)
LEMMA ConstraintsHoldAsBefore ==
  ASSUME NEW v \in DocumentTrees[Nesting], NEW c,
         c.kind \in {"range", "length", "pattern", "nonempty", "custom"}
  PROVE  /\ Satisfied(c, v) => Satisfied(c, CanonicalInner[v])
         /\ Unevaluable(c, CanonicalInner[v]) => Unevaluable(c, v)
<1> DEFINE a == CanonicalInner[v]
<1>1. /\ a.kind = v.kind
      /\ v.kind \notin {"list", "map", "float"} => a = v
      /\ v.kind = "float" => a.num = Normalized(v.num)
      /\ v.kind \in {"list", "map"} => Size(a) = Size(v)
  BY CanonicalLooks
<1> HIDE DEF a
<1>2. v.kind \in Sized => Size(a) = Size(v)
  BY <1>1 DEF Sized
<1>3. Unevaluable(c, a) => Unevaluable(c, v)
  BY <1>1 DEF Unevaluable
<1>4. ASSUME c.kind = "range", Satisfied(c, v) PROVE Satisfied(c, a)
  <2>1. CASE v.kind = "float"
    <3>1. /\ Less(a.num, c.minimum) = Less(v.num, c.minimum)
          /\ Less(c.maximum, a.num) = Less(c.maximum, v.num)
      BY <1>1, <2>1, NormalizedCompares
    <3>2. ~Less(v.num, c.minimum) /\ ~Less(c.maximum, v.num)
      BY <1>4, <2>1 DEF Satisfied
    <3>3. QED
      BY <1>1, <1>4, <2>1, <3>1, <3>2 DEF Satisfied
  <2>2. CASE v.kind = "integer"
    <3>1. a = v
      BY <1>1, <2>2
    <3>2. QED
      BY <1>4, <3>1
  <2>3. CASE v.kind \notin {"integer", "float"}
    BY <1>1, <1>4, <2>3 DEF Satisfied
  <2>4. QED
    BY <2>1, <2>2, <2>3
<1>5. ASSUME c.kind \in {"length", "nonempty"}, Satisfied(c, v) PROVE Satisfied(c, a)
  BY <1>1, <1>2, <1>5 DEF Satisfied
<1>6. ASSUME c.kind = "pattern", Satisfied(c, v) PROVE Satisfied(c, a)
  BY <1>1, <1>6 DEF Satisfied
<1>7. ASSUME c.kind = "custom" PROVE Satisfied(c, a)
  BY <1>7 DEF Satisfied
<1>8. Satisfied(c, v) => Satisfied(c, a)
  BY <1>4, <1>5, <1>6, <1>7
<1>9. QED
  BY <1>3, <1>8 DEF a

(* What fits a constructor still does. *)
LEMMA KindsFitAsBefore ==
  ASSUME NEW v \in DocumentTrees[Nesting], NEW constructor
  PROVE  KindFits(constructor, CanonicalInner[v]) <=> KindFits(constructor, v)
BY CanonicalLooks DEF KindFits

(* Level by level, there is nothing but what there was, canonicalized. *)
LEMMA LevelsAsBefore ==
  ASSUME NEW cs, NEW n \in Nat, NEW v \in DocumentTrees[Nesting], NEW path,
         NEW l, AreLevels(l, cs, n, CanonicalInner[v], path),
         NEW r, AreLevels(r, cs, n, v, path), NEW k \in 1..n
  PROVE  \A node \in l[k] : \E old \in r[k] :
           old.value \in DocumentTrees[Nesting] /\ node.value = CanonicalInner[old.value]
<1> DEFINE Stays(j) == j \in 1..n =>
             \A node \in l[j] : \E old \in r[j] :
               old.value \in DocumentTrees[Nesting] /\ node.value = CanonicalInner[old.value]
           without == { j \in Nat : ~Stays(j) }
<1>1. ASSUME NEW j \in 1..n, j # 1 => Stays(j - 1) PROVE Stays(j)
  <2>1. /\ l[j] = LowerLevel(cs, j, CanonicalInner[v], path, l[j - 1])
        /\ r[j] = LowerLevel(cs, j, v, path, r[j - 1])
    BY DEF AreLevels
  <2>2. CASE j = 1
    <3>1. l[j] = {[path |-> path, value |-> CanonicalInner[v]]} /\ r[j] = {[path |-> path, value |-> v]}
      BY <2>1, <2>2 DEF LowerLevel
    <3>2. QED
      BY <3>1
  <2>3. ASSUME j # 1, NEW node \in l[j]
        PROVE  \E old \in r[j] :
                 old.value \in DocumentTrees[Nesting] /\ node.value = CanonicalInner[old.value]
    <3>1. j - 1 \in 1..n
      BY <2>3
    <3>2. /\ l[j] = UNION { ElementsOf(m) : m \in { x \in l[j - 1] : FitsAt(cs, j - 1, x) } }
          /\ r[j] = UNION { ElementsOf(m) : m \in { x \in r[j - 1] : FitsAt(cs, j - 1, x) } }
      BY <2>1, <2>3 DEF LowerLevel
    <3>3. PICK m \in l[j - 1] : FitsAt(cs, j - 1, m) /\ node \in ElementsOf(m)
      BY <2>3, <3>2
    <3>4. PICK old \in r[j - 1] :
            old.value \in DocumentTrees[Nesting] /\ m.value = CanonicalInner[old.value]
      BY <1>1, <2>3, <3>1, <3>3
    <3>5. FitsAt(cs, j - 1, old)
      BY <3>3, <3>4, KindsFitAsBefore DEF FitsAt
    <3>6. node.value \in Children(m.value)
      BY <3>3 DEF ElementsOf, Children
    <3>7. PICK w \in Children(old.value) : node.value = CanonicalInner[w]
      <4>1. Children(CanonicalInner[old.value]) = { CanonicalInner[w] : w \in Children(old.value) }
        BY <3>4, CanonicalLooks
      <4>2. QED
        BY <3>4, <3>6, <4>1
    <3>8. w \in DocumentTrees[Nesting]
      BY <3>4, <3>7, TreesByDepth, DocumentChildren
    <3>9. PICK e \in Elements(old.value) : w = e.value
      BY <3>7 DEF Children
    <3> DEFINE lower == [path |-> Extended(old.path, e.at), value |-> e.value]
    <3>10. lower \in ElementsOf(old) /\ lower.value = w
      BY <3>9 DEF ElementsOf
    <3> HIDE DEF lower
    <3>11. lower \in r[j]
      BY <3>2, <3>4, <3>5, <3>10
    <3>12. QED
      BY <3>7, <3>8, <3>10, <3>11
  <2>4. QED
    BY <2>2, <2>3
<1>2. without = {}
  <2> HIDE DEF Stays
  <2> SUFFICES ASSUME without # {} PROVE FALSE
    OBVIOUS
  <2>1. without \in SUBSET Nat
    OBVIOUS
  <2>2. PICK j \in without : \A i \in without : j <= i
    BY <2>1, LeastOfNaturals
  <2>3. j \in 1..n
    BY <2>2 DEF Stays
  <2>4. j # 1 => Stays(j - 1)
    BY <2>2, <2>3
  <2>5. QED
    BY <1>1, <2>2, <2>3, <2>4
<1>3. QED
  BY <1>2

(* Values without a type issue have none when they are canonical. *)
LEMMA TypesHoldAsBefore ==
  ASSUME NEW ty, IsSequence(ty), NEW v \in DocumentTrees[Nesting], NEW path,
         TypeIssues(ty, v, path) = {}
  PROVE  TypeIssues(ty, CanonicalInner[v], path) = {}
<1> DEFINE cs == [ k \in DOMAIN ty |-> ty[k].of ]
           n == Len(ty)
           a == CanonicalInner[v]
           wrong(x, k) == { Issue(node.path, "type") :
                              node \in { m \in x[k] : ~KindFits(ty[k].of, m.value) } }
<1>1. n \in Nat /\ DOMAIN ty = 1..n
  BY SequenceOf
<1>2. PICK r : /\ AreLevels(r, cs, n, v, path)
               /\ TypeIssues(ty, v, path) = UNION { wrong(r, k) : k \in 1..n }
  BY <1>1, TypeIssuesByLevel
<1>3. PICK l : /\ AreLevels(l, cs, n, a, path)
               /\ TypeIssues(ty, a, path) = UNION { wrong(l, k) : k \in 1..n }
  BY <1>1, TypeIssuesByLevel
<1>4. \A k \in 1..n : \A old \in r[k] : KindFits(ty[k].of, old.value)
  <2> SUFFICES ASSUME NEW k \in 1..n, NEW old \in r[k], ~KindFits(ty[k].of, old.value) PROVE FALSE
    OBVIOUS
  <2>1. Issue(old.path, "type") \in wrong(r, k)
    OBVIOUS
  <2> HIDE DEF wrong
  <2>2. QED
    BY <1>2, <2>1
<1>5. \A k \in 1..n : \A node \in l[k] : KindFits(ty[k].of, node.value)
  <2> SUFFICES ASSUME NEW k \in 1..n, NEW node \in l[k] PROVE KindFits(ty[k].of, node.value)
    OBVIOUS
  <2> HIDE DEF cs, n
  <2>1. PICK old \in r[k] :
          old.value \in DocumentTrees[Nesting] /\ node.value = CanonicalInner[old.value]
    <3>1. AreLevels(l, cs, n, CanonicalInner[v], path) /\ AreLevels(r, cs, n, v, path) /\ n \in Nat
      BY <1>1, <1>2, <1>3
    <3>2. \A m \in l[k] : \E old \in r[k] :
            old.value \in DocumentTrees[Nesting] /\ m.value = CanonicalInner[old.value]
      BY <3>1, LevelsAsBefore
    <3>3. QED
      BY <3>2
  <2>2. KindFits(ty[k].of, old.value)
    BY <1>4
  <2>3. QED
    BY <2>1, <2>2, KindsFitAsBefore
<1>6. \A k \in 1..n : wrong(l, k) = {}
  BY <1>5
<1> HIDE DEF wrong
<1>7. QED
  BY <1>3, <1>6

(* In a map without a key twice, get() finds the entry of the key. *)
LEMMA GetIs ==
  ASSUME NEW doc, Sortable(doc.entries), Apart(doc.entries), NEW i \in DOMAIN doc.entries
  PROVE  Get(doc, doc.entries[i].key) = doc.entries[i].value
<1> DEFINE key == doc.entries[i].key
           at(k) == /\ doc.entries[k].key = key
                    /\ \A j \in DOMAIN doc.entries : doc.entries[j].key = key => k <= j
<1>1. i \in Nat
  BY SequenceOf DEF Sortable
<1>2. \A j \in DOMAIN doc.entries : doc.entries[j].key = key => j = i
  BY DEF Apart
<1>3. at(i)
  BY <1>1, <1>2
<1>4. (CHOOSE k \in DOMAIN doc.entries : at(k)) = i
  BY <1>2, <1>3
<1>5. QED
  BY <1>4 DEF Get

(* Canonicalizing a map without a key twice, keys keep their values,       *)
(* canonical themselves.                                                   *)
LEMMA EntriesAsBefore ==
  ASSUME NEW order, IsSequence(order), NEW T, NEW doc \in Maps(T), Apart(doc.entries), NEW key
  PROVE  LET a == CanonicalBy(order, doc)
         IN  /\ a.kind = "map"
             /\ Has(a, key) <=> Has(doc, key)
             /\ Has(doc, key) => /\ Get(a, key) = CanonicalInner[Get(doc, key)]
                                 /\ Get(doc, key) \in T
<1> DEFINE g == CanonicalInner
           U == { g[x] : x \in T }
           c == Converted(doc, g)
           conv(e) == [key |-> e.key, value |-> g[e.value]]
           a == CanonicalBy(order, doc)
           s == Sorted(order, c.entries)
<1>1. /\ doc.kind = "map" /\ \A x \in Children(doc) : x \in T
      /\ \A i \in DOMAIN doc.entries : doc.entries[i].value \in T
  BY MapOfTrees, ChildrenOfTrees
<1>2. c \in Maps(U)
  BY <1>1, ConvertedTrees
<1>3. c = [kind |-> "map", entries |-> [ i \in DOMAIN doc.entries |-> conv(doc.entries[i]) ]]
  BY ConvertedMap
<1>4. c.entries = [ i \in DOMAIN doc.entries |-> conv(doc.entries[i]) ]
  BY <1>3
<1>5. Apart(c.entries)
  BY <1>1, ConvertedKeeps
<1>6. Sortable(c.entries) /\ Sortable(doc.entries)
  BY <1>2, EntriesAreSortable
<1>7. \A e : conv(e).key = e.key /\ conv(e).value = g[e.value]
  OBVIOUS
<1> HIDE DEF c, conv
<1>8. a = [kind |-> "map", entries |-> s]
  BY <1>2, ArrangedTrees DEF CanonicalBy, c
<1>9. Range(s) = Range(c.entries) /\ Sortable(s) /\ Apart(s)
  BY <1>5, <1>6, SortedOrders
<1> HIDE DEF s, a
<1>10. a.kind = "map" /\ a.entries = s
  BY <1>8
<1>11. \A i \in DOMAIN doc.entries : \E j \in DOMAIN s : s[j] = conv(doc.entries[i])
  BY <1>4, <1>9 DEF Range
<1>12. \A j \in DOMAIN s : \E i \in DOMAIN doc.entries : s[j] = conv(doc.entries[i])
  <2>1. \A j \in DOMAIN s : \E i \in DOMAIN c.entries : s[j] = c.entries[i]
    BY <1>9 DEF Range
  <2>2. \A i \in DOMAIN c.entries : i \in DOMAIN doc.entries /\ c.entries[i] = conv(doc.entries[i])
    BY <1>4
  <2>3. QED
    BY <2>1, <2>2
<1>13. Has(a, key) <=> Has(doc, key)
  BY <1>7, <1>10, <1>11, <1>12 DEF Has
<1>14. ASSUME Has(doc, key)
       PROVE  Get(a, key) = CanonicalInner[Get(doc, key)] /\ Get(doc, key) \in T
  <2>1. PICK i \in DOMAIN doc.entries : doc.entries[i].key = key
    BY <1>14 DEF Has
  <2>2. PICK j \in DOMAIN s : s[j] = conv(doc.entries[i])
    BY <1>11
  <2>3. s[j].key = key /\ s[j].value = g[doc.entries[i].value]
    BY <1>7, <2>1, <2>2
  <2>4. Get(doc, key) = doc.entries[i].value
    BY <1>6, <2>1, GetIs
  <2>5. Get(a, key) = s[j].value
    BY <1>9, <1>10, <2>3, GetIs
  <2>6. QED
    BY <1>1, <2>3, <2>4, <2>5
<1>15. QED
  BY <1>10, <1>13, <1>14 DEF a

(* A valid document is valid once it is canonical. *)
LEMMA ValidAsBefore ==
  ASSUME NEW fields \in Schemas, NEW order, IsSequence(order),
         NEW doc \in DocumentTrees[Nesting], Portable(doc), Validate(fields, doc) = "valid"
  PROVE  Validate(fields, CanonicalBy(order, doc)) = "valid"
<1> DEFINE a == CanonicalBy(order, doc)
           T == DocumentTrees[Nesting - 1]
<1>1. /\ IsSequence(fields)
      /\ \A f \in Range(fields) :
           /\ IsSequence(f.ty)
           /\ \A c \in Range(f.constraints) :
                c.kind \in {"range", "length", "pattern", "nonempty", "custom"}
  BY SchemasAssumption
<1>2. /\ Issues(fields, doc) = {}
      /\ ~ /\ doc.kind = "map"
           /\ \E f \in Range(fields) : Has(doc, f.name) /\
                \E c \in Range(f.constraints) : Unevaluable(c, Get(doc, f.name))
  BY DEF Validate
<1>3. doc.kind = "map"
  BY <1>2 DEF Issues
<1>4. doc \in Maps(T) /\ T \subseteq DocumentTrees[Nesting]
  <2>1. ~Leaf(doc) /\ Nesting \in 0..Nesting /\ \A U : doc \in Lists(U) => doc.kind = "list"
    BY <1>3, ListOfTrees, TreesByDepth DEF Leaf
  <2>2. QED
    BY <1>3, <2>1, DocumentShape
<1> HIDE DEF T
<1>5. Apart(doc.entries)
  BY <1>3, NestedInDocument DEF Portable, Apart
<1>6. /\ a.kind = "map"
      /\ \A key :
           /\ Has(a, key) <=> Has(doc, key)
           /\ Has(doc, key) => /\ Get(a, key) = CanonicalInner[Get(doc, key)]
                               /\ Get(doc, key) \in DocumentTrees[Nesting]
  BY <1>4, <1>5, EntriesAsBefore
<1> HIDE DEF a
<1>7. \A f \in Range(fields) : FieldIssues(f, doc) = {}
  BY <1>2, <1>3 DEF Issues
<1>8. ASSUME NEW f \in Range(fields)
      PROVE  /\ FieldIssues(f, a) = {}
             /\ Has(a, f.name) => \A c \in Range(f.constraints) : ~Unevaluable(c, Get(a, f.name))
  <2> DEFINE path == << [key |-> f.name] >>
             v == Get(doc, f.name)
             w == Get(a, f.name)
             broken(x) == { Issue(path, c.kind) : c \in { d \in Range(f.constraints) : ~Satisfied(d, x) } }
  <2>1. CASE ~Has(doc, f.name)
    <3>1. ~Has(a, f.name) /\ FieldIssues(f, doc) = {}
      BY <1>6, <1>7, <2>1
    <3>2. FieldIssues(f, a) = {}
      BY <2>1, <3>1 DEF FieldIssues
    <3>3. QED
      BY <3>1, <3>2
  <2>2. CASE Has(doc, f.name)
    <3>1. Has(a, f.name) /\ w = CanonicalInner[v] /\ v \in DocumentTrees[Nesting]
      BY <1>6, <2>2
    <3>2. TypeIssues(f.ty, v, path) = {} /\ broken(v) = {}
      <4>1. FieldIssues(f, doc) = TypeIssues(f.ty, v, path) \cup broken(v)
        BY <2>2 DEF FieldIssues
      <4> HIDE DEF broken, path, v
      <4>2. QED
        BY <1>7, <4>1
    <3> HIDE DEF v, w, path
    <3>3. TypeIssues(f.ty, w, path) = {}
      BY <1>1, <3>1, <3>2, TypesHoldAsBefore
    <3>4. \A d \in Range(f.constraints) : Satisfied(d, v)
      <4> SUFFICES ASSUME NEW d \in Range(f.constraints), ~Satisfied(d, v) PROVE FALSE
        OBVIOUS
      <4>1. Issue(path, d.kind) \in broken(v)
        OBVIOUS
      <4>2. QED
        BY <3>2, <4>1
    <3>5. \A d \in Range(f.constraints) : Satisfied(d, w) /\ (Unevaluable(d, w) => Unevaluable(d, v))
      BY <1>1, <3>1, <3>4, ConstraintsHoldAsBefore
    <3>6. broken(w) = {}
      BY <3>5
    <3>7. FieldIssues(f, a) = TypeIssues(f.ty, w, path) \cup broken(w)
      BY <3>1 DEF FieldIssues, w, path
    <3>8. \A c \in Range(f.constraints) : ~Unevaluable(c, w)
      BY <1>2, <1>3, <2>2, <3>5 DEF v
    <3> HIDE DEF broken
    <3>9. QED
      BY <3>3, <3>6, <3>7, <3>8 DEF w
  <2>3. QED
    BY <2>1, <2>2
<1>9. Issues(fields, a) = {}
  BY <1>6, <1>8 DEF Issues
<1>10. ~ \E f \in Range(fields) : Has(a, f.name) /\
           \E c \in Range(f.constraints) : Unevaluable(c, Get(a, f.name))
  BY <1>8
<1>11. Validate(fields, a) = "valid"
  BY <1>9, <1>10 DEF Validate
<1>12. QED
  BY <1>11 DEF a

(* ValidOnArrival, likewise. *)
THEOREM ValidIsValidOnArrival == Spec => []ValidOnArrival
<1>1. Inv => ValidOnArrival
  <2> SUFFICES ASSUME Inv, Portable(original), Validate(schema, original) = "valid"
               PROVE  Validate(schema, held) = "valid"
    BY DEF ValidOnArrival
  <2>1. /\ schema \in Schemas /\ original \in DocumentTrees[Nesting]
        /\ held = original \/ held = Sent(original)
    BY DEF Inv, HeldInv, IntactInv
  <2>2. IsSequence(OrderOf(schema))
    BY <2>1, OrderIsSequence
  <2>3. Validate(schema, Sent(original)) = "valid"
    BY <2>1, <2>2, ValidAsBefore DEF Sent
  <2>4. QED
    BY <2>1, <2>3
<1>2. QED
  BY <1>1, InvHolds, PTL
=============================================================================
