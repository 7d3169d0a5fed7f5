----------------------- MODULE MigrationPlannerProofs -----------------------
(***************************************************************************)
(* Proofs about MigrationPlanner, for every value of its constants.        *)
(* Walks and paths of module Migrations: how they grow, shrink and are cut *)
(* short, and that SimplePaths, computed hop by hop up to a bound, is      *)
(* exactly the set of simple paths.  The types, and that backtracking      *)
(* leaves the shared visited set and path exactly as the stack of          *)
(* recursive calls needs them.  What the searches find: the breadth-first  *)
(* one the length of a shortest path, the depth-first ones exactly the     *)
(* paths they are to find, and so they implement PlanPromise.              *)
(***************************************************************************)
EXTENDS MigrationPlanner, MigrationGraphProofs, FiniteSetTheorems, SequenceTheorems

-----------------------------------------------------------------------------
(* Walks and paths. *)

(* A set of naturals that is not empty has a least element. *)
LEMMA LeastNatural ==
  ASSUME NEW T \in SUBSET Nat, T # {}
  PROVE  \E x \in T : \A y \in T : x <= y
<1>1. \E x \in T : \A y \in T : ~(<< y, x >> \in OpToRel(<, Nat))
  BY NatLessThanWellFounded, WFMin
<1>2. PICK x \in T : \A y \in T : ~(<< y, x >> \in OpToRel(<, Nat))
  BY <1>1
<1>3. ASSUME NEW y \in T PROVE x <= y
  <2>1. ~(y < x)
    BY <1>2, <1>3 DEF OpToRel
  <2>2. QED
    BY <2>1
<1>4. QED
  BY <1>3

(* The nodes are finitely many. *)
LEMMA NodesAreFinite ==
  IsFiniteSet(SchemaId) /\ Cardinality(SchemaId) \in Nat
<1> DEFINE pair == [ node \in SchemaId |-> << node.family, node.version >> ]
<1>1. IsFiniteSet(Families \X Versions)
  BY FiniteAssumption, FS_Product
<1>2. pair \in [SchemaId -> Families \X Versions]
  BY DEF SchemaId
<1>3. \A a, b \in SchemaId : pair[a] = pair[b] => a = b
  BY DEF SchemaId
<1>4. pair \in Injection(SchemaId, Families \X Versions)
  BY <1>2, <1>3 DEF Injection, IsInjective
<1>5. IsFiniteSet(SchemaId)
  BY <1>1, <1>4, FS_Injection
<1>6. QED
  BY <1>5, FS_CardinalityType

-----------------------------------------------------------------------------
(* Hops and walks. *)

LEMMA HopNodes ==
  ASSUME NEW migs \in Seq(Migration), NEW hop \in Hops(migs)
  PROVE  HopFrom(migs, hop) \in SchemaId /\ HopTo(migs, hop) \in SchemaId
<1>1. hop.migration \in DOMAIN migs
  BY DEF Hops
<1>2. migs[hop.migration] \in Migration
  BY <1>1
<1>3. QED
  BY <1>2 DEF HopFrom, HopTo, PreSchema, PostSchema, NodeOf, Migration, Schema, Contract,
     SchemaId

LEMMA WalkOfOneHop ==
  ASSUME NEW migs, NEW hop \in Hops(migs)
  PROVE  IsWalk(migs, << hop >>, HopFrom(migs, hop), HopTo(migs, hop))
BY DEF IsWalk

LEMMA WalkGrows ==
  ASSUME NEW migs, NEW p, NEW from, NEW to, IsWalk(migs, p, from, to),
         NEW hop \in Hops(migs), HopFrom(migs, hop) = to
  PROVE  /\ IsWalk(migs, Append(p, hop), from, HopTo(migs, hop))
         /\ Len(Append(p, hop)) = Len(p) + 1
<1> DEFINE q == Append(p, hop)
<1>1. p \in Seq(Hops(migs)) /\ p # << >> /\ Len(p) \in Nat \ {0}
  BY DEF IsWalk
<1>2. /\ q \in Seq(Hops(migs)) /\ q # << >> /\ Len(q) = Len(p) + 1
      /\ \A k \in 1..Len(p) : q[k] = p[k]
      /\ q[Len(p) + 1] = hop
  BY <1>1, AppendProperties
<1> HIDE DEF q
<1>3. HopFrom(migs, q[1]) = from /\ HopTo(migs, q[Len(q)]) = HopTo(migs, hop)
  BY <1>1, <1>2 DEF IsWalk
<1>4. ASSUME NEW k \in 1..(Len(q) - 1)
      PROVE  HopTo(migs, q[k]) = HopFrom(migs, q[k + 1])
  <2>1. CASE k = Len(p)
    BY <1>1, <1>2, <2>1 DEF IsWalk
  <2>2. CASE k < Len(p)
    <3>1. k \in 1..(Len(p) - 1) /\ q[k] = p[k] /\ q[k + 1] = p[k + 1]
      BY <1>1, <1>2, <2>2
    <3>2. QED
      BY <3>1 DEF IsWalk
  <2>3. QED
    BY <1>1, <1>2, <2>1, <2>2
<1>5. QED
  BY <1>2, <1>3, <1>4 DEF q, IsWalk

(* Without its last hop a walk of several hops is a walk. *)
LEMMA WalkShrinks ==
  ASSUME NEW migs, NEW p, NEW from, NEW to, IsWalk(migs, p, from, to), Len(p) > 1
  PROVE  /\ IsWalk(migs, SubSeq(p, 1, Len(p) - 1), from, HopFrom(migs, p[Len(p)]))
         /\ Len(SubSeq(p, 1, Len(p) - 1)) = Len(p) - 1
         /\ p = Append(SubSeq(p, 1, Len(p) - 1), p[Len(p)])
<1> DEFINE n == Len(p) - 1
           q == SubSeq(p, 1, n)
<1>1. p \in Seq(Hops(migs)) /\ n \in Nat /\ n >= 1
  BY DEF IsWalk
<1>2. \A k \in 1..n : p[k] \in Hops(migs)
  BY <1>1
<1>3. q \in Seq(Hops(migs)) /\ Len(q) = n /\ \A k \in 1..n : q[k] = p[k]
  <2> HIDE DEF n
  <2>1. QED
    BY <1>1, <1>2, SubSeqProperties
<1>4. IsWalk(migs, q, from, HopFrom(migs, p[Len(p)]))
  <2> HIDE DEF q
  <2>1. q # << >>
    BY <1>1, <1>3
  <2>2. HopFrom(migs, q[1]) = from
    BY <1>1, <1>3 DEF IsWalk
  <2>3. \A k \in 1..(Len(p) - 1) : HopTo(migs, p[k]) = HopFrom(migs, p[k + 1])
    BY DEF IsWalk
  <2>4. HopTo(migs, q[n]) = HopFrom(migs, p[Len(p)])
    BY <1>1, <1>3, <2>3
  <2>5. \A k \in 1..(Len(q) - 1) : HopTo(migs, q[k]) = HopFrom(migs, q[k + 1])
    BY <1>1, <1>3, <2>3
  <2>6. QED
    BY <1>3, <2>1, <2>2, <2>4, <2>5 DEF IsWalk
<1>5. p = Append(q, p[Len(p)])
  BY <1>1, <1>3
<1>6. QED
  BY <1>3, <1>4, <1>5

(* A walk that comes back to a node it has left can be cut short there. *)
LEMMA WalkCutsLoop ==
  ASSUME NEW migs, NEW p, NEW from, NEW to, IsWalk(migs, p, from, to),
         NEW j \in DOMAIN p, NEW k \in DOMAIN p, j < k,
         HopTo(migs, p[j]) = HopTo(migs, p[k])
  PROVE  \E q : IsWalk(migs, q, from, to) /\ Len(q) < Len(p)
<1> DEFINE d == k - j
           n == Len(p) - d
           q == [i \in 1..n |-> IF i <= j THEN p[i] ELSE p[i + d]]
<1>1. /\ p \in Seq(Hops(migs)) /\ j \in 1..Len(p) /\ k \in 1..Len(p)
      /\ n \in Nat /\ n >= j /\ n < Len(p)
      /\ j \in Nat /\ k \in Nat /\ Len(p) \in Nat /\ d \in Nat
  BY DEF IsWalk
<1>2. \A i \in 1..(Len(p) - 1) : HopTo(migs, p[i]) = HopFrom(migs, p[i + 1])
  BY DEF IsWalk
<1>3. \A i \in 1..n : q[i] = IF i <= j THEN p[i] ELSE p[i + d]
  OBVIOUS
<1>4. k = j + d /\ n + d = Len(p)
  <2>1. k = j + d
    BY <1>1
  <2>2. n + d = Len(p)
    <3>1. d \in Nat /\ Len(p) \in Nat
      BY <1>1
    <3> HIDE DEF d
    <3>2. QED
      BY <3>1
  <2>3. QED
    BY <2>1, <2>2
<1> HIDE DEF n, d
<1>5. \A i \in 1..n : (IF i <= j THEN p[i] ELSE p[i + d]) \in Hops(migs)
  <2>1. ASSUME NEW i \in 1..n PROVE i \in 1..Len(p)
    BY <1>1
  <2>2. ASSUME NEW i \in 1..n PROVE i + d \in 1..Len(p)
    BY <1>1, <1>4
  <2>3. ASSUME NEW i \in 1..n PROVE p[i] \in Hops(migs)
    BY <1>1, <2>1
  <2>4. ASSUME NEW i \in 1..n PROVE p[i + d] \in Hops(migs)
    BY <1>1, <2>2
  <2>5. QED
    BY <2>3, <2>4
<1>6. q \in Seq(Hops(migs)) /\ Len(q) = n
  BY <1>1, <1>5
<1> HIDE DEF q
<1>7. q # << >>
  BY <1>1, <1>6
<1>8. HopFrom(migs, q[1]) = from
  BY <1>1, <1>3 DEF IsWalk
<1>9. HopTo(migs, q[n]) = to
  <2>1. CASE n = j
    <3>1. k = Len(p)
      BY <1>1, <1>4, <2>1
    <3>2. n \in 1..n
      BY <1>1, <2>1
    <3>3. q[n] = p[j]
      BY <1>1, <1>3, <2>1, <3>2
    <3>4. QED
      BY <3>1, <3>3 DEF IsWalk
  <2>2. CASE n > j
    <3>1. q[n] = p[Len(p)]
      <4>1. n + d = Len(p)
        BY <1>4
      <4>2. n \in 1..n
        BY <1>1, <2>2
      <4>3. ~(n <= j)
        BY <1>1, <2>2
      <4>4. QED
        BY <1>3, <4>1, <4>2, <4>3
    <3>2. QED
      BY <3>1 DEF IsWalk
  <2>3. QED
    BY <1>1, <2>1, <2>2
<1>10. ASSUME NEW i \in 1..(n - 1)
       PROVE  HopTo(migs, q[i]) = HopFrom(migs, q[i + 1])
  <2>0. i \in 1..n /\ i + 1 \in 1..n /\ i \in Nat
    BY <1>1
  <2>1. CASE i < j
    <3>1. q[i] = p[i] /\ q[i + 1] = p[i + 1] /\ i \in 1..(Len(p) - 1)
      BY <1>1, <1>3, <2>0, <2>1
    <3>2. QED
      BY <1>2, <3>1
  <2>2. CASE i = j
    <3>1. (i + 1) + d = k + 1
      BY <1>1, <1>4, <2>2
    <3>2. i <= j /\ ~(i + 1 <= j)
      BY <1>1, <2>2
    <3>3. k <= Len(p) - 1
      BY <1>1, <1>4, <2>0, <2>2
    <3>4. k \in 1..(Len(p) - 1)
      BY <1>1, <3>3
    <3>5. q[i] = p[j]
      BY <1>3, <2>0, <2>2, <3>2
    <3>6. q[i + 1] = p[k + 1]
      BY <1>3, <2>0, <3>1, <3>2
    <3>7. QED
      BY <1>2, <3>4, <3>5, <3>6
  <2>3. CASE i > j
    <3>1. (i + 1) + d = (i + d) + 1
      BY <1>1, <2>0
    <3>2. ~(i <= j) /\ ~(i + 1 <= j)
      BY <1>1, <2>0, <2>3
    <3>3. i + d \in 1..(Len(p) - 1)
      BY <1>1, <1>4, <2>0, <2>3
    <3>4. q[i] = p[i + d]
      BY <1>3, <2>0, <3>2
    <3>5. q[i + 1] = p[(i + d) + 1]
      BY <1>3, <2>0, <3>1, <3>2
    <3>6. QED
      BY <1>2, <3>3, <3>4, <3>5
  <2>4. QED
    BY <1>1, <2>0, <2>1, <2>2, <2>3
<1>11. IsWalk(migs, q, from, to)
  BY <1>6, <1>7, <1>8, <1>9, <1>10 DEF IsWalk
<1>12. QED
  BY <1>1, <1>6, <1>11

(* A walk elsewhere that comes back to its start can begin there. *)
LEMMA WalkCutsReturn ==
  ASSUME NEW migs, NEW p, NEW from, NEW to, IsWalk(migs, p, from, to), from # to,
         NEW k \in DOMAIN p, HopTo(migs, p[k]) = from
  PROVE  \E q : IsWalk(migs, q, from, to) /\ Len(q) < Len(p)
<1> DEFINE n == Len(p) - k
           q == [i \in 1..n |-> p[i + k]]
<1>1. p \in Seq(Hops(migs)) /\ k \in 1..Len(p) /\ k # Len(p)
  BY DEF IsWalk
<1>2. /\ n \in Nat /\ n >= 1 /\ n < Len(p) /\ n = Len(p) - k
      /\ k \in Nat /\ Len(p) \in Nat
  BY <1>1
<1>3. \A i \in 1..(Len(p) - 1) : HopTo(migs, p[i]) = HopFrom(migs, p[i + 1])
  BY DEF IsWalk
<1>5. \A i \in 1..n : q[i] = p[i + k]
  OBVIOUS
<1> HIDE DEF n
<1>4. q \in Seq(Hops(migs)) /\ Len(q) = n
  <2>1. \A i \in 1..n : i + k \in 1..Len(p)
    BY <1>1, <1>2
  <2>2. \A i \in 1..n : p[i + k] \in Hops(migs)
    BY <1>1, <2>1
  <2>3. q \in [1..n -> Hops(migs)]
    BY <2>2
  <2> HIDE DEF q
  <2>4. q \in Seq(Hops(migs))
    BY <1>2, <2>3
  <2>5. QED
    BY <1>2, <2>3, <2>4
<1> HIDE DEF q
<1>6. q # << >>
  BY <1>2, <1>4
<1>7. HopFrom(migs, q[1]) = from
  <2>1. q[1] = p[k + 1] /\ k \in 1..(Len(p) - 1)
    BY <1>1, <1>2, <1>5
  <2>2. QED
    BY <1>3, <2>1
<1>8. HopTo(migs, q[n]) = to
  <2>1. n \in 1..n
    BY <1>2
  <2>2. n + k = Len(p)
    BY <1>2
  <2>3. q[n] = p[Len(p)]
    BY <1>5, <2>1, <2>2
  <2>4. QED
    BY <2>3 DEF IsWalk
<1>9. ASSUME NEW i \in 1..(n - 1)
      PROVE  HopTo(migs, q[i]) = HopFrom(migs, q[i + 1])
  <2>1. /\ i + k \in 1..(Len(p) - 1) /\ (i + 1) + k = (i + k) + 1
        /\ i \in 1..n /\ i + 1 \in 1..n
    BY <1>1, <1>2
  <2>2. q[i] = p[i + k] /\ q[i + 1] = p[(i + k) + 1]
    BY <1>5, <2>1
  <2>3. QED
    BY <1>3, <2>1, <2>2
<1>10. IsWalk(migs, q, from, to)
  BY <1>4, <1>6, <1>7, <1>8, <1>9 DEF IsWalk
<1>11. QED
  BY <1>2, <1>4, <1>10

LEMMA ShortestWalkIsSimple ==
  ASSUME NEW migs, NEW p, NEW from, NEW to, IsWalk(migs, p, from, to), from # to,
         \A q : IsWalk(migs, q, from, to) => Len(p) <= Len(q)
  PROVE  IsSimplePath(migs, p, from, to)
<1>1. Len(p) \in Nat /\ DOMAIN p = 1..Len(p)
  BY DEF IsWalk
<1>2. \A q : IsWalk(migs, q, from, to) => Len(q) \in Nat
  BY DEF IsWalk
<1>3. ASSUME NEW k \in DOMAIN p, HopTo(migs, p[k]) = from PROVE FALSE
  <2>1. PICK q : IsWalk(migs, q, from, to) /\ Len(q) < Len(p)
    BY <1>3, WalkCutsReturn
  <2>2. QED
    BY <1>1, <1>2, <2>1
<1>4. ASSUME NEW j \in DOMAIN p, NEW k \in DOMAIN p, j < k,
             HopTo(migs, p[j]) = HopTo(migs, p[k])
      PROVE  FALSE
  <2>1. PICK q : IsWalk(migs, q, from, to) /\ Len(q) < Len(p)
    BY <1>4, WalkCutsLoop
  <2>2. QED
    BY <1>1, <1>2, <2>1
<1>5. \A j, k \in DOMAIN p : HopTo(migs, p[j]) = HopTo(migs, p[k]) => j = k
  BY <1>1, <1>4
<1>6. QED
  BY <1>3, <1>5 DEF IsSimplePath

(* A simple path is shorter than there are nodes. *)
LEMMA SimplePathIsShort ==
  ASSUME NEW migs \in Seq(Migration), NEW p, NEW from, NEW to,
         IsSimplePath(migs, p, from, to)
  PROVE  Len(p) \in Nat /\ Len(p) <= Cardinality(SchemaId) - 1
<1> DEFINE end == [k \in 1..Len(p) |-> HopTo(migs, p[k])]
           rest == SchemaId \ {from}
<1>1. p \in Seq(Hops(migs)) /\ p # << >> /\ from = HopFrom(migs, p[1])
  BY DEF IsSimplePath, IsWalk
<1>2. from \in SchemaId
  BY <1>1, HopNodes
<1>3. \A k \in 1..Len(p) : HopTo(migs, p[k]) \in rest
  BY <1>1, HopNodes DEF IsSimplePath
<1>4. end \in [1..Len(p) -> rest]
  BY <1>3
<1>5. \A j, k \in 1..Len(p) : end[j] = end[k] => j = k
  BY <1>1 DEF IsSimplePath
<1> HIDE DEF end
<1>6. end \in Injection(1..Len(p), rest)
  BY <1>4, <1>5 DEF Injection, IsInjective
<1>7. IsFiniteSet(rest) /\ Cardinality(rest) = Cardinality(SchemaId) - 1
  BY <1>2, NodesAreFinite, FS_RemoveElement
<1>8. Cardinality(1..Len(p)) <= Cardinality(rest)
  BY <1>6, <1>7, FS_Injection
<1>9. Cardinality(1..Len(p)) = Len(p) /\ Len(p) \in Nat
  <2>1. Len(p) \in Nat /\ Len(p) >= 1
    BY <1>1
  <2>2. 1 \in Int /\ Len(p) \in Int
    BY <2>1
  <2>3. Cardinality(1..Len(p)) = IF 1 > Len(p) THEN 0 ELSE Len(p) - 1 + 1
    BY <2>2, FS_Interval
  <2>4. Cardinality(1..Len(p)) = Len(p)
    BY <2>1, <2>3
  <2>5. QED
    BY <2>1, <2>4
<1>10. QED
  BY <1>7, <1>8, <1>9

-----------------------------------------------------------------------------
(* What WalksFrom and SimplePaths compute. *)

(* The walks of length n from a node, wherever they lead. *)
WalksOfLength(migs, from, n) ==
  { p \in Seq(Hops(migs)) :
      Len(p) = n /\ IsWalk(migs, p, from, HopTo(migs, p[Len(p)])) }

(* One level of walks, from the level below. *)
LongerWalks(migs, from, n, shorter) ==
  IF n = 1 THEN { << hop >> : hop \in EdgesFrom(migs, from) }
  ELSE UNION { { Append(p, hop) : hop \in EdgesFrom(migs, HopTo(migs, p[n - 1])) }
               : p \in shorter }

LEMMA WalksOfLengthOne ==
  ASSUME NEW migs, NEW from
  PROVE  { << hop >> : hop \in EdgesFrom(migs, from) } = WalksOfLength(migs, from, 1)
<1>1. ASSUME NEW hop \in EdgesFrom(migs, from)
      PROVE  << hop >> \in WalksOfLength(migs, from, 1)
  <2>1. hop \in Hops(migs) /\ HopFrom(migs, hop) = from
    BY DEF EdgesFrom
  <2>2. /\ << hop >> \in Seq(Hops(migs)) /\ Len(<< hop >>) = 1
        /\ << hop >>[Len(<< hop >>)] = hop
    BY <2>1
  <2>3. QED
    BY <2>1, <2>2, WalkOfOneHop DEF WalksOfLength
<1>2. ASSUME NEW p \in WalksOfLength(migs, from, 1)
      PROVE  \E hop \in EdgesFrom(migs, from) : p = << hop >>
  <2>1. p \in Seq(Hops(migs)) /\ Len(p) = 1 /\ HopFrom(migs, p[1]) = from
    BY DEF WalksOfLength, IsWalk
  <2>2. p[1] \in Hops(migs) /\ p = << p[1] >>
    BY <2>1
  <2>3. QED
    BY <2>1, <2>2 DEF EdgesFrom
<1>3. QED
  BY <1>1, <1>2

LEMMA WalksOneLonger ==
  ASSUME NEW migs, NEW from, NEW n \in Nat, n > 1
  PROVE  UNION { { Append(p, hop) :
                     hop \in EdgesFrom(migs, HopTo(migs, p[n - 1])) }
                 : p \in WalksOfLength(migs, from, n - 1) }
           = WalksOfLength(migs, from, n)
<1> DEFINE next(p) == EdgesFrom(migs, HopTo(migs, p[n - 1]))
<1>1. ASSUME NEW p \in WalksOfLength(migs, from, n - 1), NEW hop \in next(p)
      PROVE  Append(p, hop) \in WalksOfLength(migs, from, n)
  <2>1. /\ p \in Seq(Hops(migs)) /\ Len(p) = n - 1
        /\ IsWalk(migs, p, from, HopTo(migs, p[n - 1]))
    BY DEF WalksOfLength
  <2>2. hop \in Hops(migs) /\ HopFrom(migs, hop) = HopTo(migs, p[n - 1])
    BY DEF EdgesFrom
  <2>3. IsWalk(migs, Append(p, hop), from, HopTo(migs, hop))
    BY <2>1, <2>2, WalkGrows
  <2>4. /\ Append(p, hop) \in Seq(Hops(migs)) /\ Len(Append(p, hop)) = n
        /\ Append(p, hop)[n] = hop
    BY <2>1, <2>2
  <2>5. QED
    BY <2>3, <2>4 DEF WalksOfLength
<1>2. ASSUME NEW p \in WalksOfLength(migs, from, n)
      PROVE  \E q \in WalksOfLength(migs, from, n - 1) : \E hop \in next(q) :
               p = Append(q, hop)
  <2> DEFINE q   == SubSeq(p, 1, Len(p) - 1)
             hop == p[Len(p)]
  <2>1. /\ p \in Seq(Hops(migs)) /\ Len(p) = n
        /\ IsWalk(migs, p, from, HopTo(migs, hop))
    BY DEF WalksOfLength
  <2>2. /\ IsWalk(migs, q, from, HopFrom(migs, hop))
        /\ Len(q) = n - 1 /\ p = Append(q, hop)
    BY <2>1, WalkShrinks
  <2>3. hop \in Hops(migs)
    BY <2>1
  <2> HIDE DEF q, hop
  <2>4. q \in Seq(Hops(migs)) /\ HopTo(migs, q[n - 1]) = HopFrom(migs, hop)
    BY <2>2 DEF IsWalk
  <2>5. q \in WalksOfLength(migs, from, n - 1)
    BY <2>2, <2>4 DEF WalksOfLength
  <2>6. hop \in next(q)
    BY <2>3, <2>4 DEF EdgesFrom
  <2>7. QED
    BY <2>2, <2>5, <2>6
<1> DEFINE grown(p) == { Append(p, hop) : hop \in next(p) }
<1>3. \A p \in WalksOfLength(migs, from, n - 1) : \A q \in grown(p) :
        q \in WalksOfLength(migs, from, n)
  BY <1>1
<1>4. \A p \in WalksOfLength(migs, from, n) :
        \E q \in WalksOfLength(migs, from, n - 1) : p \in grown(q)
  BY <1>2
<1>5. UNION { grown(p) : p \in WalksOfLength(migs, from, n - 1) }
        = WalksOfLength(migs, from, n)
  <2> HIDE DEF grown
  <2>1. QED
    BY <1>3, <1>4
<1>6. QED
  BY <1>5

(* WalksFrom is all walks up to the bound. *)
LEMMA WalksFromIsAllWalks ==
  ASSUME NEW migs, NEW from, NEW maxLen \in Int
  PROVE  WalksFrom(migs, from, maxLen) =
           UNION { WalksOfLength(migs, from, n) : n \in 1..maxLen }
<1> DEFINE IsLevels(w) ==
             w = [n \in 1..maxLen |-> LongerWalks(migs, from, n, w[n - 1])]
           all == [n \in 1..maxLen |-> WalksOfLength(migs, from, n)]
           walks == CHOOSE w : IsLevels(w)
<1>1. IsLevels(all)
  <2>1. ASSUME NEW n \in 1..maxLen
        PROVE  WalksOfLength(migs, from, n) = LongerWalks(migs, from, n, all[n - 1])
    <3>1. CASE n = 1
      BY <3>1, WalksOfLengthOne DEF LongerWalks
    <3>2. CASE n # 1
      <4>1. n \in Nat /\ n > 1 /\ n - 1 \in 1..maxLen
        BY <3>2
      <4>2. all[n - 1] = WalksOfLength(migs, from, n - 1)
        BY <4>1
      <4> HIDE DEF all
      <4>3. QED
        BY <3>2, <4>1, <4>2, WalksOneLonger DEF LongerWalks
    <3>3. QED
      BY <3>1, <3>2
  <2>2. QED
    BY <2>1
<1>2. IsLevels(walks)
  BY <1>1
<1>3. ASSUME NEW n \in 1..maxLen PROVE walks[n] = WalksOfLength(migs, from, n)
  <2> DEFINE wrong == { k \in 1..maxLen : walks[k] # WalksOfLength(migs, from, k) }
  <2> HIDE DEF walks
  <2>1. SUFFICES ASSUME wrong # {} PROVE FALSE
    OBVIOUS
  <2>2. wrong \in SUBSET Nat
    OBVIOUS
  <2>3. PICK k \in wrong : \A j \in wrong : k <= j
    <3> HIDE DEF wrong
    <3>1. QED
      BY <2>1, <2>2, LeastNatural
  <2>4. walks[k] = LongerWalks(migs, from, k, walks[k - 1])
    BY <1>2
  <2>5. CASE k = 1
    BY <2>4, <2>5, WalksOfLengthOne DEF LongerWalks
  <2>6. CASE k # 1
    <3>1. k \in Nat /\ k > 1 /\ k - 1 \in 1..maxLen
      BY <2>6
    <3>2. k - 1 \notin wrong
      BY <2>3, <3>1
    <3>3. walks[k - 1] = WalksOfLength(migs, from, k - 1)
      BY <3>1, <3>2
    <3>4. walks[k] = WalksOfLength(migs, from, k)
      BY <2>4, <2>6, <3>1, <3>3, WalksOneLonger DEF LongerWalks
    <3>5. QED
      BY <3>4
  <2>7. QED
    BY <2>5, <2>6
<1>4. WalksFrom(migs, from, maxLen) = UNION { walks[n] : n \in 1..maxLen }
  BY DEF WalksFrom, LongerWalks
<1> HIDE DEF walks
<1>5. QED
  BY <1>3, <1>4

(* SimplePaths, the reference the searches are compared with, holds every  *)
(* simple path and nothing else: its bound cuts none off.                  *)
THEOREM SimplePathsAreAll ==
  ASSUME NEW migs \in Seq(Migration), NEW from, NEW to, NEW p
  PROVE  p \in SimplePaths(migs, from, to) <=> IsSimplePath(migs, p, from, to)
<1> DEFINE most == Cardinality(SchemaId) - 1
<1>1. most \in Int
  BY NodesAreFinite
<1>2. ASSUME IsSimplePath(migs, p, from, to)
      PROVE  p \in WalksFrom(migs, from, most)
  <2>1. Len(p) \in Nat /\ Len(p) <= most
    BY <1>2, SimplePathIsShort
  <2>2. /\ IsWalk(migs, p, from, HopTo(migs, p[Len(p)]))
        /\ p \in Seq(Hops(migs)) /\ p # << >>
    BY <1>2 DEF IsSimplePath, IsWalk
  <2>3. p \in WalksOfLength(migs, from, Len(p))
    BY <2>2 DEF WalksOfLength
  <2>4. Len(p) \in 1..most
    <3>1. Len(p) >= 1
      BY <2>2
    <3> HIDE DEF most
    <3>2. QED
      BY <1>1, <2>1, <3>1
  <2>5. QED
    BY <1>1, <2>3, <2>4, WalksFromIsAllWalks
<1>3. QED
  BY <1>2 DEF SimplePaths

-----------------------------------------------------------------------------
(* The stack of frames, counted from the outermost call. *)

FrameAt(s, k) == s[Len(s) + 1 - k]

FramesOf(hops) == [node : SchemaId, todo : SUBSET hops, remaining : Nat]

LEMMA TodoFrames ==
  ASSUME NEW hops, NEW s \in Seq(FramesOf(hops)), s # << >>, NEW hop
  PROVE  /\ Todo(s, hop) \in Seq(FramesOf(hops)) /\ Todo(s, hop) # << >>
         /\ Len(Todo(s, hop)) = Len(s)
         /\ \A k \in 1..Len(s) :
              /\ FrameAt(Todo(s, hop), k).node = FrameAt(s, k).node
              /\ FrameAt(Todo(s, hop), k).remaining = FrameAt(s, k).remaining
              /\ k # Len(s) => FrameAt(Todo(s, hop), k).todo = FrameAt(s, k).todo
         /\ FrameAt(Todo(s, hop), Len(s)).todo = FrameAt(s, Len(s)).todo \ {hop}
<1> DEFINE Frames == FramesOf(hops)
           top == [s[1] EXCEPT !.todo = @ \ {hop}]
           t   == << top >> \o Tail(s)
<1>1. s[1] \in Frames /\ Len(s) \in Nat /\ Len(s) >= 1
  <2> HIDE DEF Frames
  <2>1. s \in Seq(Frames)
    BY DEF Frames
  <2>2. QED
    BY <2>1
<1>2. /\ top \in Frames /\ top.node = s[1].node /\ top.remaining = s[1].remaining
      /\ top.todo = s[1].todo \ {hop}
  BY <1>1 DEF FramesOf
<1> HIDE DEF Frames, top
<1>3. s \in Seq(Frames)
  BY DEF Frames
<1>4. Tail(s) \in Seq(Frames) /\ Len(Tail(s)) = Len(s) - 1
  BY <1>3
<1>5. \A k \in 1..(Len(s) - 1) : Tail(s)[k] = s[k + 1]
  BY <1>3
<1>6. t \in Seq(Frames) /\ Len(t) = Len(s)
  BY <1>1, <1>2, <1>4
<1>7. t[1] = top
  BY <1>1, <1>2, <1>4
<1>8. \A k \in 2..Len(s) : t[k] = s[k]
  <2>1. SUFFICES ASSUME NEW k \in 2..Len(s) PROVE t[k] = s[k]
    OBVIOUS
  <2>2. t[k] = Tail(s)[k - 1]
    BY <1>1, <1>2, <1>4
  <2>3. k - 1 \in 1..(Len(s) - 1) /\ (k - 1) + 1 = k
    BY <1>1
  <2>4. QED
    BY <1>5, <2>2, <2>3
<1> HIDE DEF t
<1>9. ASSUME NEW k \in 1..Len(s)
      PROVE  IF k = Len(s) THEN FrameAt(t, k) = top /\ FrameAt(s, k) = s[1]
                           ELSE FrameAt(t, k) = FrameAt(s, k)
  <2>1. CASE k = Len(s)
    <3>1. Len(s) + 1 - k = 1 /\ Len(t) + 1 - k = 1
      BY <1>1, <1>6, <2>1
    <3>2. QED
      BY <1>7, <2>1, <3>1 DEF FrameAt
  <2>2. CASE k # Len(s)
    <3>1. Len(s) + 1 - k \in 2..Len(s)
      BY <1>1, <2>2
    <3>2. t[Len(s) + 1 - k] = s[Len(s) + 1 - k]
      BY <1>8, <3>1
    <3>3. QED
      BY <1>6, <2>2, <3>2 DEF FrameAt
  <2>3. QED
    BY <2>1, <2>2
<1>10. Todo(s, hop) = t
  BY DEF Todo, t, top
<1>11. t # << >>
  BY <1>1, <1>6
<1>12. QED
  BY <1>2, <1>6, <1>9, <1>10, <1>11 DEF Frames

LEMMA PushFrame ==
  ASSUME NEW hops, NEW s \in Seq(FramesOf(hops)), NEW f \in FramesOf(hops)
  PROVE  /\ << f >> \o s \in Seq(FramesOf(hops)) /\ << f >> \o s # << >>
         /\ Len(<< f >> \o s) = Len(s) + 1
         /\ \A k \in 1..Len(s) : FrameAt(<< f >> \o s, k) = FrameAt(s, k)
         /\ FrameAt(<< f >> \o s, Len(s) + 1) = f
<1> DEFINE Frames == FramesOf(hops)
           t == << f >> \o s
<1>1. s \in Seq(Frames) /\ f \in Frames
  OBVIOUS
<1> HIDE DEF Frames
<1>2. Len(s) \in Nat /\ t \in Seq(Frames) /\ Len(t) = Len(s) + 1
  BY <1>1
<1>3. t[1] = f /\ \A k \in 2..(Len(s) + 1) : t[k] = s[k - 1]
  BY <1>1
<1> HIDE DEF t
<1>4. ASSUME NEW k \in 1..Len(s) PROVE FrameAt(t, k) = FrameAt(s, k)
  <2>1. Len(t) + 1 - k \in 2..(Len(s) + 1)
    BY <1>2
  <2>2. Len(t) + 1 - k - 1 = Len(s) + 1 - k
    BY <1>2
  <2>3. QED
    BY <1>3, <2>1, <2>2 DEF FrameAt
<1>5. FrameAt(t, Len(s) + 1) = f
  <2>1. Len(t) + 1 - (Len(s) + 1) = 1
    BY <1>2
  <2>2. QED
    BY <1>3, <2>1 DEF FrameAt
<1>6. t # << >>
  BY <1>2
<1>7. QED
  BY <1>2, <1>4, <1>5, <1>6 DEF t, Frames

LEMMA PopFrame ==
  ASSUME NEW hops, NEW s \in Seq(FramesOf(hops)), Len(s) > 1
  PROVE  /\ Tail(s) \in Seq(FramesOf(hops)) /\ Tail(s) # << >>
         /\ Len(Tail(s)) = Len(s) - 1
         /\ \A k \in 1..(Len(s) - 1) : FrameAt(Tail(s), k) = FrameAt(s, k)
<1> DEFINE Frames == FramesOf(hops)
           t == Tail(s)
<1>1. s \in Seq(Frames)
  OBVIOUS
<1> HIDE DEF Frames
<1>2. Len(s) \in Nat /\ t \in Seq(Frames) /\ Len(t) = Len(s) - 1
  BY <1>1
<1>3. \A k \in 1..(Len(s) - 1) : t[k] = s[k + 1]
  BY <1>1
<1> HIDE DEF t
<1>4. ASSUME NEW k \in 1..(Len(s) - 1) PROVE FrameAt(t, k) = FrameAt(s, k)
  <2>1. Len(t) + 1 - k \in 1..(Len(s) - 1)
    BY <1>2
  <2>2. Len(t) + 1 - k + 1 = Len(s) + 1 - k
    BY <1>2
  <2>3. QED
    BY <1>3, <2>1, <2>2 DEF FrameAt
<1>5. t # << >>
  BY <1>2
<1>6. QED
  BY <1>2, <1>4, <1>5 DEF t, Frames

LEMMA TopFrame ==
  ASSUME NEW hops, NEW s \in Seq(FramesOf(hops)), s # << >>
  PROVE  /\ Head(s) = FrameAt(s, Len(s)) /\ Head(s) \in FramesOf(hops)
         /\ Len(s) \in Nat /\ Len(s) >= 1
<1> DEFINE Frames == FramesOf(hops)
<1>1. s \in Seq(Frames)
  OBVIOUS
<1> HIDE DEF Frames
<1>2. Len(s) \in Nat /\ Len(s) >= 1 /\ Head(s) = s[1] /\ s[1] \in Frames
  BY <1>1
<1>3. Len(s) + 1 - Len(s) = 1
  BY <1>2
<1>4. QED
  BY <1>2, <1>3 DEF FrameAt, Frames

(* Hops are taken in a definite order: among those left to explore there   *)
(* is a first one, which NextHop is.                                       *)
LEMMA NextHopIsTodo ==
  ASSUME migrations \in Seq(Migration), Frame.todo \subseteq Hops(migrations), Frame.todo # {}
  PROVE  NextHop \in Frame.todo
<1> DEFINE indices == { hop.migration : hop \in Frame.todo }
<1>1. \A hop \in Frame.todo :
        /\ hop \in [migration : DOMAIN migrations, reverse : BOOLEAN]
        /\ hop.migration \in Nat /\ hop.reverse \in BOOLEAN
  BY DEF Hops
<1>2. indices \in SUBSET Nat /\ indices # {}
  BY <1>1
<1>3. PICK i \in indices : \A j \in indices : i <= j
  <2> HIDE DEF indices
  <2>1. QED
    BY <1>2, LeastNatural
<1>4. ASSUME NEW g \in Frame.todo, NEW h \in Frame.todo, g # h, g.migration = h.migration
      PROVE  g.reverse # h.reverse
  <2>1. /\ g = [migration |-> g.migration, reverse |-> g.reverse]
        /\ h = [migration |-> h.migration, reverse |-> h.reverse]
    BY <1>1
  <2>2. QED
    BY <1>4, <2>1
<1>5. \E hop \in Frame.todo : \A other \in Frame.todo \ {hop} : Earlier(hop, other)
  <2>1. CASE \E hop \in Frame.todo : hop.migration = i /\ ~hop.reverse
    <3>1. PICK hop \in Frame.todo : hop.migration = i /\ ~hop.reverse
      BY <2>1
    <3>2. ASSUME NEW other \in Frame.todo \ {hop} PROVE Earlier(hop, other)
      <4>1. i <= other.migration /\ i \in Nat /\ other.migration \in Nat
        BY <1>1, <1>2, <1>3
      <4>2. QED
        BY <3>1, <4>1 DEF Earlier
    <3>3. QED
      BY <3>2
  <2>2. CASE \A hop \in Frame.todo : hop.migration = i => hop.reverse
    <3>1. PICK hop \in Frame.todo : hop.migration = i
      BY <1>3
    <3>2. ASSUME NEW other \in Frame.todo \ {hop} PROVE Earlier(hop, other)
      <4>1. i <= other.migration /\ i \in Nat /\ other.migration \in Nat
        BY <1>1, <1>2, <1>3
      <4>2. other.migration # i
        BY <1>1, <1>4, <2>2, <3>1
      <4>3. hop.migration < other.migration
        BY <3>1, <4>1, <4>2
      <4>4. QED
        BY <4>3 DEF Earlier
    <3>3. QED
      BY <3>2
  <2>3. QED
    BY <1>1, <2>1, <2>2
<1>6. QED
  BY <1>5 DEF NextHop

-----------------------------------------------------------------------------
(* The stack, the path and the visited set of a depth-first search. *)

(* A hop that may still be taken leaves the frame that holds it. *)
TodosLeaveNodes(migs, s) ==
  \A k \in 1..Len(s) : FrameAt(s, k).todo \subseteq EdgesFrom(migs, FrameAt(s, k).node)

(* The nodes of the stack are those visited, none twice. *)
VisitedIsStack(s, seen) ==
  /\ \A k \in 1..Len(s) : FrameAt(s, k).node \in seen
  /\ \A v \in seen : \E k \in 1..Len(s) : FrameAt(s, k).node = v
  /\ \A j, k \in 1..Len(s) : FrameAt(s, j).node = FrameAt(s, k).node => j = k
  /\ IsFiniteSet(seen) /\ Cardinality(seen) = Len(s)

(* The path leads from frame to frame. *)
PathIsStack(migs, s, p, from) ==
  /\ p \in Seq(Hops(migs)) /\ Len(p) = Len(s) - 1
  /\ FrameAt(s, 1).node = from
  /\ \A k \in 1..Len(p) :
       /\ HopFrom(migs, p[k]) = FrameAt(s, k).node
       /\ HopTo(migs, p[k]) = FrameAt(s, k + 1).node

SearchState(migs, s, p, seen, from) ==
  /\ s \in Seq(FramesOf(Hops(migs))) /\ s # << >>
  /\ TodosLeaveNodes(migs, s)
  /\ VisitedIsStack(s, seen)
  /\ PathIsStack(migs, s, p, from)

LEMMA SearchStarts ==
  ASSUME NEW migs, NEW from \in SchemaId, NEW remaining \in Nat,
         NEW f, f = [node |-> from, todo |-> EdgesFrom(migs, from), remaining |-> remaining]
  PROVE  SearchState(migs, << f >>, << >>, {from}, from)
<1>1. f \in FramesOf(Hops(migs))
  BY DEF FramesOf, EdgesFrom
<1>2. << f >> \in Seq(FramesOf(Hops(migs))) /\ Len(<< f >>) = 1 /\ << f >> # << >>
  BY <1>1
<1>3. FrameAt(<< f >>, 1) = f
  BY DEF FrameAt
<1>4. IsFiniteSet({from}) /\ Cardinality({from}) = 1
  BY FS_Singleton
<1>5. TodosLeaveNodes(migs, << f >>)
  BY <1>2, <1>3 DEF TodosLeaveNodes
<1>6. VisitedIsStack(<< f >>, {from})
  BY <1>2, <1>3, <1>4 DEF VisitedIsStack
<1>7. PathIsStack(migs, << f >>, << >>, from)
  BY <1>2, <1>3 DEF PathIsStack
<1>8. QED
  BY <1>2, <1>5, <1>6, <1>7 DEF SearchState

(* Passing an edge over, or recording a path, only shortens a todo. *)
LEMMA SearchPassesEdge ==
  ASSUME NEW migs, NEW s, NEW p, NEW seen, NEW from, SearchState(migs, s, p, seen, from), NEW hop
  PROVE  SearchState(migs, Todo(s, hop), p, seen, from)
<1> DEFINE t == Todo(s, hop)
<1>1. /\ t \in Seq(FramesOf(Hops(migs))) /\ t # << >> /\ Len(t) = Len(s)
      /\ \A k \in 1..Len(s) :
           /\ FrameAt(t, k).node = FrameAt(s, k).node
           /\ FrameAt(t, k).todo \subseteq FrameAt(s, k).todo
  <2>1. s \in Seq(FramesOf(Hops(migs))) /\ s # << >>
    BY DEF SearchState
  <2>2. /\ t \in Seq(FramesOf(Hops(migs))) /\ t # << >> /\ Len(t) = Len(s)
        /\ \A k \in 1..Len(s) :
             /\ FrameAt(t, k).node = FrameAt(s, k).node
             /\ k # Len(s) => FrameAt(t, k).todo = FrameAt(s, k).todo
        /\ FrameAt(t, Len(s)).todo = FrameAt(s, Len(s)).todo \ {hop}
    BY <2>1, TodoFrames
  <2> HIDE DEF t
  <2>3. QED
    BY <2>2
<1>2. Len(s) \in Nat /\ Len(s) >= 1 /\ 1 \in 1..Len(s)
  BY TopFrame DEF SearchState
<1> HIDE DEF t
<1>3. TodosLeaveNodes(migs, t)
  BY <1>1 DEF SearchState, TodosLeaveNodes
<1>4. VisitedIsStack(t, seen)
  BY <1>1 DEF SearchState, VisitedIsStack
<1>5. PathIsStack(migs, t, p, from)
  <2>1. p \in Seq(Hops(migs)) /\ Len(p) = Len(t) - 1 /\ FrameAt(t, 1).node = from
    BY <1>1, <1>2 DEF SearchState, PathIsStack
  <2>2. ASSUME NEW k \in 1..Len(p)
        PROVE  HopFrom(migs, p[k]) = FrameAt(t, k).node /\ HopTo(migs, p[k]) = FrameAt(t, k + 1).node
    <3>1. k \in 1..Len(s) /\ k + 1 \in 1..Len(s)
      BY <1>1, <1>2, <2>1
    <3>2. QED
      BY <1>1, <3>1 DEF SearchState, PathIsStack
  <2>3. QED
    BY <2>1, <2>2 DEF PathIsStack
<1>6. QED
  BY <1>1, <1>3, <1>4, <1>5 DEF SearchState, t

LEMMA SearchGoesDown ==
  ASSUME NEW migs, migs \in Seq(Migration), NEW s, NEW p, NEW seen, NEW from,
         SearchState(migs, s, p, seen, from),
         NEW hop \in Hops(migs), HopFrom(migs, hop) = FrameAt(s, Len(s)).node,
         HopTo(migs, hop) \notin seen,
         NEW f \in FramesOf(Hops(migs)), f.node = HopTo(migs, hop),
         f.todo = EdgesFrom(migs, HopTo(migs, hop))
  PROVE  SearchState(migs, << f >> \o s, Append(p, hop), seen \cup {HopTo(migs, hop)}, from)
<1> DEFINE t == << f >> \o s
           q == Append(p, hop)
           more == seen \cup {HopTo(migs, hop)}
<1>1. /\ t \in Seq(FramesOf(Hops(migs))) /\ t # << >> /\ Len(t) = Len(s) + 1
      /\ \A k \in 1..Len(s) : FrameAt(t, k) = FrameAt(s, k)
      /\ FrameAt(t, Len(s) + 1) = f
  BY PushFrame DEF SearchState
<1>2. Len(s) \in Nat /\ Len(s) >= 1
  BY TopFrame DEF SearchState
<1>3. p \in Seq(Hops(migs)) /\ Len(p) = Len(s) - 1
  BY DEF SearchState, PathIsStack
<1>4. /\ q \in Seq(Hops(migs)) /\ Len(q) = Len(s) /\ q[Len(s)] = hop
      /\ \A k \in 1..Len(p) : q[k] = p[k]
  BY <1>2, <1>3
<1> HIDE DEF t, q
<1>5. \A k \in 1..Len(t) : k \in 1..Len(s) \/ k = Len(s) + 1
  BY <1>1, <1>2
<1>6. TodosLeaveNodes(migs, t)
  BY <1>1, <1>5 DEF SearchState, TodosLeaveNodes
<1>7. VisitedIsStack(t, more)
  <2>1. \A k \in 1..Len(t) : FrameAt(t, k).node \in more
    BY <1>1, <1>5 DEF SearchState, VisitedIsStack
  <2>2. ASSUME NEW v \in more PROVE \E k \in 1..Len(t) : FrameAt(t, k).node = v
    <3>1. CASE v \in seen
      <4>1. PICK k \in 1..Len(s) : FrameAt(s, k).node = v
        BY <3>1 DEF SearchState, VisitedIsStack
      <4>2. k \in 1..Len(t)
        BY <1>1, <1>2
      <4>3. QED
        BY <1>1, <4>1, <4>2
    <3>2. CASE v = HopTo(migs, hop)
      <4>1. Len(s) + 1 \in 1..Len(t)
        BY <1>1, <1>2
      <4>2. QED
        BY <1>1, <3>2, <4>1
    <3>3. QED
      BY <3>1, <3>2
  <2>3. ASSUME NEW j \in 1..Len(t), NEW k \in 1..Len(t), FrameAt(t, j).node = FrameAt(t, k).node
        PROVE  j = k
    <3>1. \A i \in 1..Len(s) : FrameAt(t, i).node \in seen
      BY <1>1 DEF SearchState, VisitedIsStack
    <3>2. CASE j \in 1..Len(s) /\ k \in 1..Len(s)
      BY <1>1, <2>3, <3>2 DEF SearchState, VisitedIsStack
    <3>3. QED
      BY <1>1, <1>5, <2>3, <3>1, <3>2
  <2>4. IsFiniteSet(more) /\ Cardinality(more) = Cardinality(seen) + 1
    BY FS_AddElement DEF SearchState, VisitedIsStack
  <2>5. Cardinality(more) = Len(t)
    BY <1>1, <2>4 DEF SearchState, VisitedIsStack
  <2>6. QED
    BY <2>1, <2>2, <2>3, <2>4, <2>5 DEF VisitedIsStack
<1>8. PathIsStack(migs, t, q, from)
  <2>1. Len(q) = Len(t) - 1
    BY <1>1, <1>2, <1>4
  <2>2. FrameAt(t, 1).node = from
    <3>1. 1 \in 1..Len(s)
      BY <1>2
    <3>2. QED
      BY <1>1, <3>1 DEF SearchState, PathIsStack
  <2>3. ASSUME NEW k \in 1..Len(q)
        PROVE  HopFrom(migs, q[k]) = FrameAt(t, k).node /\ HopTo(migs, q[k]) = FrameAt(t, k + 1).node
    <3>1. CASE k = Len(s)
      <4>1. k \in 1..Len(s)
        BY <1>4
      <4>2. QED
        BY <1>1, <1>4, <3>1, <4>1
    <3>2. CASE k # Len(s)
      <4>1. k \in 1..Len(p)
        BY <1>2, <1>3, <1>4, <3>2
      <4>2. k \in 1..Len(s)
        BY <1>4
      <4>3. k + 1 \in 1..Len(s)
        BY <1>2, <1>3, <4>1
      <4>4. QED
        BY <1>1, <1>4, <4>1, <4>2, <4>3 DEF SearchState, PathIsStack
    <3>3. QED
      BY <3>1, <3>2
  <2>4. QED
    BY <1>4, <2>1, <2>2, <2>3 DEF PathIsStack
<1>9. QED
  BY <1>1, <1>6, <1>7, <1>8 DEF SearchState, t, q

LEMMA SearchGoesUp ==
  ASSUME NEW migs, NEW s, NEW p, NEW seen, NEW from, SearchState(migs, s, p, seen, from),
         Len(s) > 1
  PROVE  SearchState(migs, Tail(s), SubSeq(p, 1, Len(p) - 1),
                     seen \ {FrameAt(s, Len(s)).node}, from)
<1> DEFINE t == Tail(s)
           q == SubSeq(p, 1, Len(p) - 1)
           last == FrameAt(s, Len(s)).node
           fewer == seen \ {last}
<1>1. /\ t \in Seq(FramesOf(Hops(migs))) /\ t # << >> /\ Len(t) = Len(s) - 1
      /\ \A k \in 1..(Len(s) - 1) : FrameAt(t, k) = FrameAt(s, k)
  BY PopFrame DEF SearchState
<1>2. Len(s) \in Nat /\ Len(s) >= 2 /\ Len(s) \in 1..Len(s)
  BY TopFrame DEF SearchState
<1>3. p \in Seq(Hops(migs)) /\ Len(p) = Len(s) - 1
  BY DEF SearchState, PathIsStack
<1>4. /\ q \in Seq(Hops(migs)) /\ Len(q) = Len(p) - 1
      /\ \A k \in 1..Len(q) : q[k] = p[k]
  <2> DEFINE n == Len(p) - 1
  <2>1. n \in Nat /\ Len(p) = n + 1
    BY <1>2, <1>3
  <2> HIDE DEF n
  <2>2. \A k \in 1..n : p[k] \in Hops(migs)
    BY <1>3, <2>1
  <2>3. /\ SubSeq(p, 1, n) \in Seq(Hops(migs)) /\ Len(SubSeq(p, 1, n)) = n
        /\ \A k \in 1..n : SubSeq(p, 1, n)[k] = p[k]
    BY <2>1, <2>2, SubSeqProperties
  <2>4. QED
    BY <2>3 DEF n
<1> HIDE DEF t, q
<1>5. \A k \in 1..Len(t) : k \in 1..Len(s) /\ k \in 1..(Len(s) - 1) /\ k # Len(s)
  BY <1>1, <1>2
<1>6. TodosLeaveNodes(migs, t)
  BY <1>1, <1>5 DEF SearchState, TodosLeaveNodes
<1>7. VisitedIsStack(t, fewer)
  <2>1. \A k \in 1..Len(t) : FrameAt(t, k).node \in fewer
    BY <1>1, <1>2, <1>5 DEF SearchState, VisitedIsStack
  <2>2. ASSUME NEW v \in fewer PROVE \E k \in 1..Len(t) : FrameAt(t, k).node = v
    <3>1. PICK k \in 1..Len(s) : FrameAt(s, k).node = v
      BY DEF SearchState, VisitedIsStack
    <3>2. k # Len(s)
      BY <3>1
    <3>3. k \in 1..Len(t) /\ k \in 1..(Len(s) - 1)
      BY <1>1, <1>2, <3>2
    <3>4. QED
      BY <1>1, <3>1, <3>3
  <2>3. \A j, k \in 1..Len(t) : FrameAt(t, j).node = FrameAt(t, k).node => j = k
    BY <1>1, <1>5 DEF SearchState, VisitedIsStack
  <2>4. last \in seen /\ IsFiniteSet(seen) /\ Cardinality(seen) = Len(s)
    BY <1>2 DEF SearchState, VisitedIsStack
  <2>5. IsFiniteSet(fewer) /\ Cardinality(fewer) = Cardinality(seen) - 1
    BY <2>4, FS_RemoveElement
  <2>6. QED
    BY <1>1, <2>1, <2>2, <2>3, <2>4, <2>5 DEF VisitedIsStack
<1>8. PathIsStack(migs, t, q, from)
  <2>1. Len(q) = Len(t) - 1
    BY <1>1, <1>2, <1>3, <1>4
  <2>2. FrameAt(t, 1).node = from
    <3>1. 1 \in 1..(Len(s) - 1)
      BY <1>2
    <3>2. QED
      BY <1>1, <3>1 DEF SearchState, PathIsStack
  <2>3. ASSUME NEW k \in 1..Len(q)
        PROVE  HopFrom(migs, q[k]) = FrameAt(t, k).node /\ HopTo(migs, q[k]) = FrameAt(t, k + 1).node
    <3>1. k \in 1..Len(p)
      BY <1>2, <1>3, <1>4
    <3>2. k \in 1..(Len(s) - 1)
      BY <1>3, <3>1
    <3>3. k + 1 \in 1..(Len(s) - 1)
      BY <1>2, <1>3, <1>4
    <3>4. QED
      BY <1>1, <1>4, <3>1, <3>2, <3>3 DEF SearchState, PathIsStack
  <2>4. QED
    BY <1>4, <2>1, <2>2, <2>3 DEF PathIsStack
<1>9. QED
  BY <1>1, <1>6, <1>7, <1>8 DEF SearchState, t, q

-----------------------------------------------------------------------------
(* The inductive invariant. *)

(* Which parts of the search state are in use, and for what question. *)
SearchShape ==
  /\ pc # "bfs" => frontier = {} /\ nextFrontier = {}
  /\ pc = "bfs" => stack = << >> /\ path = << >> /\ results = {}
  /\ pc \in {"bfs", "dfs_bounded", "choose"} => query.op = "plan" /\ query.from # query.to
  /\ pc = "trivial" => query.op = "plan" /\ query.from = query.to
  /\ pc = "dfs_all" => query.op = "available_paths"

(* Each level of the breadth-first search has found a new node. *)
BfsCount ==
  pc = "bfs" =>
    /\ depth + 1 <= Cardinality(visited)
    /\ nextFrontier # {} => depth + 2 <= Cardinality(visited)

StackInv == Searching => SearchState(migrations, stack, path, visited, query.from)

PlannerInv == PlannerTypeOK /\ SearchShape /\ BfsCount /\ StackInv

LEMMA FramesTyped == FrameType = FramesOf(Hops(migrations))
BY DEF FrameType, FramesOf

LEMMA QueryTyped ==
  ASSUME PlannerTypeOK, pc # "idle"
  PROVE  query.from \in SchemaId /\ query.to \in SchemaId
BY DEF PlannerTypeOK, Promise!Query, NoQuery, Promise!NoQuery, Promise!SchemaId, SchemaId

(* The visited nodes can be counted. *)
LEMMA NodeCount ==
  ASSUME NEW S, S \subseteq SchemaId
  PROVE  IsFiniteSet(S) /\ Cardinality(S) \in Nat /\ Cardinality(S) <= Cardinality(SchemaId)
BY NodesAreFinite, FS_Subset, FS_CardinalityType

LEMMA NodeCountGrows ==
  ASSUME NEW S, NEW T, S \subseteq T, T \subseteq SchemaId
  PROVE  /\ Cardinality(S) \in Nat /\ Cardinality(T) \in Nat
         /\ Cardinality(S) <= Cardinality(T)
         /\ S # T => Cardinality(S) + 1 <= Cardinality(T)
<1>1. IsFiniteSet(T) /\ Cardinality(T) \in Nat /\ Cardinality(S) \in Nat
  BY NodeCount
<1>2. Cardinality(S) <= Cardinality(T) /\ (Cardinality(S) = Cardinality(T) => S = T)
  BY <1>1, FS_Subset
<1>3. QED
  BY <1>1, <1>2

LEMMA SuccessorsAreNodes ==
  ASSUME migrations \in Seq(Migration), NEW node
  PROVE  Successors(node) \subseteq SchemaId
BY HopNodes DEF Successors, EdgesFrom

(* The top of the stack while a search runs. *)
LEMMA TopOfSearch ==
  ASSUME PlannerInv, Searching
  PROVE  /\ SearchState(migrations, stack, path, visited, query.from)
         /\ stack \in Seq(FramesOf(Hops(migrations))) /\ stack # << >>
         /\ Frame = FrameAt(stack, Len(stack)) /\ Frame \in FramesOf(Hops(migrations))
         /\ Len(stack) \in Nat /\ Len(stack) >= 1
         /\ Frame.todo \subseteq EdgesFrom(migrations, Frame.node)
         /\ Frame.todo \subseteq Hops(migrations)
         /\ Frame.node \in visited
<1>1. SearchState(migrations, stack, path, visited, query.from)
  BY DEF PlannerInv, StackInv
<1>2. stack \in Seq(FramesOf(Hops(migrations))) /\ stack # << >>
  BY <1>1 DEF SearchState
<1>3. /\ Frame = FrameAt(stack, Len(stack)) /\ Frame \in FramesOf(Hops(migrations))
      /\ Len(stack) \in Nat /\ Len(stack) >= 1
  BY <1>2, TopFrame DEF Frame
<1>4. Len(stack) \in 1..Len(stack)
  BY <1>3
<1>5. Frame.todo \subseteq EdgesFrom(migrations, Frame.node)
  BY <1>1, <1>3, <1>4 DEF SearchState, TodosLeaveNodes
<1>6. Frame.node \in visited
  BY <1>1, <1>3, <1>4 DEF SearchState, VisitedIsStack
<1>7. QED
  BY <1>1, <1>2, <1>3, <1>5, <1>6 DEF EdgesFrom

LEMMA NextHopOfSearch ==
  ASSUME migrations \in Seq(Migration), PlannerInv, Searching, Frame.todo # {}
  PROVE  /\ NextHop \in Frame.todo /\ NextHop \in Hops(migrations)
         /\ HopFrom(migrations, NextHop) = Frame.node
         /\ HopTo(migrations, NextHop) \in SchemaId
<1>1. NextHop \in Frame.todo
  BY TopOfSearch, NextHopIsTodo
<1>2. NextHop \in Hops(migrations) /\ HopFrom(migrations, NextHop) = Frame.node
  BY <1>1, TopOfSearch DEF EdgesFrom
<1>3. QED
  BY <1>1, <1>2, HopNodes

-----------------------------------------------------------------------------
(* Each action keeps PlannerInv. *)

LEMMA InitPlanner == PlannerInit => PlannerInv
<1> SUFFICES ASSUME PlannerInit PROVE PlannerInv
  OBVIOUS
<1> USE DEF PlannerInit, Quiet
<1>1. Cardinality(SchemaId) \in Nat
  BY NodesAreFinite
<1>2. PlannerTypeOK
  BY <1>1 DEF PlannerTypeOK
<1>3. SearchShape /\ BfsCount /\ StackInv
  BY DEF SearchShape, BfsCount, StackInv, Searching
<1>4. QED
  BY <1>2, <1>3 DEF PlannerInv

(* Nothing of a search is held: the registry may change under it. *)
LEMMA RegisterKeepsPlanner ==
  ASSUME PlannerInv, RegisterWhenIdle
  PROVE  PlannerInv'
<1>1. pc = "idle" /\ Quiet /\ UNCHANGED << query, answer, pc, searchVars >>
  BY DEF RegisterWhenIdle, PlannerInv, PlannerTypeOK
<1>2. /\ pc' = "idle" /\ UNCHANGED << query, answer >>
      /\ visited' = {} /\ frontier' = {} /\ nextFrontier' = {} /\ depth' = 0
      /\ stack' = << >> /\ path' = << >> /\ results' = {}
  BY <1>1 DEF Quiet, searchVars, bfsVars, dfsVars
<1>3. Cardinality(SchemaId) \in Nat
  BY NodesAreFinite
<1>4. PlannerTypeOK'
  BY <1>1, <1>2, <1>3 DEF PlannerInv, PlannerTypeOK, Quiet
<1>5. SearchShape' /\ BfsCount' /\ StackInv'
  BY <1>2 DEF SearchShape, BfsCount, StackInv, Searching
<1>6. QED
  BY <1>4, <1>5 DEF PlannerInv

(* An answer clears the search. *)
LEMMA AnswerKeepsPlanner ==
  ASSUME PlannerInv, pc # "idle", NEW a, a # NoAnswer, Answer(a)
  PROVE  PlannerInv'
<1>1. /\ pc' = "answered" /\ query' = query /\ answer' # NoAnswer
      /\ visited' = {} /\ frontier' = {} /\ nextFrontier' = {} /\ depth' = 0
      /\ stack' = << >> /\ path' = << >> /\ results' = {}
  BY DEF Answer
<1>2. Cardinality(SchemaId) \in Nat
  BY NodesAreFinite
<1>3. PlannerTypeOK'
  BY <1>1, <1>2 DEF PlannerInv, PlannerTypeOK, Quiet
<1>4. SearchShape' /\ BfsCount' /\ StackInv'
  BY <1>1 DEF SearchShape, BfsCount, StackInv, Searching
<1>5. QED
  BY <1>3, <1>4 DEF PlannerInv

LEMMA AnswersKeepPlanner ==
  ASSUME PlannerInv, PlanNothing \/ BfsFails \/ DfsAllReturns \/ PlanChooses
  PROVE  PlannerInv'
<1>1. \E a : a # NoAnswer /\ Answer(a)
  BY DEF PlanNothing, BfsFails, DfsAllReturns, PlanChooses, NoAnswer, Promise!NoAnswer
<1>2. pc # "idle"
  BY DEF PlanNothing, BfsFails, DfsAllReturns, PlanChooses
<1>3. QED
  BY <1>1, <1>2, AnswerKeepsPlanner

LEMMA ReleaseKeepsPlanner ==
  ASSUME PlannerInv, Release
  PROVE  PlannerInv'
<1>1. pc = "answered" /\ Quiet
  BY DEF Release, PlannerInv, PlannerTypeOK
<1>2. /\ pc' = "idle" /\ query' = NoQuery /\ answer' = NoAnswer
      /\ visited' = {} /\ frontier' = {} /\ nextFrontier' = {} /\ depth' = 0
      /\ stack' = << >> /\ path' = << >> /\ results' = {}
  BY <1>1 DEF Release, Quiet, searchVars, bfsVars, dfsVars
<1>3. Cardinality(SchemaId) \in Nat
  BY NodesAreFinite
<1>4. PlannerTypeOK'
  BY <1>2, <1>3 DEF PlannerInv, PlannerTypeOK, Quiet
<1>5. SearchShape' /\ BfsCount' /\ StackInv'
  BY <1>2 DEF SearchShape, BfsCount, StackInv, Searching
<1>6. QED
  BY <1>4, <1>5 DEF PlannerInv

LEMMA AskPathsKeepsPlanner ==
  ASSUME PlannerInv, NEW from \in SchemaId, NEW to \in SchemaId, AskAvailablePaths(from, to)
  PROVE  PlannerInv'
<1> DEFINE f == [node |-> from, todo |-> EdgesFrom(migrations, from), remaining |-> 0]
<1>1. /\ pc = "idle" /\ Quiet /\ answer = NoAnswer
  BY DEF AskAvailablePaths, PlannerInv, PlannerTypeOK
<1>2. /\ pc' = "dfs_all" /\ answer' = answer /\ migrations' = migrations
      /\ query' = [op |-> "available_paths", from |-> from, to |-> to]
      /\ results' = IF from = to THEN {<< >>} ELSE {}
      /\ visited' = {from} /\ frontier' = {} /\ nextFrontier' = {} /\ depth' = 0
      /\ stack' = << f >> /\ path' = << >>
  BY <1>1 DEF AskAvailablePaths, Quiet, graphVars, bfsVars
<1>3. SearchState(migrations, << f >>, << >>, {from}, from)
  BY SearchStarts
<1>4. << f >> \in Seq(FramesOf(Hops(migrations)))
  BY <1>3 DEF SearchState
<1> HIDE DEF f
<1>5. Cardinality(SchemaId) \in Nat
  BY NodesAreFinite
<1>6. PlannerTypeOK'
  <2>1. query' \in Promise!Query /\ query' # NoQuery
    BY <1>2 DEF Promise!Query, NoQuery, Promise!NoQuery, Promise!SchemaId, SchemaId
  <2>2. stack' \in Seq(FrameType')
    BY <1>2, <1>4 DEF FrameType, FramesOf
  <2>3. path' \in Seq(Hops(migrations')) /\ results' \subseteq Seq(Hops(migrations'))
    <3>1. << >> \in Seq(Hops(migrations'))
      OBVIOUS
    <3>2. path' = << >> /\ \A p \in results' : p = << >>
      BY <1>2
    <3>3. QED
      BY <3>1, <3>2
  <2>4. QED
    BY <1>1, <1>2, <1>5, <2>1, <2>2, <2>3 DEF PlannerTypeOK
<1>7. SearchShape' /\ BfsCount'
  BY <1>2 DEF SearchShape, BfsCount
<1>8. StackInv'
  BY <1>2, <1>3 DEF StackInv
<1>9. QED
  BY <1>6, <1>7, <1>8 DEF PlannerInv

LEMMA AskPlanKeepsPlanner ==
  ASSUME PlannerInv, NEW from \in SchemaId, NEW to \in SchemaId, AskPlan(from, to)
  PROVE  PlannerInv'
<1>1. pc = "idle" /\ Quiet /\ answer = NoAnswer
  BY DEF AskPlan, PlannerInv, PlannerTypeOK
<1>2. /\ answer' = answer /\ migrations' = migrations
      /\ query' = [op |-> "plan", from |-> from, to |-> to]
      /\ nextFrontier' = {} /\ depth' = 0
      /\ stack' = << >> /\ path' = << >> /\ results' = {}
      /\ \/ from = to /\ pc' = "trivial" /\ visited' = {} /\ frontier' = {}
         \/ from # to /\ pc' = "bfs" /\ visited' = {from} /\ frontier' = {from}
  BY <1>1 DEF AskPlan, Quiet, graphVars, searchVars, bfsVars, dfsVars
<1>3. Cardinality(SchemaId) \in Nat
  BY NodesAreFinite
<1>4. PlannerTypeOK'
  <2>1. query' \in Promise!Query /\ query' # NoQuery
    BY <1>2 DEF Promise!Query, NoQuery, Promise!NoQuery, Promise!SchemaId, SchemaId
  <2>2. QED
    BY <1>1, <1>2, <1>3, <2>1 DEF PlannerTypeOK, Quiet
<1>5. SearchShape'
  BY <1>2 DEF SearchShape
<1>6. BfsCount'
  <2>1. Cardinality({from}) = 1
    BY FS_Singleton
  <2>2. pc' = "bfs" => visited' = {from}
    BY <1>2
  <2>3. pc' = "bfs" => Cardinality(visited') = 1
    BY <2>1, <2>2, Zenon
  <2>4. QED
    BY <1>2, <2>3 DEF BfsCount
<1>7. StackInv'
  BY <1>2 DEF StackInv, Searching
<1>8. QED
  BY <1>4, <1>5, <1>6, <1>7 DEF PlannerInv

(* What a breadth-first search may rely on. *)
LEMMA RunningBfs ==
  ASSUME PlannerInv, pc = "bfs"
  PROVE  /\ frontier \subseteq visited /\ nextFrontier \subseteq visited
         /\ visited \subseteq SchemaId /\ depth \in Nat
         /\ stack = << >> /\ path = << >> /\ results = {}
         /\ query \in Promise!Query /\ query # NoQuery /\ answer = NoAnswer
         /\ query.from \in SchemaId /\ query.op = "plan" /\ query.from # query.to
         /\ Cardinality(visited) \in Nat /\ Cardinality(visited) <= Cardinality(SchemaId)
         /\ Cardinality(SchemaId) \in Nat
<1>1. Cardinality(SchemaId) \in Nat
  BY NodesAreFinite
<1>2. visited \subseteq SchemaId
  BY DEF PlannerInv, PlannerTypeOK
<1>3. depth \in Nat
  BY <1>1 DEF PlannerInv, PlannerTypeOK
<1>4. query.from \in SchemaId
  BY QueryTyped DEF PlannerInv
<1>5. Cardinality(visited) \in Nat /\ Cardinality(visited) <= Cardinality(SchemaId)
  BY <1>2, NodeCount
<1>6. QED
  BY <1>1, <1>2, <1>3, <1>4, <1>5 DEF PlannerInv, PlannerTypeOK, SearchShape

LEMMA BfsExpandsKeepsPlanner ==
  ASSUME migrations \in Seq(Migration), PlannerInv, NEW node \in SchemaId, BfsExpands(node)
  PROVE  PlannerInv'
<1>1. /\ pc = "bfs" /\ pc' = "bfs" /\ node \in frontier
      /\ UNCHANGED << migrations, query, answer, depth, stack, path, results >>
      /\ frontier' = frontier \ {node}
      /\ nextFrontier' = nextFrontier \cup (Successors(node) \ visited)
      /\ visited' = visited \cup Successors(node)
  BY DEF BfsExpands, LevelAfter, NextLevelAfter, SeenAfter, graphVars, dfsVars
<1>2. Successors(node) \subseteq SchemaId
  BY SuccessorsAreNodes
<1>3. /\ visited' \subseteq SchemaId /\ visited \subseteq visited'
      /\ frontier' \subseteq visited' /\ nextFrontier' \subseteq visited'
  BY <1>1, <1>2, RunningBfs
<1>4. PlannerTypeOK'
  BY <1>1, <1>3, RunningBfs DEF PlannerInv, PlannerTypeOK, FrameType
<1>5. SearchShape'
  BY <1>1 DEF PlannerInv, SearchShape
<1>6. BfsCount'
  <2>1. /\ Cardinality(visited) \in Nat /\ Cardinality(visited') \in Nat
        /\ Cardinality(visited) <= Cardinality(visited')
        /\ visited # visited' => Cardinality(visited) + 1 <= Cardinality(visited')
    BY <1>3, NodeCountGrows
  <2>2. depth \in Nat /\ depth' = depth /\ depth + 1 <= Cardinality(visited)
    BY <1>1, RunningBfs DEF PlannerInv, BfsCount
  <2>3. nextFrontier # {} => depth + 2 <= Cardinality(visited)
    BY <1>1 DEF PlannerInv, BfsCount
  <2>4. nextFrontier = {} /\ nextFrontier' # {} => visited # visited'
    BY <1>1
  <2>5. QED
    BY <2>1, <2>2, <2>3, <2>4 DEF BfsCount
<1>7. StackInv'
  BY <1>1 DEF StackInv, Searching
<1>8. QED
  BY <1>4, <1>5, <1>6, <1>7 DEF PlannerInv

LEMMA BfsNextLevelKeepsPlanner ==
  ASSUME PlannerInv, BfsNextLevel
  PROVE  PlannerInv'
<1>1. /\ pc = "bfs" /\ pc' = "bfs" /\ nextFrontier # {}
      /\ UNCHANGED << migrations, query, answer, visited, stack, path, results >>
      /\ frontier' = nextFrontier /\ nextFrontier' = {} /\ depth' = depth + 1
  BY DEF BfsNextLevel, graphVars, dfsVars
<1>2. depth + 2 <= Cardinality(visited)
  BY <1>1 DEF PlannerInv, BfsCount
<1>3. depth' \in 0..Cardinality(SchemaId)
  BY <1>1, <1>2, RunningBfs
<1>4. PlannerTypeOK'
  BY <1>1, <1>3, RunningBfs DEF PlannerInv, PlannerTypeOK, FrameType
<1>5. SearchShape'
  BY <1>1 DEF PlannerInv, SearchShape
<1>6. BfsCount'
  BY <1>1, <1>2, RunningBfs DEF BfsCount
<1>7. StackInv'
  BY <1>1 DEF StackInv, Searching
<1>8. QED
  BY <1>4, <1>5, <1>6, <1>7 DEF PlannerInv

LEMMA BfsFindsKeepsPlanner ==
  ASSUME PlannerInv, NEW node \in SchemaId, BfsFinds(node)
  PROVE  PlannerInv'
<1> DEFINE f == [ node |-> query.from, todo |-> EdgesFrom(migrations, query.from),
                  remaining |-> depth + 1 ]
<1>1. /\ pc = "bfs" /\ pc' = "dfs_bounded"
      /\ UNCHANGED << migrations, query, answer, path, results >>
      /\ frontier' = {} /\ nextFrontier' = {} /\ visited' = {query.from} /\ depth' = depth + 1
      /\ stack' = << f >>
  BY DEF BfsFinds, LengthThrough, graphVars
<1>2. depth + 1 <= Cardinality(visited)
  BY <1>1 DEF PlannerInv, BfsCount
<1>3. depth' \in 0..Cardinality(SchemaId) /\ depth + 1 \in Nat
  BY <1>1, <1>2, RunningBfs
<1>4. SearchState(migrations, << f >>, << >>, {query.from}, query.from)
  BY <1>1, <1>3, RunningBfs, SearchStarts
<1>5. << f >> \in Seq(FramesOf(Hops(migrations)))
  BY <1>4 DEF SearchState
<1> HIDE DEF f
<1>6. stack' \in Seq(FrameType')
  BY <1>1, <1>5 DEF FrameType, FramesOf
<1>7. PlannerTypeOK'
  BY <1>1, <1>3, <1>6, RunningBfs DEF PlannerInv, PlannerTypeOK
<1>8. SearchShape'
  BY <1>1, RunningBfs DEF SearchShape
<1>9. BfsCount'
  BY <1>1 DEF BfsCount
<1>10. StackInv'
  BY <1>1, <1>4, RunningBfs DEF StackInv
<1>11. QED
  BY <1>7, <1>8, <1>9, <1>10 DEF PlannerInv

(* Steps that take one edge off the innermost todo. *)
LEMMA PassingKeepsPlanner ==
  ASSUME migrations \in Seq(Migration), PlannerInv,
         DfsSkips \/ DfsReaches \/ DfsPrunes
  PROVE  PlannerInv'
<1>1. /\ Searching /\ Frame.todo # {} /\ stack' = Todo(stack, NextHop)
      /\ UNCHANGED << migrations, query, answer, pc, visited, frontier, nextFrontier, depth, path >>
  BY DEF DfsSkips, DfsReaches, DfsPrunes, Searching, graphVars, bfsVars
<1>2. SearchState(migrations, Todo(stack, NextHop), path, visited, query.from)
  BY <1>1, TopOfSearch, SearchPassesEdge
<1>3. stack' \in Seq(FrameType')
  BY <1>1, <1>2 DEF SearchState, FrameType, FramesOf
<1>4. results' \subseteq Seq(Hops(migrations))
  <2>1. results \subseteq Seq(Hops(migrations)) /\ path \in Seq(Hops(migrations))
    BY DEF PlannerInv, PlannerTypeOK
  <2>2. NextHop \in Hops(migrations)
    BY <1>1, NextHopOfSearch
  <2>3. Append(path, NextHop) \in Seq(Hops(migrations))
    BY <2>1, <2>2
  <2>4. results' \subseteq results \cup {Append(path, NextHop)}
    BY DEF DfsSkips, DfsReaches, DfsPrunes
  <2>5. QED
    BY <2>1, <2>3, <2>4
<1>5. PlannerTypeOK'
  BY <1>1, <1>3, <1>4 DEF PlannerInv, PlannerTypeOK, Searching
<1>6. SearchShape'
  BY <1>1 DEF PlannerInv, SearchShape, Searching
<1>7. BfsCount'
  BY <1>1 DEF BfsCount, Searching
<1>8. StackInv'
  BY <1>1, <1>2 DEF StackInv, Searching
<1>9. QED
  BY <1>5, <1>6, <1>7, <1>8 DEF PlannerInv

LEMMA DescendingKeepsPlanner ==
  ASSUME migrations \in Seq(Migration), PlannerInv, DfsDescends
  PROVE  PlannerInv'
<1> DEFINE next == HopTo(migrations, NextHop)
           f == [node |-> next, todo |-> EdgesFrom(migrations, next), remaining |-> RemainingBelow]
           rest == Todo(stack, NextHop)
<1>1. /\ Searching /\ Frame.todo # {} /\ next \notin visited
      /\ pc = "dfs_all" \/ Frame.remaining > 1
      /\ visited' = visited \cup {next} /\ path' = Append(path, NextHop)
      /\ stack' = << f >> \o rest
      /\ UNCHANGED << migrations, query, answer, pc, frontier, nextFrontier, depth, results >>
  BY DEF DfsDescends, graphVars, bfsVars
<1>2. /\ NextHop \in Hops(migrations) /\ HopFrom(migrations, NextHop) = Frame.node
      /\ next \in SchemaId
  BY <1>1, NextHopOfSearch
<1>3. f \in FramesOf(Hops(migrations))
  <2>1. Frame.remaining \in Nat
    BY <1>1, TopOfSearch DEF FramesOf
  <2>2. RemainingBelow \in Nat
    BY <1>1, <2>1 DEF RemainingBelow
  <2>3. QED
    BY <1>2, <2>2 DEF FramesOf, EdgesFrom
<1>4. SearchState(migrations, rest, path, visited, query.from)
  BY <1>1, TopOfSearch, SearchPassesEdge
<1>5. FrameAt(rest, Len(rest)).node = Frame.node
  <2>1. /\ stack \in Seq(FramesOf(Hops(migrations))) /\ stack # << >>
        /\ Len(stack) \in 1..Len(stack) /\ Frame = FrameAt(stack, Len(stack))
    BY <1>1, TopOfSearch
  <2>2. /\ Len(rest) = Len(stack)
        /\ \A k \in 1..Len(stack) : FrameAt(rest, k).node = FrameAt(stack, k).node
    BY <2>1, TodoFrames
  <2>3. QED
    BY <2>1, <2>2
<1>6. f.node = next /\ f.todo = EdgesFrom(migrations, next)
  OBVIOUS
<1> HIDE DEF f, rest
<1>7. SearchState(migrations, << f >> \o rest, Append(path, NextHop), visited \cup {next}, query.from)
  BY <1>1, <1>2, <1>3, <1>4, <1>5, <1>6, SearchGoesDown
<1>8. stack' \in Seq(FrameType')
  BY <1>1, <1>7 DEF SearchState, FrameType, FramesOf
<1>9. path' \in Seq(Hops(migrations))
  BY <1>1, <1>7 DEF SearchState, PathIsStack
<1>10. PlannerTypeOK'
  BY <1>1, <1>2, <1>8, <1>9 DEF PlannerInv, PlannerTypeOK, Searching
<1>11. SearchShape'
  BY <1>1 DEF PlannerInv, SearchShape, Searching
<1>12. BfsCount'
  BY <1>1 DEF BfsCount, Searching
<1>13. StackInv'
  BY <1>1, <1>7 DEF StackInv, Searching
<1>14. QED
  BY <1>10, <1>11, <1>12, <1>13 DEF PlannerInv

LEMMA BacktrackingKeepsPlanner ==
  ASSUME PlannerInv, DfsBacktracks
  PROVE  PlannerInv'
<1>1. /\ Searching /\ Len(stack) > 1
      /\ visited' = visited \ {Frame.node} /\ path' = SubSeq(path, 1, Len(path) - 1)
      /\ stack' = Tail(stack)
      /\ UNCHANGED << migrations, query, answer, pc, frontier, nextFrontier, depth, results >>
  BY DEF DfsBacktracks, VisitedOnReturn, graphVars, bfsVars
<1>2. SearchState(migrations, stack', path', visited', query.from)
  BY <1>1, TopOfSearch, SearchGoesUp
<1>3. stack' \in Seq(FrameType')
  BY <1>1, <1>2 DEF SearchState, FrameType, FramesOf
<1>4. path' \in Seq(Hops(migrations))
  BY <1>2 DEF SearchState, PathIsStack
<1>5. PlannerTypeOK'
  <2>1. frontier = {} /\ nextFrontier = {}
    BY <1>1 DEF PlannerInv, SearchShape, Searching
  <2>2. QED
    BY <1>1, <1>3, <1>4, <2>1 DEF PlannerInv, PlannerTypeOK, Searching
<1>6. SearchShape'
  BY <1>1 DEF PlannerInv, SearchShape, Searching
<1>7. BfsCount'
  BY <1>1 DEF BfsCount, Searching
<1>8. StackInv'
  BY <1>1, <1>2 DEF StackInv, Searching
<1>9. QED
  BY <1>5, <1>6, <1>7, <1>8 DEF PlannerInv

LEMMA BoundedReturnKeepsPlanner ==
  ASSUME PlannerInv, DfsBoundedReturns
  PROVE  PlannerInv'
<1>1. /\ pc = "dfs_bounded" /\ pc' = "choose" /\ stack' = << >>
      /\ UNCHANGED << migrations, query, answer, visited, frontier, nextFrontier, depth, path,
                      results >>
  BY DEF DfsBoundedReturns, graphVars, bfsVars
<1>2. PlannerTypeOK'
  BY <1>1 DEF PlannerInv, PlannerTypeOK
<1>3. SearchShape' /\ BfsCount' /\ StackInv'
  BY <1>1 DEF PlannerInv, SearchShape, BfsCount, StackInv, Searching
<1>4. QED
  BY <1>2, <1>3 DEF PlannerInv

LEMMA StutterKeepsPlanner ==
  ASSUME PlannerInv, UNCHANGED vars
  PROVE  PlannerInv'
BY DEF vars, graphVars, searchVars, bfsVars, dfsVars, PlannerInv, PlannerTypeOK, SearchShape,
   BfsCount, StackInv, Searching, Quiet, FrameType

LEMMA StepKeepsPlanner ==
  ASSUME migrations \in Seq(Migration), PlannerInv, [PlannerNext]_vars
  PROVE  PlannerInv'
<1>1. CASE RegisterWhenIdle
  BY <1>1, RegisterKeepsPlanner
<1>2. CASE \E from, to \in SchemaId : AskPlan(from, to) \/ AskAvailablePaths(from, to)
  BY <1>2, AskPlanKeepsPlanner, AskPathsKeepsPlanner
<1>3. CASE PlanNothing \/ BfsFails \/ DfsAllReturns \/ PlanChooses
  BY <1>3, AnswersKeepPlanner
<1>4. CASE \E node \in SchemaId : BfsFinds(node) \/ BfsExpands(node)
  BY <1>4, BfsFindsKeepsPlanner, BfsExpandsKeepsPlanner
<1>5. CASE BfsNextLevel
  BY <1>5, BfsNextLevelKeepsPlanner
<1>6. CASE DfsSkips \/ DfsReaches \/ DfsPrunes
  BY <1>6, PassingKeepsPlanner
<1>7. CASE DfsDescends
  BY <1>7, DescendingKeepsPlanner
<1>8. CASE DfsBacktracks
  BY <1>8, BacktrackingKeepsPlanner
<1>9. CASE DfsBoundedReturns
  BY <1>9, BoundedReturnKeepsPlanner
<1>10. CASE Release
  BY <1>10, ReleaseKeepsPlanner
<1>11. CASE UNCHANGED vars
  BY <1>11, StutterKeepsPlanner
<1>12. QED
  BY <1>1, <1>2, <1>3, <1>4, <1>5, <1>6, <1>7, <1>8, <1>9, <1>10, <1>11
     DEF PlannerNext, SearchStep

-----------------------------------------------------------------------------
(* The theorems. *)

LEMMA PlannerStepOnGraph == [PlannerNext]_vars => [Next]_graphVars
BY DEF PlannerNext, RegisterWhenIdle, Next, AskPlan, AskAvailablePaths, SearchStep, PlanNothing,
   BfsFinds, BfsExpands, BfsNextLevel, BfsFails, DfsSkips, DfsReaches, DfsDescends, DfsPrunes,
   DfsBacktracks, DfsAllReturns, DfsBoundedReturns, PlanChooses, Release, Answer, vars, graphVars

LEMMA RegistryTyped == PlannerSpec => []TypeOK
<1>1. PlannerInit => TypeOK
  BY InitTyped DEF PlannerInit
<1>2. TypeOK /\ [PlannerNext]_vars => TypeOK'
  BY PlannerStepOnGraph, StepTyped
<1>3. QED
  BY <1>1, <1>2, PTL DEF PlannerSpec

LEMMA PlannerInvHolds == PlannerSpec => []PlannerInv
<1>1. TypeOK /\ PlannerInv /\ [PlannerNext]_vars => PlannerInv'
  BY StepKeepsPlanner DEF TypeOK
<1>2. QED
  BY <1>1, InitPlanner, RegistryTyped, PTL DEF PlannerSpec

(* The searches' state keeps its types, the breadth-first depth stays      *)
(* below the number of nodes, and nothing of a search outlives its call    *)
(* (graph.rs:155-296).                                                     *)
THEOREM PlannerTypeCorrect == PlannerSpec => []PlannerTypeOK
<1>1. PlannerInv => PlannerTypeOK
  BY DEF PlannerInv
<1>2. QED
  BY <1>1, PlannerInvHolds, PTL

(* visited and path, shared by all recursive calls of dfs_all and          *)
(* dfs_bounded, are at every moment what the stack of calls says           *)
(* (graph.rs:183-187 and :236-240).                                        *)
THEOREM BacktrackingExact == PlannerSpec => []BacktrackingIsExact
<1>1. PlannerInv => BacktrackingIsExact
  <2> SUFFICES ASSUME PlannerInv, Searching PROVE BacktrackingIsExact
    BY DEF BacktrackingIsExact
  <2>1. SearchState(migrations, stack, path, visited, query.from)
    BY TopOfSearch
  <2>2. Len(stack) \in Nat /\ Len(stack) >= 1 /\ DOMAIN stack = 1..Len(stack)
    BY TopOfSearch
  <2>3. visited = { stack[k].node : k \in DOMAIN stack }
    <3>1. ASSUME NEW k \in DOMAIN stack PROVE stack[k].node \in visited
      <4>1. Len(stack) + 1 - k \in 1..Len(stack) /\ Len(stack) + 1 - (Len(stack) + 1 - k) = k
        BY <2>2
      <4>2. QED
        BY <2>1, <4>1 DEF SearchState, VisitedIsStack, FrameAt
    <3>2. ASSUME NEW v \in visited PROVE \E k \in DOMAIN stack : stack[k].node = v
      <4>1. PICK k \in 1..Len(stack) : FrameAt(stack, k).node = v
        BY <2>1 DEF SearchState, VisitedIsStack
      <4>2. Len(stack) + 1 - k \in DOMAIN stack
        BY <2>2
      <4>3. QED
        BY <4>1, <4>2 DEF FrameAt
    <3>3. QED
      BY <3>1, <3>2
  <2>4. Cardinality(visited) = Len(stack)
    BY <2>1 DEF SearchState, VisitedIsStack
  <2>5. /\ path \in Seq(Hops(migrations)) /\ Len(path) = Len(stack) - 1
        /\ FrameAt(stack, 1).node = query.from
        /\ \A k \in 1..Len(path) :
             /\ HopFrom(migrations, path[k]) = FrameAt(stack, k).node
             /\ HopTo(migrations, path[k]) = FrameAt(stack, k + 1).node
    BY <2>1 DEF SearchState, PathIsStack
  <2>6. DOMAIN path = 1..Len(path)
    BY <2>5
  <2>7. QED
    BY <2>3, <2>4, <2>5, <2>6 DEF BacktrackingIsExact, FrameAt
<1>2. QED
  BY <1>1, PlannerInvHolds, PTL

-----------------------------------------------------------------------------
(* The breadth-first search. *)

(* What a node not waiting to be expanded leads to has been seen. *)
ClosedSearch(migs, seen, waiting) ==
  \A v \in seen \ waiting : \A hop \in EdgesFrom(migs, v) : HopTo(migs, hop) \in seen

(* Walks no longer than the levels completed end in nodes of those levels. *)
CoversWalks(migs, from, levels, n) ==
  \A p, v : IsWalk(migs, p, from, v) /\ Len(p) <= n => v \in levels

(* A node at a distance: the start itself, or the end of a walk that long. *)
ReachedIn(migs, from, v, n) ==
  \/ n = 0 /\ v = from
  \/ \E p : IsWalk(migs, p, from, v) /\ Len(p) = n

BfsState(migs, from, to, seen, level, next, n) ==
  /\ from \in seen \ next /\ to \notin seen
  /\ ClosedSearch(migs, seen, level \cup next)
  /\ CoversWalks(migs, from, seen \ next, n)
  /\ \A v \in level : ReachedIn(migs, from, v, n)
  /\ \A v \in next : ReachedIn(migs, from, v, n + 1)

(* The length of a shortest walk between two nodes. *)
IsDistance(migs, from, to, n) ==
  /\ n \in Nat
  /\ \E p : IsWalk(migs, p, from, to) /\ Len(p) = n
  /\ \A p : IsWalk(migs, p, from, to) => n <= Len(p)

LEMMA WalkLength ==
  ASSUME NEW migs, NEW p, NEW from, NEW to, IsWalk(migs, p, from, to)
  PROVE  /\ Len(p) \in Nat /\ Len(p) >= 1 /\ DOMAIN p = 1..Len(p)
         /\ \A k \in 1..Len(p) : p[k] \in Hops(migs)
BY DEF IsWalk

LEMMA ReachGrows ==
  ASSUME NEW migs, NEW from, NEW node, NEW n \in Nat, ReachedIn(migs, from, node, n),
         NEW hop \in EdgesFrom(migs, node)
  PROVE  \E p : IsWalk(migs, p, from, HopTo(migs, hop)) /\ Len(p) = n + 1
<1>1. hop \in Hops(migs) /\ HopFrom(migs, hop) = node
  BY DEF EdgesFrom
<1>2. CASE n = 0 /\ node = from
  <2>1. Len(<< hop >>) = n + 1
    BY <1>2
  <2>2. IsWalk(migs, << hop >>, from, HopTo(migs, hop))
    BY <1>1, <1>2, WalkOfOneHop
  <2>3. QED
    BY <2>1, <2>2
<1>3. CASE \E p : IsWalk(migs, p, from, node) /\ Len(p) = n
  BY <1>1, <1>3, WalkGrows
<1>4. QED
  BY <1>2, <1>3 DEF ReachedIn

LEMMA BfsStarts ==
  ASSUME NEW migs, NEW from, NEW to, from # to
  PROVE  BfsState(migs, from, to, {from}, {from}, {}, 0)
<1>1. CoversWalks(migs, from, {from} \ {}, 0)
  <2>1. \A p, v : IsWalk(migs, p, from, v) => Len(p) \in Nat /\ Len(p) >= 1
    BY WalkLength
  <2>2. QED
    BY <2>1 DEF CoversWalks
<1>2. QED
  BY <1>1 DEF BfsState, ClosedSearch, ReachedIn

LEMMA BfsGoesOn ==
  ASSUME NEW migs, NEW from, NEW to, NEW seen, NEW level, NEW next, NEW n \in Nat,
         BfsState(migs, from, to, seen, level, next, n), level \subseteq seen,
         NEW node \in level,
         NEW ends, ends = { HopTo(migs, hop) : hop \in EdgesFrom(migs, node) },
         to \notin ends
  PROVE  BfsState(migs, from, to, seen \cup ends, level \ {node}, next \cup (ends \ seen), n)
<1> DEFINE seen1 == seen \cup ends
           level1 == level \ {node}
           next1 == next \cup (ends \ seen)
<1>1. from \in seen1 \ next1 /\ to \notin seen1
  BY DEF BfsState
<1>2. ClosedSearch(migs, seen1, level1 \cup next1)
  BY DEF BfsState, ClosedSearch
<1>3. CoversWalks(migs, from, seen1 \ next1, n)
  BY DEF BfsState, CoversWalks
<1>4. \A v \in level1 : ReachedIn(migs, from, v, n)
  BY DEF BfsState
<1>5. ASSUME NEW v \in next1 PROVE ReachedIn(migs, from, v, n + 1)
  <2>1. CASE v \in next
    BY <2>1 DEF BfsState
  <2>2. CASE v \in ends
    <3>1. PICK hop \in EdgesFrom(migs, node) : v = HopTo(migs, hop)
      BY <2>2
    <3>2. ReachedIn(migs, from, node, n)
      BY DEF BfsState
    <3>3. QED
      BY <3>1, <3>2, ReachGrows DEF ReachedIn
  <2>3. QED
    BY <2>1, <2>2
<1>6. QED
  BY <1>1, <1>2, <1>3, <1>4, <1>5 DEF BfsState

LEMMA BfsGoesDeeper ==
  ASSUME NEW migs, NEW from, NEW to, NEW seen, NEW next, NEW n \in Nat,
         BfsState(migs, from, to, seen, {}, next, n)
  PROVE  BfsState(migs, from, to, seen, next, {}, n + 1)
<1>1. CoversWalks(migs, from, seen \ {}, n + 1)
  <2> SUFFICES ASSUME NEW p, NEW v, IsWalk(migs, p, from, v), Len(p) <= n + 1
               PROVE  v \in seen
    BY DEF CoversWalks
  <2>1. /\ Len(p) \in Nat /\ Len(p) >= 1 /\ p[Len(p)] \in Hops(migs)
        /\ HopTo(migs, p[Len(p)]) = v
    BY WalkLength DEF IsWalk
  <2>2. HopFrom(migs, p[Len(p)]) \in seen \ next
    <3>1. CASE Len(p) = 1
      BY <3>1 DEF IsWalk, BfsState
    <3>2. CASE Len(p) > 1
      <4>1. /\ IsWalk(migs, SubSeq(p, 1, Len(p) - 1), from, HopFrom(migs, p[Len(p)]))
            /\ Len(SubSeq(p, 1, Len(p) - 1)) = Len(p) - 1
        BY <3>2, WalkShrinks
      <4>2. Len(SubSeq(p, 1, Len(p) - 1)) <= n
        BY <2>1, <4>1
      <4>3. QED
        BY <4>1, <4>2 DEF BfsState, CoversWalks
    <3>3. Len(p) # 1 => Len(p) > 1
      BY <2>1
    <3>4. QED
      BY <3>1, <3>2, <3>3
  <2>3. p[Len(p)] \in EdgesFrom(migs, HopFrom(migs, p[Len(p)]))
    BY <2>1 DEF EdgesFrom
  <2>4. QED
    BY <2>1, <2>2, <2>3 DEF BfsState, ClosedSearch
<1>2. from \in seen \ {} /\ to \notin seen /\ ClosedSearch(migs, seen, next \cup {})
  BY DEF BfsState, ClosedSearch
<1>3. \A v \in next : ReachedIn(migs, from, v, n + 1)
  BY DEF BfsState
<1>4. QED
  BY <1>1, <1>2, <1>3 DEF BfsState

LEMMA BfsFindsDistance ==
  ASSUME NEW migs, NEW from, NEW to, NEW seen, NEW level, NEW next, NEW n \in Nat,
         BfsState(migs, from, to, seen, level, next, n),
         NEW node \in level, NEW hop \in EdgesFrom(migs, node), HopTo(migs, hop) = to
  PROVE  IsDistance(migs, from, to, n + 1)
<1>1. \E p : IsWalk(migs, p, from, to) /\ Len(p) = n + 1
  BY ReachGrows DEF BfsState
<1>2. ASSUME NEW p, IsWalk(migs, p, from, to) PROVE n + 1 <= Len(p)
  <2>1. Len(p) \in Nat
    BY <1>2, WalkLength
  <2>2. ~(Len(p) <= n)
    BY <1>2 DEF BfsState, CoversWalks
  <2>3. QED
    BY <2>1, <2>2
<1>3. QED
  BY <1>1, <1>2 DEF IsDistance

(* Nothing waits and the target has not been seen: no walk leads to it. *)
LEMMA BfsFindsNothing ==
  ASSUME NEW migs, NEW from, NEW to, NEW seen, NEW n \in Nat,
         BfsState(migs, from, to, seen, {}, {}, n),
         NEW p, IsWalk(migs, p, from, to)
  PROVE  FALSE
<1> DEFINE unseen == { k \in 1..Len(p) : HopTo(migs, p[k]) \notin seen }
<1>1. /\ Len(p) \in Nat /\ Len(p) >= 1
      /\ \A k \in 1..Len(p) : p[k] \in Hops(migs)
  BY WalkLength
<1>2. unseen \in SUBSET Nat /\ unseen # {}
  BY <1>1 DEF IsWalk, BfsState
<1>3. PICK k \in unseen : \A j \in unseen : k <= j
  <2> HIDE DEF unseen
  <2>1. QED
    BY <1>2, LeastNatural
<1>4. HopFrom(migs, p[k]) \in seen
  <2>1. CASE k = 1
    BY <2>1 DEF IsWalk, BfsState
  <2>2. CASE k # 1
    <3>1. k - 1 \in 1..(Len(p) - 1) /\ k - 1 \in 1..Len(p) /\ (k - 1) + 1 = k
      BY <1>1, <2>2
    <3>2. k - 1 \notin unseen
      BY <1>1, <1>3
    <3>3. HopTo(migs, p[k - 1]) = HopFrom(migs, p[k])
      BY <3>1 DEF IsWalk
    <3>4. QED
      BY <3>1, <3>2, <3>3
  <2>3. QED
    BY <2>1, <2>2
<1>5. p[k] \in EdgesFrom(migs, HopFrom(migs, p[k]))
  BY <1>1 DEF EdgesFrom
<1>6. HopTo(migs, p[k]) \in seen
  BY <1>4, <1>5 DEF BfsState, ClosedSearch
<1>7. QED
  BY <1>6

(* What plan()'s two searches must agree on: the simple paths as short as  *)
(* the distance are the shortest simple paths, and there is one.           *)
LEMMA ShortestSimplePaths ==
  ASSUME NEW migs \in Seq(Migration), NEW from, NEW to, from # to, NEW n,
         IsDistance(migs, from, to, n)
  PROVE  /\ \E p \in SimplePaths(migs, from, to) : Len(p) = n
         /\ \A p \in SimplePaths(migs, from, to) : Len(p) \in Nat /\ n <= Len(p)
<1>1. PICK p : IsWalk(migs, p, from, to) /\ Len(p) = n
  BY DEF IsDistance
<1>2. IsSimplePath(migs, p, from, to)
  BY <1>1, ShortestWalkIsSimple DEF IsDistance
<1>3. p \in SimplePaths(migs, from, to)
  BY <1>2, SimplePathsAreAll
<1>4. ASSUME NEW q \in SimplePaths(migs, from, to) PROVE Len(q) \in Nat /\ n <= Len(q)
  <2>1. IsWalk(migs, q, from, to)
    BY SimplePathsAreAll DEF IsSimplePath
  <2>2. QED
    BY <2>1, WalkLength DEF IsDistance
<1>5. QED
  BY <1>1, <1>3, <1>4

-----------------------------------------------------------------------------
(* The depth-first searches.  dfs_bounded looks for simple paths of one    *)
(* length, dfs_all for those of any length.                                *)

Wanted(migs, from, to, lengths, p) == IsSimplePath(migs, p, from, to) /\ Len(p) \in lengths

(* The path that available_paths() records before it searches. *)
Trivial(from, to) == IF from = to THEN {<< >>} ELSE {}

(* The search will still come to p: p leaves the current path at some      *)
(* frame, by a hop this frame has yet to take.                             *)
Ahead(s, path0, p) ==
  \E k \in 1..Len(s) :
    /\ k <= Len(p)
    /\ \A i \in 1..(k - 1) : p[i] = path0[i]
    /\ p[k] \in FrameAt(s, k).todo

(* Nothing unwanted is found, and nothing wanted is lost. *)
DfsState(migs, from, to, lengths, s, path0, found) ==
  /\ Trivial(from, to) \subseteq found
  /\ \A p \in found : Wanted(migs, from, to, lengths, p) \/ p \in Trivial(from, to)
  /\ \A p : Wanted(migs, from, to, lengths, p) => p \in found \/ Ahead(s, path0, p)

(* p follows the current path and then takes hop. *)
Follows(path0, hop, p) ==
  /\ Len(path0) + 1 <= Len(p)
  /\ \A i \in 1..Len(path0) : p[i] = path0[i]
  /\ p[Len(path0) + 1] = hop

LEMMA SimplePathShape ==
  ASSUME NEW migs, NEW p, NEW from, NEW to, IsSimplePath(migs, p, from, to)
  PROVE  /\ Len(p) \in Nat /\ Len(p) >= 1 /\ DOMAIN p = 1..Len(p)
         /\ p \in Seq(Hops(migs)) /\ \A k \in 1..Len(p) : p[k] \in Hops(migs)
         /\ HopFrom(migs, p[1]) = from /\ HopTo(migs, p[Len(p)]) = to /\ from # to
         /\ \A k \in 1..(Len(p) - 1) : HopTo(migs, p[k]) = HopFrom(migs, p[k + 1])
         /\ \A k \in 1..Len(p) : HopTo(migs, p[k]) # from
         /\ \A j, k \in 1..Len(p) : HopTo(migs, p[j]) = HopTo(migs, p[k]) => j = k
<1>1. IsWalk(migs, p, from, to)
  BY DEF IsSimplePath
<1>2. Len(p) \in Nat /\ Len(p) >= 1 /\ DOMAIN p = 1..Len(p) /\ Len(p) \in 1..Len(p)
  BY <1>1, WalkLength
<1>3. /\ HopFrom(migs, p[1]) = from /\ HopTo(migs, p[Len(p)]) = to
      /\ p \in Seq(Hops(migs))
      /\ \A k \in 1..(Len(p) - 1) : HopTo(migs, p[k]) = HopFrom(migs, p[k + 1])
  BY <1>1 DEF IsWalk
<1>4. /\ \A k \in 1..Len(p) : HopTo(migs, p[k]) # from
      /\ \A j, k \in 1..Len(p) : HopTo(migs, p[j]) = HopTo(migs, p[k]) => j = k
  BY <1>2 DEF IsSimplePath
<1>5. from # to
  BY <1>2, <1>3, <1>4
<1>6. QED
  BY <1>1, <1>2, <1>3, <1>4, <1>5, WalkLength

(* The current path and a hop of the innermost frame make a walk, which is *)
(* simple when the hop leads to a node not visited.                        *)
LEMMA PathToHop ==
  ASSUME NEW migs, NEW s, NEW path0, NEW seen, NEW from,
         SearchState(migs, s, path0, seen, from),
         NEW hop \in EdgesFrom(migs, FrameAt(s, Len(s)).node)
  PROVE  /\ IsWalk(migs, Append(path0, hop), from, HopTo(migs, hop))
         /\ Len(Append(path0, hop)) = Len(s) /\ Len(path0) + 1 = Len(s)
         /\ HopTo(migs, hop) \notin seen
              => IsSimplePath(migs, Append(path0, hop), from, HopTo(migs, hop))
<1> DEFINE q == Append(path0, hop)
           n == Len(path0)
<1>1. Len(s) \in Nat /\ Len(s) >= 1
  BY TopFrame DEF SearchState
<1>2. /\ path0 \in Seq(Hops(migs)) /\ n = Len(s) - 1 /\ FrameAt(s, 1).node = from
      /\ \A k \in 1..n : /\ HopFrom(migs, path0[k]) = FrameAt(s, k).node
                         /\ HopTo(migs, path0[k]) = FrameAt(s, k + 1).node
  BY DEF SearchState, PathIsStack
<1>3. hop \in Hops(migs) /\ HopFrom(migs, hop) = FrameAt(s, n + 1).node
  <2>1. n + 1 = Len(s)
    BY <1>1, <1>2
  <2>2. QED
    BY <2>1 DEF EdgesFrom
<1>4. n \in Nat /\ n + 1 = Len(s)
  BY <1>1, <1>2
<1>5. /\ q \in Seq(Hops(migs)) /\ q # << >> /\ Len(q) = n + 1 /\ q[n + 1] = hop
      /\ \A k \in 1..n : q[k] = path0[k]
  BY <1>2, <1>3, AppendProperties
<1> HIDE DEF q, n
<1>6. \A k \in 1..(n + 1) : k \in 1..n \/ k = n + 1
  BY <1>4
<1>7. \A k \in 1..(n + 1) : HopFrom(migs, q[k]) = FrameAt(s, k).node
  BY <1>2, <1>3, <1>5, <1>6
<1>8. \A k \in 1..n : HopTo(migs, q[k]) = FrameAt(s, k + 1).node
  BY <1>2, <1>5
<1>9. IsWalk(migs, q, from, HopTo(migs, hop))
  <2>1. HopFrom(migs, q[1]) = from
    <3>1. 1 \in 1..(n + 1)
      BY <1>4
    <3>2. QED
      BY <1>2, <1>7, <3>1
  <2>2. ASSUME NEW k \in 1..(Len(q) - 1) PROVE HopTo(migs, q[k]) = HopFrom(migs, q[k + 1])
    <3>1. k \in 1..n /\ k + 1 \in 1..(n + 1)
      BY <1>4, <1>5
    <3>2. QED
      BY <1>7, <1>8, <3>1
  <2>3. HopTo(migs, q[Len(q)]) = HopTo(migs, hop)
    BY <1>5
  <2>4. QED
    BY <1>5, <2>1, <2>2, <2>3 DEF IsWalk
<1>10. ASSUME HopTo(migs, hop) \notin seen
       PROVE  IsSimplePath(migs, q, from, HopTo(migs, hop))
  <2>1. /\ \A k \in 1..Len(s) : FrameAt(s, k).node \in seen
        /\ \A j, k \in 1..Len(s) : FrameAt(s, j).node = FrameAt(s, k).node => j = k
    BY DEF SearchState, VisitedIsStack
  <2>2. DOMAIN q = 1..(n + 1) /\ 1 \in 1..Len(s)
    BY <1>1, <1>4, <1>5
  <2>3. \A k \in 1..n : k + 1 \in 1..Len(s) /\ k + 1 # 1
    BY <1>4
  <2>4. ASSUME NEW k \in DOMAIN q PROVE HopTo(migs, q[k]) # from
    <3>1. CASE k \in 1..n
      BY <1>2, <1>8, <2>1, <2>2, <2>3, <3>1
    <3>2. CASE k = n + 1
      BY <1>2, <1>5, <1>10, <2>1, <2>2, <3>2
    <3>3. QED
      BY <1>6, <2>2, <3>1, <3>2
  <2>5. ASSUME NEW j \in DOMAIN q, NEW k \in DOMAIN q, HopTo(migs, q[j]) = HopTo(migs, q[k])
        PROVE  j = k
    <3>1. CASE j \in 1..n /\ k \in 1..n
      <4>1. j + 1 = k + 1
        BY <1>8, <2>1, <2>3, <2>5, <3>1
      <4>2. QED
        BY <1>4, <3>1, <4>1
    <3>2. \A i \in 1..n : HopTo(migs, q[i]) # HopTo(migs, q[n + 1])
      BY <1>5, <1>8, <1>10, <2>1, <2>3
    <3>3. QED
      BY <1>6, <2>2, <2>5, <3>1, <3>2
  <2>6. QED
    BY <1>9, <2>4, <2>5 DEF IsSimplePath
<1>11. QED
  BY <1>4, <1>5, <1>9, <1>10 DEF q, n

(* A simple path does not return to a node of the current path... *)
LEMMA FollowsNoLoop ==
  ASSUME NEW migs, NEW s, NEW path0, NEW seen, NEW from, SearchState(migs, s, path0, seen, from),
         NEW hop \in EdgesFrom(migs, FrameAt(s, Len(s)).node),
         NEW p, NEW to, IsSimplePath(migs, p, from, to), Follows(path0, hop, p)
  PROVE  HopTo(migs, hop) \notin seen
<1> DEFINE n == Len(path0)
<1>1. n + 1 = Len(s) /\ n \in Nat
  BY PathToHop DEF SearchState, PathIsStack
<1>2. /\ Len(p) \in Nat
      /\ \A k \in 1..Len(p) : HopTo(migs, p[k]) # from
      /\ \A j, k \in 1..Len(p) : HopTo(migs, p[j]) = HopTo(migs, p[k]) => j = k
  BY SimplePathShape
<1>3. n + 1 <= Len(p) /\ p[n + 1] = hop /\ \A i \in 1..n : p[i] = path0[i]
  BY DEF Follows
<1>4. /\ \A v \in seen : \E k \in 1..Len(s) : FrameAt(s, k).node = v
      /\ FrameAt(s, 1).node = from
      /\ \A k \in 1..n : HopTo(migs, path0[k]) = FrameAt(s, k + 1).node
  BY DEF SearchState, PathIsStack, VisitedIsStack
<1> HIDE DEF n
<1>5. n + 1 \in 1..Len(p) /\ \A i \in 1..n : i \in 1..Len(p)
  BY <1>1, <1>2, <1>3
<1>6. SUFFICES ASSUME HopTo(migs, hop) \in seen PROVE FALSE
  OBVIOUS
<1>7. PICK k \in 1..Len(s) : FrameAt(s, k).node = HopTo(migs, hop)
  BY <1>4, <1>6
<1>8. k # 1
  BY <1>2, <1>3, <1>4, <1>5, <1>7
<1>9. k - 1 \in 1..n /\ (k - 1) + 1 = k /\ k - 1 # n + 1
  BY <1>1, <1>8
<1>10. k - 1 \in 1..Len(p)
  BY <1>5, <1>9
<1>11. HopTo(migs, p[k - 1]) = HopTo(migs, p[n + 1])
  BY <1>3, <1>4, <1>7, <1>9
<1>12. QED
  BY <1>2, <1>5, <1>9, <1>10, <1>11

(* ...it ends where it meets its target... *)
LEMMA FollowsToTarget ==
  ASSUME NEW migs, NEW path0 \in Seq(Hops(migs)), NEW hop \in Hops(migs), NEW p, NEW from,
         IsSimplePath(migs, p, from, HopTo(migs, hop)), Follows(path0, hop, p)
  PROVE  p = Append(path0, hop)
<1> DEFINE n == Len(path0)
<1>1. /\ Len(p) \in Nat /\ Len(p) >= 1 /\ p \in Seq(Hops(migs))
      /\ HopTo(migs, p[Len(p)]) = HopTo(migs, hop)
      /\ \A j, k \in 1..Len(p) : HopTo(migs, p[j]) = HopTo(migs, p[k]) => j = k
  BY SimplePathShape
<1>2. n + 1 <= Len(p) /\ p[n + 1] = hop /\ \A i \in 1..n : p[i] = path0[i]
  BY DEF Follows
<1>3. n \in Nat
  OBVIOUS
<1>4. n + 1 \in 1..Len(p) /\ Len(p) \in 1..Len(p)
  BY <1>1, <1>2, <1>3
<1>5. Len(p) = n + 1
  BY <1>1, <1>2, <1>4
<1>6. /\ Append(path0, hop) \in Seq(Hops(migs)) /\ Len(Append(path0, hop)) = n + 1
      /\ Append(path0, hop)[n + 1] = hop
      /\ \A k \in 1..n : Append(path0, hop)[k] = path0[k]
  BY AppendProperties
<1> HIDE DEF n
<1>7. \A k \in 1..(n + 1) : k \in 1..n \/ k = n + 1
  BY <1>3
<1>8. \A k \in 1..(n + 1) : p[k] = Append(path0, hop)[k]
  BY <1>2, <1>6, <1>7
<1>9. QED
  BY <1>1, <1>5, <1>6, <1>8, SeqEqual

(* ...and goes on from any other node. *)
LEMMA FollowsFurther ==
  ASSUME NEW migs, NEW path0 \in Seq(Hops(migs)), NEW hop \in Hops(migs), NEW p, NEW from, NEW to,
         IsSimplePath(migs, p, from, to), Follows(path0, hop, p), HopTo(migs, hop) # to
  PROVE  Len(path0) + 2 <= Len(p) /\ p[Len(path0) + 2] \in EdgesFrom(migs, HopTo(migs, hop))
<1> DEFINE n == Len(path0)
<1>1. /\ Len(p) \in Nat /\ HopTo(migs, p[Len(p)]) = to
      /\ \A k \in 1..Len(p) : p[k] \in Hops(migs)
      /\ \A k \in 1..(Len(p) - 1) : HopTo(migs, p[k]) = HopFrom(migs, p[k + 1])
  BY SimplePathShape
<1>2. n \in Nat /\ n + 1 <= Len(p) /\ p[n + 1] = hop
  BY DEF Follows
<1> HIDE DEF n
<1>3. n + 1 # Len(p)
  BY <1>1, <1>2
<1>4. n + 2 <= Len(p) /\ n + 1 \in 1..(Len(p) - 1) /\ n + 2 \in 1..Len(p) /\ (n + 1) + 1 = n + 2
  BY <1>1, <1>2, <1>3
<1>5. p[n + 2] \in Hops(migs) /\ HopFrom(migs, p[n + 2]) = HopTo(migs, hop)
  BY <1>1, <1>2, <1>4
<1>6. QED
  BY <1>4, <1>5 DEF EdgesFrom, n

LEMMA DfsStarts ==
  ASSUME NEW migs, NEW from, NEW to, NEW lengths, NEW f, f.todo = EdgesFrom(migs, from)
  PROVE  DfsState(migs, from, to, lengths, << f >>, << >>, Trivial(from, to))
<1>1. Len(<< f >>) = 1 /\ FrameAt(<< f >>, 1) = f
  BY DEF FrameAt
<1>2. ASSUME NEW p, Wanted(migs, from, to, lengths, p) PROVE Ahead(<< f >>, << >>, p)
  <2>1. /\ Len(p) \in Nat /\ Len(p) >= 1 /\ HopFrom(migs, p[1]) = from
        /\ \A k \in 1..Len(p) : p[k] \in Hops(migs)
    BY <1>2, SimplePathShape DEF Wanted
  <2>2. 1 \in 1..Len(p)
    BY <2>1
  <2>3. p[1] \in f.todo
    BY <2>1, <2>2 DEF EdgesFrom
  <2>4. QED
    BY <1>1, <2>1, <2>3 DEF Ahead
<1>3. QED
  BY <1>2 DEF DfsState

(* Taking a hop off the innermost todo loses no path but those that follow *)
(* this hop.                                                               *)
LEMMA AheadOrFollows ==
  ASSUME NEW hops, NEW s \in Seq(FramesOf(hops)), s # << >>, NEW path0, Len(path0) = Len(s) - 1,
         NEW hop, NEW p, Len(p) \in Nat, Ahead(s, path0, p)
  PROVE  Ahead(Todo(s, hop), path0, p) \/ Follows(path0, hop, p)
<1>1. PICK k \in 1..Len(s) : /\ k <= Len(p)
                             /\ \A i \in 1..(k - 1) : p[i] = path0[i]
                             /\ p[k] \in FrameAt(s, k).todo
  BY DEF Ahead
<1>2. /\ Len(Todo(s, hop)) = Len(s)
      /\ \A i \in 1..Len(s) : i # Len(s) => FrameAt(Todo(s, hop), i).todo = FrameAt(s, i).todo
      /\ FrameAt(Todo(s, hop), Len(s)).todo = FrameAt(s, Len(s)).todo \ {hop}
  BY TodoFrames
<1>3. CASE k = Len(s) /\ p[k] = hop
  <2>1. Len(s) \in Nat
    BY TopFrame
  <2>2. Len(path0) = k - 1 /\ Len(path0) + 1 = k
    BY <1>3, <2>1
  <2>3. QED
    BY <1>1, <1>3, <2>2 DEF Follows
<1>4. CASE ~(k = Len(s) /\ p[k] = hop)
  <2>1. p[k] \in FrameAt(Todo(s, hop), k).todo
    BY <1>1, <1>2, <1>4
  <2>2. QED
    BY <1>1, <1>2, <2>1 DEF Ahead
<1>5. QED
  BY <1>3, <1>4

LEMMA DfsPasses ==
  ASSUME NEW migs, NEW s, NEW path0, NEW seen, NEW from, SearchState(migs, s, path0, seen, from),
         NEW to, NEW lengths, NEW found, DfsState(migs, from, to, lengths, s, path0, found),
         NEW hop, NEW more, found \subseteq more,
         \A p \in more : p \in found \/ Wanted(migs, from, to, lengths, p),
         \A p : Wanted(migs, from, to, lengths, p) /\ Follows(path0, hop, p) => p \in more
  PROVE  DfsState(migs, from, to, lengths, Todo(s, hop), path0, more)
<1>1. s \in Seq(FramesOf(Hops(migs))) /\ s # << >> /\ Len(path0) = Len(s) - 1
  BY DEF SearchState, PathIsStack
<1>2. ASSUME NEW p, Wanted(migs, from, to, lengths, p)
      PROVE  p \in more \/ Ahead(Todo(s, hop), path0, p)
  <2>1. p \in found \/ Ahead(s, path0, p)
    BY <1>2 DEF DfsState
  <2>2. Len(p) \in Nat
    BY <1>2, SimplePathShape DEF Wanted
  <2>3. CASE Ahead(s, path0, p)
    <3>1. Ahead(Todo(s, hop), path0, p) \/ Follows(path0, hop, p)
      BY <1>1, <2>2, <2>3, AheadOrFollows
    <3>2. QED
      BY <1>2, <3>1
  <2>4. QED
    BY <2>1, <2>3
<1>3. QED
  BY <1>2 DEF DfsState

LEMMA DfsGoesDown ==
  ASSUME NEW migs, NEW s, NEW path0, NEW seen, NEW from, SearchState(migs, s, path0, seen, from),
         NEW to, NEW lengths, NEW found, DfsState(migs, from, to, lengths, s, path0, found),
         NEW hop \in Hops(migs), HopTo(migs, hop) # to,
         NEW f \in FramesOf(Hops(migs)), f.todo = EdgesFrom(migs, HopTo(migs, hop))
  PROVE  DfsState(migs, from, to, lengths, << f >> \o Todo(s, hop), Append(path0, hop), found)
<1> DEFINE rest == Todo(s, hop)
           t == << f >> \o rest
           q == Append(path0, hop)
           n == Len(s)
<1>1. s \in Seq(FramesOf(Hops(migs))) /\ s # << >> /\ n \in Nat /\ n >= 1
  BY TopFrame DEF SearchState
<1>2. path0 \in Seq(Hops(migs)) /\ Len(path0) = n - 1
  BY DEF SearchState, PathIsStack
<1>3. rest \in Seq(FramesOf(Hops(migs))) /\ Len(rest) = n
  BY <1>1, TodoFrames
<1>4. /\ Len(t) = n + 1
      /\ \A k \in 1..n : FrameAt(t, k) = FrameAt(rest, k)
      /\ FrameAt(t, n + 1) = f
  BY <1>3, PushFrame
<1>5. q[n] = hop /\ \A i \in 1..(n - 1) : q[i] = path0[i]
  <2>1. Len(path0) + 1 = n
    BY <1>1, <1>2
  <2>2. QED
    BY <1>2, <2>1, AppendProperties
<1> HIDE DEF rest, t, q, n
<1>6. ASSUME NEW p, Wanted(migs, from, to, lengths, p) PROVE p \in found \/ Ahead(t, q, p)
  <2>1. p \in found \/ Ahead(s, path0, p)
    BY <1>6 DEF DfsState
  <2>2. Len(p) \in Nat /\ IsSimplePath(migs, p, from, to)
    BY <1>6, SimplePathShape DEF Wanted
  <2>3. CASE Ahead(rest, path0, p)
    <3>1. PICK k \in 1..n : /\ k <= Len(p)
                            /\ \A i \in 1..(k - 1) : p[i] = path0[i]
                            /\ p[k] \in FrameAt(rest, k).todo
      BY <1>3, <2>3 DEF Ahead
    <3>2. k \in 1..Len(t) /\ \A i \in 1..(k - 1) : i \in 1..(n - 1)
      BY <1>1, <1>4
    <3>3. QED
      BY <1>4, <1>5, <3>1, <3>2 DEF Ahead
  <2>4. CASE Follows(path0, hop, p)
    <3>1. /\ Len(path0) + 2 <= Len(p)
          /\ p[Len(path0) + 2] \in EdgesFrom(migs, HopTo(migs, hop))
      BY <1>2, <2>2, <2>4, FollowsFurther
    <3>2. Len(path0) + 2 = n + 1 /\ Len(path0) + 1 = n
      BY <1>1, <1>2
    <3>3. n + 1 <= Len(p) /\ p[n + 1] \in FrameAt(t, n + 1).todo
      BY <1>4, <3>1, <3>2
    <3>4. p[n] = hop /\ \A i \in 1..(n - 1) : p[i] = path0[i]
      BY <1>2, <2>4, <3>2 DEF Follows
    <3>5. \A i \in 1..n : i \in 1..(n - 1) \/ i = n
      BY <1>1
    <3>6. \A i \in 1..n : p[i] = q[i]
      BY <1>5, <3>4, <3>5
    <3>7. n + 1 \in 1..Len(t) /\ (n + 1) - 1 = n
      BY <1>1, <1>4
    <3>8. \A i \in 1..((n + 1) - 1) : p[i] = q[i]
      BY <3>6, <3>7
    <3>9. QED
      BY <3>3, <3>7, <3>8 DEF Ahead
  <2>5. CASE Ahead(s, path0, p)
    <3>1. Ahead(rest, path0, p) \/ Follows(path0, hop, p)
      BY <1>1, <1>2, <2>2, <2>5, AheadOrFollows DEF rest, n
    <3>2. QED
      BY <2>3, <2>4, <3>1
  <2>6. QED
    BY <2>1, <2>5
<1>7. QED
  BY <1>6 DEF DfsState, t, q, rest

LEMMA DfsGoesUp ==
  ASSUME NEW migs, NEW s, NEW path0, NEW seen, NEW from, SearchState(migs, s, path0, seen, from),
         NEW to, NEW lengths, NEW found, DfsState(migs, from, to, lengths, s, path0, found),
         Len(s) > 1, FrameAt(s, Len(s)).todo = {}
  PROVE  DfsState(migs, from, to, lengths, Tail(s), SubSeq(path0, 1, Len(path0) - 1), found)
<1> DEFINE q == SubSeq(path0, 1, Len(path0) - 1)
           n == Len(s)
<1>1. n \in Nat /\ n >= 2
  BY TopFrame DEF SearchState
<1>2. path0 \in Seq(Hops(migs)) /\ Len(path0) = n - 1
  BY DEF SearchState, PathIsStack
<1>3. Len(Tail(s)) = n - 1 /\ \A k \in 1..(n - 1) : FrameAt(Tail(s), k) = FrameAt(s, k)
  BY PopFrame DEF SearchState
<1>4. \A i \in 1..(n - 2) : q[i] = path0[i]
  <2> DEFINE m == Len(path0) - 1
  <2>1. m = n - 2 /\ m \in Nat /\ Len(path0) = m + 1
    BY <1>1, <1>2
  <2> HIDE DEF m, n
  <2>2. \A i \in 1..m : path0[i] \in Hops(migs)
    BY <1>2, <2>1
  <2>3. \A i \in 1..m : SubSeq(path0, 1, m)[i] = path0[i]
    BY <2>1, <2>2, SubSeqProperties
  <2>4. QED
    BY <2>1, <2>3 DEF m
<1> HIDE DEF q, n
<1>5. ASSUME NEW p, Wanted(migs, from, to, lengths, p) PROVE p \in found \/ Ahead(Tail(s), q, p)
  <2>1. p \in found \/ Ahead(s, path0, p)
    BY <1>5 DEF DfsState
  <2>2. CASE Ahead(s, path0, p)
    <3>1. PICK k \in 1..n : /\ k <= Len(p)
                            /\ \A i \in 1..(k - 1) : p[i] = path0[i]
                            /\ p[k] \in FrameAt(s, k).todo
      BY <2>2 DEF Ahead, n
    <3>2. k # n
      BY <3>1 DEF n
    <3>3. k \in 1..(n - 1) /\ \A i \in 1..(k - 1) : i \in 1..(n - 2)
      BY <1>1, <3>2
    <3>4. QED
      BY <1>3, <1>4, <3>1, <3>3 DEF Ahead
  <2>3. QED
    BY <2>1, <2>2
<1>6. QED
  BY <1>5 DEF DfsState, q

(* The outermost call has no hop left: all that is wanted is found. *)
LEMMA DfsEnds ==
  ASSUME NEW migs, NEW s, NEW path0, NEW from, NEW to, NEW lengths, NEW found,
         DfsState(migs, from, to, lengths, s, path0, found),
         Len(s) = 1, FrameAt(s, Len(s)).todo = {}
  PROVE  \A p : p \in found <=> Wanted(migs, from, to, lengths, p) \/ p \in Trivial(from, to)
<1>1. ASSUME NEW p PROVE ~Ahead(s, path0, p)
  <2>1. \A k \in 1..Len(s) : k = Len(s)
    OBVIOUS
  <2>2. QED
    BY <2>1 DEF Ahead
<1>2. QED
  BY <1>1 DEF DfsState

-----------------------------------------------------------------------------
(* The inductive invariant, beside PlannerInv. *)

(* dfs_bounded hands down what is left of the length, never nothing. *)
BoundSpent(s, n) ==
  \A k \in 1..Len(s) : FrameAt(s, k).remaining + k = n + 1 /\ FrameAt(s, k).remaining >= 1

BfsInv ==
  pc = "bfs" =>
    BfsState(migrations, query.from, query.to, visited, frontier, nextFrontier, depth)

DistanceInv ==
  pc \in {"dfs_bounded", "choose"} => IsDistance(migrations, query.from, query.to, depth)

BoundInv == pc = "dfs_bounded" => BoundSpent(stack, depth)

Lengths == IF pc = "dfs_all" THEN Nat ELSE {depth}

FoundInv ==
  Searching => DfsState(migrations, query.from, query.to, Lengths, stack, path, results)

ChoiceInv ==
  pc = "choose" =>
    \A p : p \in results <=> Wanted(migrations, query.from, query.to, {depth}, p)

SearchInv == BfsInv /\ DistanceInv /\ BoundInv /\ FoundInv /\ ChoiceInv

LEMMA NoSearchNoClaim ==
  ASSUME pc' \notin {"bfs", "dfs_bounded", "dfs_all", "choose"}
  PROVE  SearchInv'
BY DEF SearchInv, BfsInv, DistanceInv, BoundInv, FoundInv, ChoiceInv, Searching

LEMMA AskPathsKeepsSearch ==
  ASSUME PlannerInv, NEW from \in SchemaId, NEW to \in SchemaId, AskAvailablePaths(from, to)
  PROVE  SearchInv'
<1> DEFINE f == [node |-> from, todo |-> EdgesFrom(migrations, from), remaining |-> 0]
<1>1. /\ pc' = "dfs_all" /\ migrations' = migrations
      /\ query' = [op |-> "available_paths", from |-> from, to |-> to]
      /\ results' = Trivial(from, to) /\ stack' = << f >> /\ path' = << >>
  BY DEF AskAvailablePaths, PlannerInv, PlannerTypeOK, Quiet, graphVars, Trivial
<1>2. f.todo = EdgesFrom(migrations, from)
  OBVIOUS
<1>3. query'.from = from /\ query'.to = to
  BY <1>1
<1> HIDE DEF f
<1>4. DfsState(migrations, from, to, Lengths', << f >>, << >>, Trivial(from, to))
  BY <1>2, DfsStarts
<1>5. FoundInv'
  BY <1>1, <1>3, <1>4 DEF FoundInv
<1>6. QED
  BY <1>1, <1>5 DEF SearchInv, BfsInv, DistanceInv, BoundInv, ChoiceInv

LEMMA AskPlanKeepsSearch ==
  ASSUME PlannerInv, NEW from \in SchemaId, NEW to \in SchemaId, AskPlan(from, to)
  PROVE  SearchInv'
<1>1. CASE pc' = "trivial"
  BY <1>1, NoSearchNoClaim
<1>2. CASE pc' = "bfs"
  <2>1. /\ from # to /\ visited' = {from} /\ frontier' = {from} /\ nextFrontier' = {} /\ depth' = 0
        /\ query' = [op |-> "plan", from |-> from, to |-> to] /\ migrations' = migrations
    BY <1>2 DEF AskPlan, PlannerInv, PlannerTypeOK, Quiet, graphVars
  <2>2. BfsState(migrations, from, to, {from}, {from}, {}, 0)
    BY <2>1, BfsStarts
  <2>3. BfsInv'
    BY <2>1, <2>2 DEF BfsInv
  <2>4. QED
    BY <1>2, <2>3 DEF SearchInv, DistanceInv, BoundInv, FoundInv, ChoiceInv, Searching
<1>3. QED
  BY <1>1, <1>2 DEF AskPlan

LEMMA BfsExpandsKeepsSearch ==
  ASSUME PlannerInv, SearchInv, NEW node \in SchemaId, BfsExpands(node)
  PROVE  SearchInv'
<1>1. /\ pc = "bfs" /\ pc' = "bfs" /\ node \in frontier /\ query.to \notin Successors(node)
      /\ UNCHANGED << migrations, query, depth >>
      /\ frontier' = frontier \ {node}
      /\ nextFrontier' = nextFrontier \cup (Successors(node) \ visited)
      /\ visited' = visited \cup Successors(node)
  BY DEF BfsExpands, LevelAfter, NextLevelAfter, SeenAfter, graphVars
<1>2. BfsState(migrations, query.from, query.to, visited, frontier, nextFrontier, depth)
  BY <1>1 DEF SearchInv, BfsInv
<1>3. depth \in Nat /\ frontier \subseteq visited
  BY <1>1, RunningBfs
<1>4. Successors(node) = { HopTo(migrations, hop) : hop \in EdgesFrom(migrations, node) }
  BY DEF Successors
<1>5. BfsState(migrations, query.from, query.to, visited', frontier', nextFrontier', depth)
  BY <1>1, <1>2, <1>3, <1>4, BfsGoesOn
<1>6. BfsInv'
  BY <1>1, <1>5 DEF BfsInv
<1>7. QED
  BY <1>1, <1>6 DEF SearchInv, DistanceInv, BoundInv, FoundInv, ChoiceInv, Searching

LEMMA BfsNextLevelKeepsSearch ==
  ASSUME PlannerInv, SearchInv, BfsNextLevel
  PROVE  SearchInv'
<1>1. /\ pc = "bfs" /\ pc' = "bfs" /\ frontier = {}
      /\ UNCHANGED << migrations, query, visited >>
      /\ frontier' = nextFrontier /\ nextFrontier' = {} /\ depth' = depth + 1
  BY DEF BfsNextLevel, graphVars
<1>2. BfsState(migrations, query.from, query.to, visited, {}, nextFrontier, depth)
  BY <1>1 DEF SearchInv, BfsInv
<1>3. BfsState(migrations, query.from, query.to, visited, nextFrontier, {}, depth + 1)
  BY <1>1, <1>2, RunningBfs, BfsGoesDeeper
<1>4. BfsInv'
  BY <1>1, <1>3 DEF BfsInv
<1>5. QED
  BY <1>1, <1>4 DEF SearchInv, DistanceInv, BoundInv, FoundInv, ChoiceInv, Searching

LEMMA BfsFindsKeepsSearch ==
  ASSUME PlannerInv, SearchInv, NEW node \in SchemaId, BfsFinds(node)
  PROVE  SearchInv'
<1> DEFINE from == query.from
           f == [ node |-> from, todo |-> EdgesFrom(migrations, from), remaining |-> depth + 1 ]
<1>1. /\ pc = "bfs" /\ pc' = "dfs_bounded" /\ node \in frontier /\ query.to \in Successors(node)
      /\ UNCHANGED << migrations, query, path, results >>
      /\ depth' = depth + 1 /\ stack' = << f >>
  BY DEF BfsFinds, LengthThrough, graphVars
<1>2. /\ depth \in Nat /\ path = << >> /\ results = {} /\ from # query.to
  BY <1>1, RunningBfs
<1>3. DistanceInv'
  <2>1. PICK hop \in EdgesFrom(migrations, node) : HopTo(migrations, hop) = query.to
    BY <1>1 DEF Successors
  <2>2. BfsState(migrations, from, query.to, visited, frontier, nextFrontier, depth)
    BY <1>1 DEF SearchInv, BfsInv
  <2>3. IsDistance(migrations, from, query.to, depth + 1)
    BY <1>1, <1>2, <2>1, <2>2, BfsFindsDistance
  <2>4. QED
    BY <1>1, <2>3 DEF DistanceInv
<1>4. f.todo = EdgesFrom(migrations, from) /\ f.remaining = depth + 1
  OBVIOUS
<1> HIDE DEF f
<1>5. BoundInv'
  <2>1. Len(<< f >>) = 1 /\ FrameAt(<< f >>, 1) = f
    BY DEF FrameAt
  <2>2. BoundSpent(<< f >>, depth + 1)
    BY <1>2, <1>4, <2>1 DEF BoundSpent
  <2>3. QED
    BY <1>1, <2>2 DEF BoundInv
<1>6. FoundInv'
  <2>1. DfsState(migrations, from, query.to, Lengths', << f >>, << >>, Trivial(from, query.to))
    BY <1>4, DfsStarts
  <2>2. Trivial(from, query.to) = {}
    BY <1>2 DEF Trivial
  <2>3. QED
    BY <1>1, <1>2, <2>1, <2>2 DEF FoundInv
<1>7. QED
  BY <1>1, <1>3, <1>5, <1>6 DEF SearchInv, BfsInv, ChoiceInv

(* What a depth-first search may rely on at a hop it takes. *)
LEMMA RunningDfs ==
  ASSUME migrations \in Seq(Migration), PlannerInv, SearchInv, Searching, Frame.todo # {}
  PROVE  /\ SearchState(migrations, stack, path, visited, query.from)
         /\ DfsState(migrations, query.from, query.to, Lengths, stack, path, results)
         /\ NextHop \in EdgesFrom(migrations, FrameAt(stack, Len(stack)).node)
         /\ NextHop \in Hops(migrations) /\ path \in Seq(Hops(migrations))
         /\ Frame = FrameAt(stack, Len(stack)) /\ Len(stack) \in Nat /\ Len(stack) >= 1
BY TopOfSearch, NextHopOfSearch DEF SearchInv, FoundInv, PlannerInv, PlannerTypeOK

LEMMA BoundPasses ==
  ASSUME NEW hops, NEW s \in Seq(FramesOf(hops)), s # << >>, NEW n, BoundSpent(s, n), NEW hop
  PROVE  BoundSpent(Todo(s, hop), n)
BY TodoFrames DEF BoundSpent

(* What is left of the length at the innermost frame. *)
LEMMA BoundAtTop ==
  ASSUME PlannerInv, SearchInv, pc = "dfs_bounded"
  PROVE  /\ Frame.remaining \in Nat /\ Frame.remaining >= 1
         /\ Frame.remaining + Len(stack) = depth + 1
         /\ IsDistance(migrations, query.from, query.to, depth)
<1>1. /\ Frame = FrameAt(stack, Len(stack)) /\ Frame \in FramesOf(Hops(migrations))
      /\ Len(stack) \in Nat /\ Len(stack) >= 1
  BY TopOfSearch DEF Searching
<1>2. Len(stack) \in 1..Len(stack)
  BY <1>1
<1>3. Frame.remaining \in Nat
  BY <1>1 DEF FramesOf
<1>4. BoundSpent(stack, depth)
  BY DEF SearchInv, BoundInv
<1>5. Frame.remaining + Len(stack) = depth + 1 /\ Frame.remaining >= 1
  BY <1>1, <1>2, <1>4 DEF BoundSpent
<1>6. QED
  BY <1>3, <1>5 DEF SearchInv, DistanceInv

(* The target is met with exactly one hop left: met earlier, the walk to   *)
(* it would be shorter than the shortest.                                  *)
LEMMA TargetAtFullDepth ==
  ASSUME migrations \in Seq(Migration), PlannerInv, SearchInv, pc = "dfs_bounded",
         Frame.todo # {}, HopTo(migrations, NextHop) = query.to
  PROVE  Frame.remaining = 1
<1>1. Searching
  BY DEF Searching
<1>2. /\ IsWalk(migrations, Append(path, NextHop), query.from, query.to)
      /\ Len(Append(path, NextHop)) = Len(stack)
  BY <1>1, RunningDfs, PathToHop
<1>3. depth \in Nat /\ depth <= Len(stack)
  BY <1>2, BoundAtTop DEF IsDistance
<1>4. Len(stack) \in Nat
  BY <1>1, RunningDfs
<1>5. Frame.remaining \in Nat /\ Frame.remaining >= 1 /\ Frame.remaining + Len(stack) = depth + 1
  BY BoundAtTop
<1>6. QED
  BY <1>3, <1>4, <1>5

(* A hop that may be passed over: no wanted path that is not found takes it. *)
LEMMA PassingKeepsSearch ==
  ASSUME migrations \in Seq(Migration), PlannerInv, SearchInv, Searching, Frame.todo # {},
         UNCHANGED << migrations, query, pc, depth, path >>, stack' = Todo(stack, NextHop),
         results \subseteq results',
         \A p \in results' :
           p \in results \/ Wanted(migrations, query.from, query.to, Lengths, p),
         \A p : /\ Wanted(migrations, query.from, query.to, Lengths, p)
                /\ Follows(path, NextHop, p)
                => p \in results'
  PROVE  SearchInv'
<1>1. DfsState(migrations, query.from, query.to, Lengths, stack', path, results')
  BY RunningDfs, DfsPasses
<1>2. FoundInv'
  BY <1>1 DEF FoundInv, Lengths
<1>3. DistanceInv'
  BY DEF SearchInv, DistanceInv
<1>4. BoundInv'
  <2>1. stack \in Seq(FramesOf(Hops(migrations))) /\ stack # << >>
    BY TopOfSearch
  <2>2. QED
    BY <2>1, BoundPasses DEF SearchInv, BoundInv
<1>5. QED
  BY <1>2, <1>3, <1>4 DEF SearchInv, BfsInv, ChoiceInv, Searching

LEMMA SkippingKeepsSearch ==
  ASSUME migrations \in Seq(Migration), PlannerInv, SearchInv, DfsSkips
  PROVE  SearchInv'
<1>1. /\ Searching /\ Frame.todo # {} /\ HopTo(migrations, NextHop) \in visited
      /\ UNCHANGED << migrations, query, pc, depth, path >>
      /\ stack' = Todo(stack, NextHop) /\ results' = results
  BY DEF DfsSkips, graphVars, bfsVars
<1>2. ASSUME NEW p, Wanted(migrations, query.from, query.to, Lengths, p),
             Follows(path, NextHop, p)
      PROVE  FALSE
  BY <1>1, <1>2, RunningDfs, FollowsNoLoop DEF Wanted
<1>3. QED
  BY <1>1, <1>2, PassingKeepsSearch

LEMMA ReachingKeepsSearch ==
  ASSUME migrations \in Seq(Migration), PlannerInv, SearchInv, DfsReaches
  PROVE  SearchInv'
<1> DEFINE new == Append(path, NextHop)
<1>1. /\ Searching /\ Frame.todo # {}
      /\ HopTo(migrations, NextHop) = query.to /\ query.to \notin visited
      /\ UNCHANGED << migrations, query, pc, depth, path >>
      /\ stack' = Todo(stack, NextHop)
      /\ results' = IF pc = "dfs_all" \/ Frame.remaining = 1 THEN results \cup {new} ELSE results
  BY DEF DfsReaches, graphVars, bfsVars
<1>2. results' = results \cup {new}
  BY <1>1, TargetAtFullDepth DEF Searching
<1>3. Wanted(migrations, query.from, query.to, Lengths, new)
  <2>1. /\ IsSimplePath(migrations, new, query.from, query.to)
        /\ Len(new) = Len(stack) /\ Len(stack) \in Nat
    BY <1>1, RunningDfs, PathToHop
  <2>2. CASE pc = "dfs_all"
    BY <2>1, <2>2 DEF Wanted, Lengths
  <2>3. CASE pc = "dfs_bounded"
    <3>1. Frame.remaining = 1 /\ Frame.remaining + Len(stack) = depth + 1
      BY <1>1, <2>3, TargetAtFullDepth, BoundAtTop
    <3>2. depth \in Nat
      BY <2>3, BoundAtTop DEF IsDistance
    <3>3. Len(new) = depth
      BY <2>1, <3>1, <3>2
    <3>4. Lengths = {depth}
      BY <2>3 DEF Lengths
    <3>5. QED
      BY <2>1, <3>3, <3>4 DEF Wanted
  <2>4. QED
    BY <1>1, <2>2, <2>3 DEF Searching
<1>4. ASSUME NEW p, Wanted(migrations, query.from, query.to, Lengths, p),
             Follows(path, NextHop, p)
      PROVE  p = new
  BY <1>1, <1>4, RunningDfs, FollowsToTarget DEF Wanted
<1> HIDE DEF new
<1>5. QED
  BY <1>1, <1>2, <1>3, <1>4, PassingKeepsSearch

LEMMA PruningKeepsSearch ==
  ASSUME migrations \in Seq(Migration), PlannerInv, SearchInv, DfsPrunes
  PROVE  SearchInv'
<1>1. /\ pc = "dfs_bounded" /\ Frame.todo # {} /\ HopTo(migrations, NextHop) # query.to
      /\ Frame.remaining <= 1
      /\ UNCHANGED << migrations, query, pc, depth, path >>
      /\ stack' = Todo(stack, NextHop) /\ results' = results
  BY DEF DfsPrunes, graphVars, bfsVars
<1>2. Searching
  BY <1>1 DEF Searching
<1>3. ASSUME NEW p, Wanted(migrations, query.from, query.to, Lengths, p),
             Follows(path, NextHop, p)
      PROVE  FALSE
  <2>1. Len(path) + 2 <= Len(p)
    BY <1>1, <1>2, <1>3, RunningDfs, FollowsFurther DEF Wanted
  <2>2. Len(p) = depth
    BY <1>1, <1>3 DEF Wanted, Lengths
  <2>3. Len(path) + 1 = Len(stack)
    BY <1>1, <1>2, RunningDfs, PathToHop
  <2>4. /\ Frame.remaining \in Nat /\ Frame.remaining >= 1
        /\ Frame.remaining + Len(stack) = depth + 1
    BY <1>1, BoundAtTop
  <2>5. Len(path) \in Nat /\ depth \in Nat /\ Len(stack) \in Nat
    BY <1>1, <1>2, RunningDfs, BoundAtTop DEF IsDistance
  <2>6. Len(stack) = depth
    BY <1>1, <2>4, <2>5
  <2>7. QED
    BY <2>1, <2>2, <2>3, <2>5, <2>6
<1>4. QED
  BY <1>1, <1>2, <1>3, PassingKeepsSearch

LEMMA DescendingKeepsSearch ==
  ASSUME migrations \in Seq(Migration), PlannerInv, SearchInv, DfsDescends
  PROVE  SearchInv'
<1> DEFINE next == HopTo(migrations, NextHop)
           f == [node |-> next, todo |-> EdgesFrom(migrations, next), remaining |-> RemainingBelow]
           rest == Todo(stack, NextHop)
<1>1. /\ Searching /\ Frame.todo # {} /\ next # query.to
      /\ pc = "dfs_all" \/ Frame.remaining > 1
      /\ path' = Append(path, NextHop) /\ stack' = << f >> \o rest
      /\ UNCHANGED << migrations, query, pc, depth, results >>
  BY DEF DfsDescends, graphVars, bfsVars
<1>2. stack \in Seq(FramesOf(Hops(migrations))) /\ stack # << >> /\ Frame.remaining \in Nat
  BY <1>1, TopOfSearch DEF FramesOf
<1>3. f \in FramesOf(Hops(migrations)) /\ f.todo = EdgesFrom(migrations, next)
  <2>1. RemainingBelow \in Nat
    BY <1>1, <1>2 DEF RemainingBelow
  <2>2. next \in SchemaId
    BY <1>1, NextHopOfSearch
  <2>3. QED
    BY <2>1, <2>2 DEF FramesOf, EdgesFrom
<1>4. f.remaining = RemainingBelow
  OBVIOUS
<1> HIDE DEF f
<1>5. FoundInv'
  <2>1. DfsState(migrations, query.from, query.to, Lengths, << f >> \o rest,
                 Append(path, NextHop), results)
    BY <1>1, <1>3, RunningDfs, DfsGoesDown
  <2> HIDE DEF rest
  <2>2. QED
    BY <1>1, <2>1 DEF FoundInv, Lengths
<1>6. BoundInv'
  <2> SUFFICES ASSUME pc = "dfs_bounded" PROVE BoundSpent(<< f >> \o rest, depth)
    BY <1>1 DEF BoundInv
  <2>1. BoundSpent(rest, depth)
    BY <1>2, BoundPasses DEF SearchInv, BoundInv
  <2>2. rest \in Seq(FramesOf(Hops(migrations))) /\ Len(rest) = Len(stack)
    BY <1>2, TodoFrames
  <2> HIDE DEF rest
  <2>3. /\ Len(<< f >> \o rest) = Len(rest) + 1
        /\ \A k \in 1..Len(rest) : FrameAt(<< f >> \o rest, k) = FrameAt(rest, k)
        /\ FrameAt(<< f >> \o rest, Len(rest) + 1) = f
    BY <1>3, <2>2, PushFrame
  <2>4. f.remaining = Frame.remaining - 1 /\ f.remaining >= 1
    BY <1>1, <1>2, <1>4 DEF RemainingBelow
  <2>5. Frame.remaining + Len(stack) = depth + 1 /\ Len(stack) \in Nat
    BY BoundAtTop, TopOfSearch, <1>1
  <2>6. f.remaining + (Len(rest) + 1) = depth + 1
    BY <1>2, <2>2, <2>4, <2>5
  <2>7. ASSUME NEW k \in 1..Len(<< f >> \o rest)
        PROVE  /\ FrameAt(<< f >> \o rest, k).remaining + k = depth + 1
               /\ FrameAt(<< f >> \o rest, k).remaining >= 1
    <3>1. k \in 1..Len(rest) \/ k = Len(rest) + 1
      BY <2>2, <2>3, <2>5
    <3>2. CASE k \in 1..Len(rest)
      BY <2>1, <2>3, <3>2 DEF BoundSpent
    <3>3. CASE k = Len(rest) + 1
      BY <2>3, <2>4, <2>6, <3>3
    <3>4. QED
      BY <3>1, <3>2, <3>3
  <2>8. QED
    BY <2>7 DEF BoundSpent
<1>7. QED
  BY <1>1, <1>5, <1>6 DEF SearchInv, BfsInv, DistanceInv, ChoiceInv, Searching

LEMMA BacktrackingKeepsSearch ==
  ASSUME PlannerInv, SearchInv, DfsBacktracks
  PROVE  SearchInv'
<1>1. /\ Searching /\ Frame.todo = {} /\ Len(stack) > 1
      /\ path' = SubSeq(path, 1, Len(path) - 1) /\ stack' = Tail(stack)
      /\ UNCHANGED << migrations, query, pc, depth, results >>
  BY DEF DfsBacktracks, graphVars, bfsVars
<1>2. /\ SearchState(migrations, stack, path, visited, query.from)
      /\ stack \in Seq(FramesOf(Hops(migrations)))
      /\ FrameAt(stack, Len(stack)).todo = {} /\ Len(stack) \in Nat
  BY <1>1, TopOfSearch
<1>3. FoundInv'
  <2>1. DfsState(migrations, query.from, query.to, Lengths, stack', path', results)
    BY <1>1, <1>2, DfsGoesUp DEF SearchInv, FoundInv
  <2>2. QED
    BY <1>1, <2>1 DEF FoundInv, Lengths
<1>4. BoundInv'
  <2>1. /\ Len(Tail(stack)) = Len(stack) - 1
        /\ \A k \in 1..(Len(stack) - 1) : FrameAt(Tail(stack), k) = FrameAt(stack, k)
    BY <1>1, <1>2, PopFrame
  <2>2. \A k \in 1..(Len(stack) - 1) : k \in 1..Len(stack)
    BY <1>2
  <2>3. BoundSpent(stack, depth) => BoundSpent(Tail(stack), depth)
    BY <2>1, <2>2 DEF BoundSpent
  <2>4. QED
    BY <1>1, <2>3 DEF SearchInv, BoundInv
<1>5. QED
  BY <1>1, <1>3, <1>4 DEF SearchInv, BfsInv, DistanceInv, ChoiceInv, Searching

LEMMA BoundedReturnKeepsSearch ==
  ASSUME PlannerInv, SearchInv, DfsBoundedReturns
  PROVE  SearchInv'
<1>1. /\ pc = "dfs_bounded" /\ pc' = "choose" /\ Frame.todo = {} /\ Len(stack) = 1
      /\ UNCHANGED << migrations, query, depth, results >>
  BY DEF DfsBoundedReturns, graphVars, bfsVars
<1>2. /\ DfsState(migrations, query.from, query.to, {depth}, stack, path, results)
      /\ FrameAt(stack, Len(stack)).todo = {}
  BY <1>1, TopOfSearch DEF SearchInv, FoundInv, Searching, Lengths
<1>3. Trivial(query.from, query.to) = {}
  BY <1>1 DEF Trivial, PlannerInv, SearchShape
<1>4. \A p : p \in results <=> Wanted(migrations, query.from, query.to, {depth}, p)
  BY <1>1, <1>2, <1>3, DfsEnds
<1>5. ChoiceInv' /\ DistanceInv'
  BY <1>1, <1>4 DEF ChoiceInv, DistanceInv, SearchInv
<1>6. QED
  BY <1>1, <1>5 DEF SearchInv, BfsInv, BoundInv, FoundInv, Searching

LEMMA StutterKeepsSearch ==
  ASSUME SearchInv, UNCHANGED vars
  PROVE  SearchInv'
BY DEF vars, graphVars, searchVars, bfsVars, dfsVars, SearchInv, BfsInv, DistanceInv, BoundInv,
   FoundInv, Lengths, ChoiceInv, Searching

LEMMA StepKeepsSearch ==
  ASSUME migrations \in Seq(Migration), PlannerInv, SearchInv, [PlannerNext]_vars
  PROVE  SearchInv'
<1>1. CASE RegisterWhenIdle \/ PlanNothing \/ BfsFails \/ DfsAllReturns \/ PlanChooses \/ Release
  <2>1. pc' \in {"idle", "answered"}
    BY <1>1 DEF RegisterWhenIdle, PlanNothing, BfsFails, DfsAllReturns, PlanChooses, Release,
                Answer
  <2>2. QED
    BY <2>1, NoSearchNoClaim
<1>2. CASE \E from, to \in SchemaId : AskPlan(from, to) \/ AskAvailablePaths(from, to)
  BY <1>2, AskPlanKeepsSearch, AskPathsKeepsSearch
<1>3. CASE \E node \in SchemaId : BfsFinds(node) \/ BfsExpands(node)
  BY <1>3, BfsFindsKeepsSearch, BfsExpandsKeepsSearch
<1>4. CASE BfsNextLevel
  BY <1>4, BfsNextLevelKeepsSearch
<1>5. CASE DfsSkips
  BY <1>5, SkippingKeepsSearch
<1>6. CASE DfsReaches
  BY <1>6, ReachingKeepsSearch
<1>7. CASE DfsDescends
  BY <1>7, DescendingKeepsSearch
<1>8. CASE DfsPrunes
  BY <1>8, PruningKeepsSearch
<1>9. CASE DfsBacktracks
  BY <1>9, BacktrackingKeepsSearch
<1>10. CASE DfsBoundedReturns
  BY <1>10, BoundedReturnKeepsSearch
<1>11. CASE UNCHANGED vars
  BY <1>11, StutterKeepsSearch
<1>12. QED
  BY <1>1, <1>2, <1>3, <1>4, <1>5, <1>6, <1>7, <1>8, <1>9, <1>10, <1>11
     DEF PlannerNext, SearchStep

LEMMA SearchInvHolds == PlannerSpec => [](TypeOK /\ PlannerInv /\ SearchInv)
<1>1. PlannerInit => SearchInv
  BY DEF PlannerInit, SearchInv, BfsInv, DistanceInv, BoundInv, FoundInv, ChoiceInv, Searching
<1>2. TypeOK /\ PlannerInv /\ SearchInv /\ [PlannerNext]_vars => SearchInv'
  BY StepKeepsSearch DEF TypeOK
<1>3. QED
  BY <1>1, <1>2, RegistryTyped, PlannerInvHolds, PTL DEF PlannerSpec

-----------------------------------------------------------------------------
(* The searches find what they are to find. *)

(* bfs_shortest_length hands dfs_bounded the length of a shortest simple   *)
(* path, in whatever order it expands a level (graph.rs:191-212).          *)
THEOREM BfsLengthIsShortest == PlannerSpec => []BfsFindsShortestLength
<1>1. TypeOK /\ PlannerInv /\ SearchInv => BfsFindsShortestLength
  <2> SUFFICES ASSUME TypeOK, PlannerInv, SearchInv, pc = "dfs_bounded"
               PROVE  BfsFindsShortestLength
    BY DEF BfsFindsShortestLength
  <2>1. query.from # query.to /\ IsDistance(migrations, query.from, query.to, depth)
    BY DEF PlannerInv, SearchShape, SearchInv, DistanceInv
  <2>2. migrations \in Seq(Migration)
    BY DEF TypeOK
  <2>3. QED
    BY <2>1, <2>2, ShortestSimplePaths DEF BfsFindsShortestLength
<1>2. QED
  BY <1>1, SearchInvHolds, PTL

(* The case dfs_bounded calls impossible is: it meets the target only when *)
(* one hop is left (graph.rs:232-234).                                     *)
THEOREM TargetOnlyAtFullDepth == PlannerSpec => []TargetMetOnlyAtFullDepth
<1>1. TypeOK /\ PlannerInv /\ SearchInv => TargetMetOnlyAtFullDepth
  BY TargetAtFullDepth DEF TargetMetOnlyAtFullDepth, TypeOK
<1>2. QED
  BY <1>1, SearchInvHolds, PTL

(* When plan() comes to choose there is a path to choose: its expect()     *)
(* cannot panic (graph.rs:284).                                            *)
THEOREM PlanHasCandidates == PlannerSpec => []SearchesAgree
<1>1. TypeOK /\ PlannerInv /\ SearchInv => SearchesAgree
  <2> SUFFICES ASSUME TypeOK, PlannerInv, SearchInv, pc = "choose" PROVE results # {}
    BY DEF SearchesAgree
  <2>1. query.from # query.to /\ IsDistance(migrations, query.from, query.to, depth)
    BY DEF PlannerInv, SearchShape, SearchInv, DistanceInv
  <2>2. migrations \in Seq(Migration)
    BY DEF TypeOK
  <2>3. /\ \E p \in SimplePaths(migrations, query.from, query.to) : Len(p) = depth
        /\ \A p \in SimplePaths(migrations, query.from, query.to) : depth <= Len(p)
    BY <2>1, <2>2, ShortestSimplePaths
  <2>4. PICK p \in SimplePaths(migrations, query.from, query.to) : Len(p) = depth
    BY <2>3
  <2>5. Wanted(migrations, query.from, query.to, {depth}, p)
    BY <2>2, <2>4, SimplePathsAreAll DEF Wanted
  <2>6. p \in results
    BY <2>5 DEF SearchInv, ChoiceInv
  <2>7. QED
    BY <2>6
<1>2. QED
  BY <1>1, SearchInvHolds, PTL

-----------------------------------------------------------------------------
(* PlanPromise has its own instance of the vocabulary; the two agree. *)

LEMMA PromisedCardinality == \A S : Promise!Cardinality(S) = Cardinality(S)
BY DEF Promise!Cardinality, Cardinality

LEMMA PromisedNodes == Promise!SchemaId = SchemaId
BY DEF Promise!SchemaId, SchemaId

LEMMA PromisedHops ==
  ASSUME NEW migs
  PROVE  /\ Promise!Hops(migs) = Hops(migs)
         /\ \A hop : /\ Promise!HopFrom(migs, hop) = HopFrom(migs, hop)
                     /\ Promise!HopTo(migs, hop) = HopTo(migs, hop)
<1>1. Promise!Hops(migs) = Hops(migs)
  BY DEF Promise!Hops, Hops, Promise!IsHop, IsHop
<1>2. ASSUME NEW hop
      PROVE  /\ Promise!HopFrom(migs, hop) = HopFrom(migs, hop)
             /\ Promise!HopTo(migs, hop) = HopTo(migs, hop)
  BY DEF Promise!HopFrom, HopFrom, Promise!HopTo, HopTo, Promise!PreSchema, PreSchema,
         Promise!PostSchema, PostSchema, Promise!NodeOf, NodeOf
<1>3. QED
  BY <1>1, <1>2

LEMMA PromisedWalks ==
  ASSUME NEW migs, NEW from, NEW n
  PROVE  Promise!WalksFrom(migs, from, n) = WalksFrom(migs, from, n)
BY Zenon DEF Promise!WalksFrom, WalksFrom, Promise!EdgesFrom, EdgesFrom, Promise!Hops, Hops,
   Promise!IsHop, IsHop, Promise!HopFrom, HopFrom, Promise!HopTo, HopTo,
   Promise!PreSchema, PreSchema, Promise!PostSchema, PostSchema, Promise!NodeOf, NodeOf

LEMMA PromisedSimplePaths ==
  ASSUME NEW migs, NEW from, NEW to
  PROVE  Promise!SimplePaths(migs, from, to) = SimplePaths(migs, from, to)
<1>1. ASSUME NEW p
      PROVE  Promise!IsSimplePath(migs, p, from, to) <=> IsSimplePath(migs, p, from, to)
  <2>1. Promise!IsWalk(migs, p, from, to) <=> IsWalk(migs, p, from, to)
    BY PromisedHops DEF Promise!IsWalk, IsWalk
  <2>2. QED
    BY <2>1, PromisedHops DEF Promise!IsSimplePath, IsSimplePath
<1>2. QED
  BY <1>1, PromisedCardinality, PromisedNodes, PromisedWalks DEF Promise!SimplePaths, SimplePaths

LEMMA PromisedBestPaths ==
  ASSUME NEW migs, NEW from, NEW to
  PROVE  Promise!BestPaths(migs, from, to) = BestPaths(migs, from, to)
<1>1. ASSUME NEW p PROVE Promise!ReverseCount(p) = ReverseCount(p)
  BY PromisedCardinality DEF Promise!ReverseCount, ReverseCount
<1>2. QED
  BY <1>1, PromisedSimplePaths DEF Promise!BestPaths, BestPaths

-----------------------------------------------------------------------------
(* The answers are the promised ones. *)

LEMMA ReverseCountIsNat ==
  ASSUME NEW migs, NEW p \in Seq(Hops(migs))
  PROVE  ReverseCount(p) \in Nat
<1>1. DOMAIN p = 1..Len(p) /\ Len(p) \in Nat
  OBVIOUS
<1>2. IsFiniteSet(1..Len(p))
  BY <1>1, FS_Interval
<1>3. { k \in DOMAIN p : p[k].reverse } \subseteq 1..Len(p)
  BY <1>1
<1>4. IsFiniteSet({ k \in DOMAIN p : p[k].reverse })
  BY <1>2, <1>3, FS_Subset
<1>5. QED
  BY <1>4, FS_CardinalityType DEF ReverseCount

(* Among candidates there is one with the fewest reverse hops. *)
LEMMA SomeHaveFewestReversals ==
  ASSUME NEW migs, NEW S, S \subseteq Seq(Hops(migs)), S # {}
  PROVE  { p \in S : \A q \in S : ReverseCount(p) <= ReverseCount(q) } # {}
<1> DEFINE counts == { ReverseCount(p) : p \in S }
<1>1. \A p \in S : ReverseCount(p) \in Nat
  BY ReverseCountIsNat
<1>2. counts \in SUBSET Nat /\ counts # {}
  BY <1>1
<1>3. PICK c \in counts : \A d \in counts : c <= d
  <2> HIDE DEF counts
  <2>1. QED
    BY <1>2, LeastNatural
<1>4. PICK p \in S : ReverseCount(p) = c
  BY <1>3
<1>5. \A q \in S : ReverseCount(p) <= ReverseCount(q)
  BY <1>3, <1>4
<1>6. QED
  BY <1>5

(* plan() chooses among all shortest simple paths. *)
LEMMA CandidatesAreShortest ==
  ASSUME NEW migs \in Seq(Migration), NEW from, NEW to, from # to, NEW n,
         IsDistance(migs, from, to, n),
         NEW found, \A p : p \in found <=> Wanted(migs, from, to, {n}, p)
  PROVE  { p \in found : \A q \in found : ReverseCount(p) <= ReverseCount(q) }
           = BestPaths(migs, from, to)
<1> DEFINE simple == SimplePaths(migs, from, to)
           shortest == { p \in simple : \A q \in simple : Len(p) <= Len(q) }
<1>1. /\ \E p \in simple : Len(p) = n
      /\ \A p \in simple : Len(p) \in Nat /\ n <= Len(p)
  BY ShortestSimplePaths
<1>2. n \in Nat
  BY DEF IsDistance
<1>3. \A p : p \in found <=> p \in simple /\ Len(p) = n
  BY SimplePathsAreAll DEF Wanted
<1> HIDE DEF simple
<1>4. \A p : p \in shortest <=> p \in simple /\ Len(p) = n
  BY <1>1, <1>2
<1>5. found = shortest
  BY <1>3, <1>4
<1>6. QED
  BY <1>5 DEF BestPaths, simple

LEMMA PlanNothingReplies ==
  ASSUME PlannerInv, PlanNothing
  PROVE  Promise!Reply
<1>1. /\ pc = "trivial" /\ query.op = "plan" /\ query.from = query.to
      /\ answer' = [kind |-> "plan", paths |-> {<< >>}]
      /\ UNCHANGED << migrations, query >>
  BY DEF PlanNothing, Answer, graphVars, PlannerInv, SearchShape
<1>2. query # Promise!NoQuery /\ answer = Promise!NoAnswer
  BY <1>1 DEF PlannerInv, PlannerTypeOK, NoQuery, NoAnswer
<1>3. answer' = Promise!PlanAnswer(query.from, query.to)
  BY <1>1 DEF Promise!PlanAnswer
<1>4. answer' # Promise!NoAnswer
  BY <1>1 DEF Promise!NoAnswer
<1>5. QED
  BY <1>1, <1>2, <1>3, <1>4 DEF Promise!Reply

LEMMA BfsFailsReplies ==
  ASSUME migrations \in Seq(Migration), PlannerInv, SearchInv, BfsFails
  PROVE  Promise!Reply
<1>1. /\ pc = "bfs" /\ frontier = {} /\ nextFrontier = {}
      /\ answer' = [kind |-> "missing"] /\ UNCHANGED << migrations, query >>
  BY DEF BfsFails, Answer, graphVars
<1>2. /\ query.op = "plan" /\ query.from # query.to /\ depth \in Nat
      /\ query # Promise!NoQuery /\ answer = Promise!NoAnswer
  BY <1>1, RunningBfs DEF NoQuery, NoAnswer
<1>3. BfsState(migrations, query.from, query.to, visited, {}, {}, depth)
  BY <1>1 DEF SearchInv, BfsInv
<1>4. \A p : ~IsWalk(migrations, p, query.from, query.to)
  BY <1>2, <1>3, BfsFindsNothing
<1>5. SimplePaths(migrations, query.from, query.to) = {}
  BY <1>4, SimplePathsAreAll DEF IsSimplePath
<1>6. Promise!BestPaths(migrations, query.from, query.to) = {}
  BY <1>5, PromisedBestPaths DEF BestPaths
<1>7. answer' = Promise!PlanAnswer(query.from, query.to)
  BY <1>1, <1>2, <1>6 DEF Promise!PlanAnswer
<1>8. answer' # Promise!NoAnswer
  BY <1>1 DEF Promise!NoAnswer
<1>9. QED
  BY <1>1, <1>2, <1>7, <1>8 DEF Promise!Reply

LEMMA DfsAllReplies ==
  ASSUME migrations \in Seq(Migration), PlannerInv, SearchInv, DfsAllReturns
  PROVE  Promise!Reply
<1>1. /\ pc = "dfs_all" /\ Frame.todo = {} /\ Len(stack) = 1
      /\ answer' = [kind |-> "paths", paths |-> results] /\ UNCHANGED << migrations, query >>
  BY DEF DfsAllReturns, Answer, graphVars
<1>2. /\ query.op = "available_paths"
      /\ query # Promise!NoQuery /\ answer = Promise!NoAnswer
  BY <1>1 DEF PlannerInv, PlannerTypeOK, SearchShape, NoQuery, NoAnswer
<1>3. /\ DfsState(migrations, query.from, query.to, Nat, stack, path, results)
      /\ FrameAt(stack, Len(stack)).todo = {}
  BY <1>1, TopOfSearch DEF SearchInv, FoundInv, Searching, Lengths
<1>4. \A p : p \in results <=> \/ Wanted(migrations, query.from, query.to, Nat, p)
                               \/ p \in Trivial(query.from, query.to)
  BY <1>1, <1>3, DfsEnds
<1>5. \A p : Wanted(migrations, query.from, query.to, Nat, p)
               <=> p \in SimplePaths(migrations, query.from, query.to)
  BY SimplePathsAreAll, SimplePathShape DEF Wanted
<1>6. results = SimplePaths(migrations, query.from, query.to) \cup Trivial(query.from, query.to)
  BY <1>4, <1>5
<1>7. answer' = Promise!PathsAnswer(query.from, query.to)
  BY <1>1, <1>6, PromisedSimplePaths DEF Promise!PathsAnswer, Trivial
<1>8. answer' # Promise!NoAnswer
  BY <1>1 DEF Promise!NoAnswer
<1>9. QED
  BY <1>1, <1>2, <1>7, <1>8 DEF Promise!Reply

LEMMA PlanChoosesReplies ==
  ASSUME migrations \in Seq(Migration), PlannerInv, SearchInv, PlanChooses
  PROVE  Promise!Reply
<1> DEFINE best == Promise!BestPaths(migrations, query.from, query.to)
<1>1. /\ pc = "choose" /\ results # {}
      /\ answer' = [ kind  |-> IF Cardinality(FewestReversals) = 1 THEN "plan" ELSE "ambiguous",
                     paths |-> FewestReversals ]
      /\ UNCHANGED << migrations, query >>
  BY DEF PlanChooses, Answer, graphVars
<1>2. /\ query.op = "plan" /\ query.from # query.to
      /\ query # Promise!NoQuery /\ answer = Promise!NoAnswer
      /\ results \subseteq Seq(Hops(migrations))
  BY <1>1 DEF PlannerInv, PlannerTypeOK, SearchShape, NoQuery, NoAnswer
<1>3. FewestReversals = best
  <2>1. /\ IsDistance(migrations, query.from, query.to, depth)
        /\ \A p : p \in results <=> Wanted(migrations, query.from, query.to, {depth}, p)
    BY <1>1 DEF SearchInv, DistanceInv, ChoiceInv
  <2>2. FewestReversals = BestPaths(migrations, query.from, query.to)
    BY <1>2, <2>1, CandidatesAreShortest DEF FewestReversals
  <2>3. QED
    BY <2>2, PromisedBestPaths
<1>4. FewestReversals # {}
  BY <1>1, <1>2, SomeHaveFewestReversals DEF FewestReversals
<1>5. Promise!Cardinality(best) = Cardinality(FewestReversals)
  BY <1>3, PromisedCardinality
<1>6. answer' = Promise!PlanAnswer(query.from, query.to)
  BY <1>1, <1>2, <1>3, <1>4, <1>5 DEF Promise!PlanAnswer
<1>7. answer' # Promise!NoAnswer
  BY <1>1 DEF Promise!NoAnswer
<1>8. QED
  BY <1>1, <1>2, <1>6, <1>7 DEF Promise!Reply

(* Each step of the planner is a step of the promise, or does not show. *)
LEMMA StepKeepsPromise ==
  ASSUME TypeOK, PlannerInv, SearchInv, [PlannerNext]_vars
  PROVE  [Promise!Next]_(Promise!promiseVars)
<1> USE DEF Promise!promiseVars
<1>1. migrations \in Seq(Migration)
  BY DEF TypeOK
<1>2. CASE RegisterWhenIdle
  <2>1. pc = "idle" /\ query = Promise!NoQuery /\ UNCHANGED << query, answer >>
    BY <1>2 DEF RegisterWhenIdle, PlannerInv, PlannerTypeOK, NoQuery
  <2>2. PICK m \in Offered : Register(m)
    BY <1>2 DEF RegisterWhenIdle
  <2>3. CASE RegisterAccepts(m)
    <3>1. m \in Migration /\ migrations' = Append(migrations, m)
      BY <2>3, OfferedAssumption DEF RegisterAccepts
    <3>2. Len(migrations') = Len(migrations) + 1
      BY <1>1, <3>1
    <3>3. SubSeq(migrations', 1, Len(migrations)) = migrations
      BY <1>1, <3>1
    <3>4. QED
      BY <2>1, <3>2, <3>3 DEF Promise!Next, Promise!Grow
  <2>4. CASE RegisterRejectsSource(m) \/ RegisterRejectsTarget(m)
    BY <2>1, <2>4 DEF RegisterRejectsSource, RegisterRejectsTarget
  <2>5. QED
    BY <2>2, <2>3, <2>4 DEF Register
<1>3. CASE \E from, to \in SchemaId : AskPlan(from, to) \/ AskAvailablePaths(from, to)
  <2>1. /\ pc = "idle" /\ query = Promise!NoQuery /\ UNCHANGED << migrations, answer >>
        /\ query' \in Promise!Query
    BY <1>3, PromisedNodes
       DEF AskPlan, AskAvailablePaths, graphVars, PlannerInv, PlannerTypeOK, NoQuery,
           Promise!Query
  <2>2. QED
    BY <2>1 DEF Promise!Next, Promise!Ask
<1>4. CASE PlanNothing \/ BfsFails \/ DfsAllReturns \/ PlanChooses
  BY <1>1, <1>4, PlanNothingReplies, BfsFailsReplies, DfsAllReplies, PlanChoosesReplies
     DEF Promise!Next
<1>5. CASE \/ \E node \in SchemaId : BfsFinds(node) \/ BfsExpands(node)
           \/ BfsNextLevel
           \/ DfsSkips \/ DfsReaches \/ DfsDescends \/ DfsPrunes \/ DfsBacktracks
           \/ DfsBoundedReturns
           \/ UNCHANGED vars
  <2>1. UNCHANGED << migrations, query, answer >>
    BY <1>5 DEF BfsFinds, BfsExpands, BfsNextLevel, DfsSkips, DfsReaches, DfsDescends, DfsPrunes,
       DfsBacktracks, DfsBoundedReturns, vars, graphVars
  <2>2. QED
    BY <2>1
<1>6. CASE Release
  <2>1. /\ answer # Promise!NoAnswer /\ query' = Promise!NoQuery /\ answer' = Promise!NoAnswer
        /\ UNCHANGED migrations
    BY <1>6 DEF Release, PlannerInv, PlannerTypeOK, graphVars, NoQuery, NoAnswer
  <2>2. QED
    BY <2>1 DEF Promise!Next, Promise!Release
<1>7. QED
  BY <1>2, <1>3, <1>4, <1>5, <1>6 DEF PlannerNext, SearchStep

(* plan() and available_paths(), search by search, implement what module   *)
(* PlanPromise says of them: every answer is the one computed from the     *)
(* simple paths of the registered migrations (graph.rs:130-296).           *)
THEOREM PlannerKeepsPromise == PlannerSpec => KeepsPromise
<1>1. PlannerInit => Promise!Init
  BY DEF PlannerInit, Init, Promise!Init, NoQuery, NoAnswer
<1>2. TypeOK /\ PlannerInv /\ SearchInv /\ [PlannerNext]_vars
        => [Promise!Next]_(Promise!promiseVars)
  BY StepKeepsPromise
<1>3. QED
  BY <1>1, <1>2, SearchInvHolds, PTL DEF PlannerSpec, KeepsPromise, Promise!Spec
=============================================================================
