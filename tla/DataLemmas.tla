----------------------------- MODULE DataLemmas -----------------------------
(***************************************************************************)
(* Facts that the proofs about schemas, documents and hashes share: least  *)
(* elements, sequences, streams read back from where they start, values by *)
(* their depth, and the levels of validate_type.                           *)
(***************************************************************************)
EXTENDS Validation, SequencesExt, FiniteSetTheorems, SequenceTheorems, WellFoundedInduction, TLAPS

-----------------------------------------------------------------------------
(* Numbers. *)

(* A set of naturals has a least element, for arguments by least           *)
(* counterexample.                                                         *)
LEMMA LeastOfNaturals ==
  ASSUME NEW T \in SUBSET Nat, T # {}
  PROVE  \E x \in T : \A y \in T : x <= y
<1>1. PICK x \in T : \A y \in T : ~(<< y, x >> \in OpToRel(<, Nat))
  BY NatLessThanWellFounded, WFMin
<1>2. ASSUME NEW y \in T PROVE x <= y
  <2>1. ~(y < x)
    BY <1>1 DEF OpToRel
  <2>2. QED
    BY <2>1
<1>3. QED
  BY <1>2

(* A bounded set of naturals has a greatest element. *)
LEMMA GreatestBelow ==
  ASSUME NEW n \in Nat, NEW T \in SUBSET (0..n), T # {}
  PROVE  \E x \in T : \A y \in T : y <= x
<1> DEFINE below == { n - y : y \in T }
<1>1. below \in SUBSET Nat /\ below # {}
  <2>1. ASSUME NEW y \in T PROVE n - y \in Nat
    <3>1. y \in 0..n
      OBVIOUS
    <3>2. QED
      BY <3>1
  <2>2. \A x \in below : x \in Nat
    BY <2>1
  <2>3. \E y : y \in T
    OBVIOUS
  <2>4. \E x : x \in below
    BY <2>3
  <2> HIDE DEF below
  <2>5. QED
    BY <2>2, <2>4
<1>2. PICK b \in below : \A y \in below : b <= y
  <2> HIDE DEF below
  <2>1. QED
    BY <1>1, LeastOfNaturals
<1>3. PICK x \in T : b = n - x
  BY <1>2
<1>4. ASSUME NEW y \in T PROVE y <= x
  <2>1. n - y \in below
    OBVIOUS
  <2>2. n - x <= n - y
    BY <1>2, <1>3, <2>1
  <2>3. x \in Int /\ y \in Int
    OBVIOUS
  <2>4. QED
    BY <2>2, <2>3
<1>5. QED
  BY <1>4

-----------------------------------------------------------------------------
(* Sequences. *)

(* A sequence over any set is one over its own elements. *)
LEMMA SequenceIs ==
  ASSUME NEW S, NEW x \in Seq(S)
  PROVE  IsSequence(x)
<1> DEFINE T == Range(x)
           n == Len(x)
<1>1. n \in Nat /\ DOMAIN x = 1..n /\ x \in [1..n -> S]
  BY LenProperties
<1>2. x = [ i \in 1..n |-> x[i] ] /\ \A i \in 1..n : x[i] \in T
  BY <1>1 DEF Range
<1> HIDE DEF T, n
<1>3. [ i \in 1..n |-> x[i] ] \in Seq(T)
  BY <1>1, <1>2
<1>4. QED
  BY <1>2, <1>3 DEF IsSequence, T

(* What being a sequence says about length, domain and elements. *)
LEMMA SequenceOf ==
  ASSUME NEW x, IsSequence(x)
  PROVE  /\ Len(x) \in Nat /\ DOMAIN x = 1..Len(x) /\ x \in Seq(Range(x))
         /\ \A i \in 1..Len(x) : x[i] \in Range(x)
BY LenProperties, ElementOfSeq DEF IsSequence

(* Two sequences are over one set. *)
LEMMA InCommon ==
  ASSUME NEW x, NEW y, IsSequence(x), IsSequence(y)
  PROVE  x \in Seq(Range(x) \cup Range(y)) /\ y \in Seq(Range(x) \cup Range(y))
<1> DEFINE R == Range(x)
           T == Range(y)
<1>1. x \in Seq(R) /\ y \in Seq(T)
  BY DEF IsSequence
<1> HIDE DEF R, T
<1>2. R \subseteq R \cup T /\ T \subseteq R \cup T
  OBVIOUS
<1>3. x \in Seq(R \cup T) /\ y \in Seq(R \cup T)
  BY <1>1, <1>2, SeqMonotonic
<1>4. QED
  BY <1>3 DEF R, T

(* Concatenation, without naming the set of elements. *)
LEMMA JoinIsSequence ==
  ASSUME NEW x, NEW y, IsSequence(x), IsSequence(y)
  PROVE  IsSequence(x \o y) /\ Len(x \o y) = Len(x) + Len(y)
<1> DEFINE S == Range(x) \cup Range(y)
<1>1. x \in Seq(S) /\ y \in Seq(S)
  BY InCommon
<1> HIDE DEF S
<1>2. x \o y \in Seq(S) /\ Len(x \o y) = Len(x) + Len(y)
  BY <1>1, ConcatProperties
<1>3. QED
  BY <1>2, SequenceIs

-----------------------------------------------------------------------------
(* Streams are read back from where they start: what is found at an offset *)
(* of a stream decides what was fed there.                                 *)

At(s, p, x) == \A i \in 1..Len(x) : s[p + i] = x[i]

(* Where a concatenation is found, its parts are found one after the       *)
(* other.                                                                  *)
LEMMA AtJoined ==
  ASSUME NEW x, NEW y, IsSequence(x), IsSequence(y), NEW s, NEW p \in Nat, At(s, p, x \o y)
  PROVE  At(s, p, x) /\ At(s, p + Len(x), y)
<1> DEFINE S == Range(x) \cup Range(y)
           m == Len(x)
           n == Len(y)
           t == x \o y
<1>1. x \in Seq(S) /\ y \in Seq(S)
  BY InCommon
<1> HIDE DEF S
<1>2. /\ m \in Nat /\ n \in Nat
      /\ Len(t) = m + n /\ \A i \in 1..m + n : t[i] = IF i <= m THEN x[i] ELSE y[i - m]
  BY <1>1, ConcatProperties, LenProperties
<1>3. \A i \in 1..m + n : s[p + i] = t[i]
  BY <1>2 DEF At
<1>0. m = Len(x) /\ n = Len(y)
  OBVIOUS
<1> HIDE DEF m, n, t
<1>4. ASSUME NEW i \in 1..m PROVE s[p + i] = x[i]
  <2>1. i \in 1..m + n /\ i <= m
    BY <1>2
  <2>2. QED
    BY <1>2, <1>3, <2>1
<1>5. ASSUME NEW i \in 1..n PROVE s[(p + m) + i] = y[i]
  <2>1. m + i \in 1..m + n /\ ~(m + i <= m) /\ (m + i) - m = i /\ p + (m + i) = (p + m) + i
    BY <1>2
  <2>2. s[p + (m + i)] = y[(m + i) - m]
    BY <1>2, <1>3, <2>1
  <2>3. QED
    BY <2>1, <2>2
<1>6. QED
  BY <1>0, <1>4, <1>5 DEF At

(* One number fed. *)
LEMMA OneToken ==
  ASSUME NEW e
  PROVE  IsSequence(<< e >>) /\ Len(<< e >>) = 1
<1>1. << e >> \in Seq({e}) /\ Len(<< e >>) = 1
  OBVIOUS
<1>2. QED
  BY <1>1, SequenceIs

(* Two numbers fed. *)
LEMMA TwoTokens ==
  ASSUME NEW e, NEW f
  PROVE  IsSequence(<< e, f >>) /\ Len(<< e, f >>) = 2
<1>1. << e, f >> \in Seq({e, f}) /\ Len(<< e, f >>) = 2
  OBVIOUS
<1>2. QED
  BY <1>1, SequenceIs

(* One number found. *)
LEMMA OneTokenAt ==
  ASSUME NEW e, NEW s, NEW p \in Nat, At(s, p, << e >>)
  PROVE  s[p + 1] = e
<1>1. Len(<< e >>) = 1 /\ << e >>[1] = e /\ 1 \in 1..1
  OBVIOUS
<1> DEFINE x == << e >>
<1>2. Len(x) = 1 /\ x[1] = e /\ At(s, p, x)
  BY <1>1
<1> HIDE DEF x
<1>3. QED
  BY <1>1, <1>2 DEF At

(* Two numbers found. *)
LEMMA TwoTokensAt ==
  ASSUME NEW e, NEW f, NEW s, NEW p \in Nat, At(s, p, << e, f >>)
  PROVE  s[p + 1] = e /\ s[p + 2] = f
<1>1. 1 \in 1..2 /\ 2 \in 1..2
  OBVIOUS
<1> DEFINE x == << e, f >>
<1>2. Len(x) = 2 /\ x[1] = e /\ x[2] = f /\ At(s, p, x)
  OBVIOUS
<1> HIDE DEF x
<1>3. QED
  BY <1>1, <1>2 DEF At

(* A stream is found at its start. *)
LEMMA AtItself ==
  ASSUME NEW x, IsSequence(x)
  PROVE  At(x, 0, x)
<1>1. \A i \in 1..Len(x) : 0 + i = i
  BY SequenceOf
<1>2. QED
  BY <1>1 DEF At

-----------------------------------------------------------------------------
(* Flattened sequences, front to front. *)

FrontBy(i, q, before) == IF i = 1 THEN q[i] ELSE before \o q[i]

AreFronts(f, q, n) == f = [ i \in 1..n |-> FrontBy(i, q, f[i - 1]) ]

(* The recursion in FlattenSeq has a solution of every length. *)
LEMMA FrontsExist ==
  ASSUME NEW q, NEW length \in Nat
  PROVE  \E f : AreFronts(f, q, length)
<1> DEFINE without == { n \in Nat : ~\E f : AreFronts(f, q, n) }
<1>1. SUFFICES ASSUME without # {} PROVE FALSE
  BY <1>1
<1>2. PICK n \in without : \A m \in without : n <= m
  <2>1. without \in SUBSET Nat
    OBVIOUS
  <2> HIDE DEF without
  <2>2. QED
    BY <1>1, <2>1, LeastOfNaturals
<1>3. CASE n = 0
  <2> DEFINE f == [ i \in 1..0 |-> 0 ]
  <2>1. f = [ i \in 1..0 |-> FrontBy(i, q, f[i - 1]) ]
    OBVIOUS
  <2>2. AreFronts(f, q, n)
    BY <1>3, <2>1 DEF AreFronts
  <2>3. QED
    BY <2>2
<1>4. CASE n # 0
  <2>1. n - 1 \in Nat /\ n - 1 \notin without
    BY <1>2, <1>4
  <2>2. PICK f : AreFronts(f, q, n - 1)
    BY <2>1
  <2> DEFINE longer == [ i \in 1..n |-> IF i = n THEN FrontBy(n, q, f[n - 1]) ELSE f[i] ]
  <2>3. ASSUME NEW i \in 1..n PROVE longer[i] = FrontBy(i, q, longer[i - 1])
    <3>1. CASE i = n /\ n = 1
      BY <3>1 DEF FrontBy
    <3>2. CASE i = n /\ n # 1
      <4>1. n - 1 \in 1..n /\ n - 1 # n
        BY <1>4, <3>2
      <4>2. longer[n - 1] = f[n - 1]
        BY <4>1
      <4>3. QED
        BY <3>2, <4>2
    <3>3. CASE i # n /\ i = 1
      <4>1. i \in 1..n - 1
        BY <3>3
      <4>2. f[i] = FrontBy(i, q, f[i - 1]) /\ longer[i] = f[i]
        BY <2>2, <3>3, <4>1 DEF AreFronts
      <4>3. QED
        BY <3>3, <4>2 DEF FrontBy
    <3>4. CASE i # n /\ i # 1
      <4>1. i \in 1..n - 1 /\ i - 1 \in 1..n - 1 /\ i - 1 \in 1..n /\ i - 1 # n
        BY <3>4
      <4>2. f[i] = FrontBy(i, q, f[i - 1])
        BY <2>2, <4>1 DEF AreFronts
      <4>3. longer[i] = f[i] /\ longer[i - 1] = f[i - 1]
        BY <3>4, <4>1
      <4>4. QED
        BY <4>2, <4>3
    <3>5. QED
      BY <3>1, <3>2, <3>3, <3>4
  <2>4. AreFronts(longer, q, n)
    <3>1. DOMAIN longer = 1..n /\ longer = [ i \in 1..n |-> longer[i] ]
      OBVIOUS
    <3> HIDE DEF longer
    <3>2. QED
      BY <2>3, <3>1 DEF AreFronts
  <2>5. QED
    BY <2>4
<1>5. QED
  BY <1>3, <1>4

(* FlattenSeq returns the last front of a solution. *)
LEMMA FlattenIsLastFront ==
  ASSUME NEW q, Len(q) \in Nat
  PROVE  \E f : /\ AreFronts(f, q, Len(q))
                /\ Len(q) # 0 => FlattenSeq(q) = f[Len(q)]
                /\ Len(q) = 0 => FlattenSeq(q) = q
<1> DEFINE n == Len(q)
           g == CHOOSE f : f = [ i \in 1..n |-> IF i = 1 THEN q[i] ELSE f[i - 1] \o q[i] ]
<1>1. PICK f : AreFronts(f, q, n)
  BY FrontsExist
<1>2. \E h : h = [ i \in 1..n |-> IF i = 1 THEN q[i] ELSE h[i - 1] \o q[i] ]
  BY <1>1 DEF AreFronts, FrontBy
<1>3. AreFronts(g, q, n)
  BY <1>2 DEF AreFronts, FrontBy
<1>4. n # 0 => FlattenSeq(q) = g[n]
  BY DEF FlattenSeq
<1>5. n = 0 => FlattenSeq(q) = q
  BY DEF FlattenSeq
<1> HIDE DEF g
<1>6. QED
  BY <1>3, <1>4, <1>5

Pieced(q) == IsSequence(q) /\ \A i \in 1..Len(q) : IsSequence(q[i])

(* The first front, and how each other extends the one before it. *)
LEMMA FrontsOf ==
  ASSUME NEW q, NEW f, NEW n \in Nat, AreFronts(f, q, n)
  PROVE  /\ n > 0 => f[1] = q[1]
         /\ \A i \in 1..n : i # 1 => i - 1 \in 1..n /\ f[i] = f[i - 1] \o q[i]
<1>1. \A i \in 1..n : f[i] = FrontBy(i, q, f[i - 1])
  BY DEF AreFronts
<1>2. n > 0 => 1 \in 1..n
  OBVIOUS
<1>3. \A i \in 1..n : i # 1 => i - 1 \in 1..n
  OBVIOUS
<1>4. QED
  BY <1>1, <1>2, <1>3 DEF FrontBy

(* By least counterexample, every front is a sequence. *)
LEMMA FrontsAreSequences ==
  ASSUME NEW q, Pieced(q), NEW f, AreFronts(f, q, Len(q))
  PROVE  \A i \in 1..Len(q) : IsSequence(f[i])
<1> DEFINE n == Len(q)
           bad == { i \in 1..n : ~IsSequence(f[i]) }
<1>1. n \in Nat /\ \A i \in 1..n : IsSequence(q[i])
  BY SequenceOf DEF Pieced
<1>2. /\ n > 0 => f[1] = q[1]
      /\ \A i \in 1..n : i # 1 => i - 1 \in 1..n /\ f[i] = f[i - 1] \o q[i]
  BY <1>1, FrontsOf
<1> HIDE DEF n
<1>3. SUFFICES ASSUME bad # {} PROVE FALSE
  BY DEF n
<1>4. PICK i \in bad : \A j \in bad : i <= j
  <2>1. bad \in SUBSET Nat
    OBVIOUS
  <2> HIDE DEF bad
  <2>2. QED
    BY <1>3, <2>1, LeastOfNaturals
<1>5. CASE i = 1
  <2>1. n > 0 /\ 1 \in 1..n
    BY <1>1, <1>5
  <2>2. QED
    BY <1>1, <1>2, <1>5, <2>1
<1>6. CASE i # 1
  <2>1. i - 1 \in 1..n /\ f[i] = f[i - 1] \o q[i]
    BY <1>2, <1>6
  <2>2. IsSequence(f[i - 1])
    <3>1. ~(i <= i - 1)
      BY <1>1
    <3>2. QED
      BY <1>4, <2>1, <3>1
  <2>3. IsSequence(f[i - 1] \o q[i])
    BY <1>1, <2>2, JoinIsSequence
  <2>4. QED
    BY <2>1, <2>3
<1>7. QED
  BY <1>5, <1>6

(* A flattened sequence of sequences is a sequence. *)
LEMMA FlattenIsSequence ==
  ASSUME NEW q, Pieced(q)
  PROVE  IsSequence(FlattenSeq(q))
<1>1. Len(q) \in Nat /\ IsSequence(q)
  BY SequenceOf DEF Pieced
<1>2. PICK f : /\ AreFronts(f, q, Len(q))
               /\ Len(q) # 0 => FlattenSeq(q) = f[Len(q)]
               /\ Len(q) = 0 => FlattenSeq(q) = q
  BY <1>1, FlattenIsLastFront
<1>3. \A i \in 1..Len(q) : IsSequence(f[i])
  BY <1>2, FrontsAreSequences
<1>4. CASE Len(q) = 0
  BY <1>1, <1>2, <1>4
<1>5. CASE Len(q) # 0
  <2>1. Len(q) \in 1..Len(q)
    BY <1>1, <1>5
  <2>2. QED
    BY <1>2, <1>3, <1>5, <2>1
<1>6. QED
  BY <1>4, <1>5

(* Every front of what is found at an offset is found there. *)
LEMMA FrontsAreAt ==
  ASSUME NEW q, Pieced(q), NEW f, AreFronts(f, q, Len(q)), Len(q) # 0,
         NEW s, NEW p \in Nat, At(s, p, f[Len(q)])
  PROVE  \A i \in 1..Len(q) : At(s, p, f[i])
<1> DEFINE n == Len(q)
           bad == { i \in 1..n : ~At(s, p, f[i]) }
<1>1. n \in Nat /\ n # 0 /\ \A i \in 1..n : IsSequence(q[i]) /\ IsSequence(f[i])
  BY SequenceOf, FrontsAreSequences DEF Pieced
<1>2. \A i \in 1..n : i # 1 => i - 1 \in 1..n /\ f[i] = f[i - 1] \o q[i]
  BY <1>1, FrontsOf
<1>0. At(s, p, f[n])
  OBVIOUS
<1> HIDE DEF n
<1>3. SUFFICES ASSUME bad # {} PROVE FALSE
  BY DEF n
<1>4. PICK i \in bad : \A j \in bad : j <= i
  <2>1. bad \in SUBSET (0..n)
    OBVIOUS
  <2> HIDE DEF bad
  <2>2. QED
    BY <1>1, <1>3, <2>1, GreatestBelow
<1>5. i # n /\ i + 1 \in 1..n /\ i + 1 # 1 /\ (i + 1) - 1 = i /\ ~(i + 1 <= i) /\ i \in 1..n
  <2>1. i # n
    BY <1>0
  <2>2. QED
    BY <1>1, <2>1
<1>6. At(s, p, f[i + 1])
  BY <1>4, <1>5
<1>7. f[i + 1] = f[i] \o q[i + 1]
  BY <1>2, <1>5
<1>8. At(s, p, f[i])
  BY <1>1, <1>5, <1>6, <1>7, AtJoined
<1>9. QED
  BY <1>8

(* If what is found at an offset decides each element, it decides the      *)
(* elements one after the other.                                           *)
DecidedBy(s, q, r) ==
  \A i \in 1..Len(q) : \A o \in Nat :
    i \in 1..Len(r) /\ At(s, o, q[i]) /\ At(s, o, r[i]) => q[i] = r[i]

(* At the first difference the fronts before it are equal, so that both    *)
(* elements are found at the same offset.                                  *)
LEMMA FlattenIsRead ==
  ASSUME NEW q, NEW r, Pieced(q), Pieced(r), NEW s, NEW p \in Nat, DecidedBy(s, q, r),
         At(s, p, FlattenSeq(q)), At(s, p, FlattenSeq(r)),
         NEW i \in 1..Len(q), i \in 1..Len(r)
  PROVE  q[i] = r[i]
<1> DEFINE m == Len(q)
           n == Len(r)
<1>1. m \in Nat /\ n \in Nat /\ m # 0 /\ n # 0
  BY SequenceOf DEF Pieced
<1>2. PICK f : AreFronts(f, q, m) /\ FlattenSeq(q) = f[m]
  BY <1>1, FlattenIsLastFront
<1>3. PICK g : AreFronts(g, r, n) /\ FlattenSeq(r) = g[n]
  BY <1>1, FlattenIsLastFront
<1>4. /\ \A k \in 1..m : IsSequence(q[k]) /\ IsSequence(f[k]) /\ At(s, p, f[k])
      /\ \A k \in 1..n : IsSequence(r[k]) /\ IsSequence(g[k]) /\ At(s, p, g[k])
  <2>1. \A k \in 1..m : IsSequence(q[k]) /\ IsSequence(f[k])
    BY <1>2, FrontsAreSequences DEF Pieced
  <2>2. \A k \in 1..n : IsSequence(r[k]) /\ IsSequence(g[k])
    BY <1>3, FrontsAreSequences DEF Pieced
  <2>3. \A k \in 1..m : At(s, p, f[k])
    BY <1>1, <1>2, FrontsAreAt
  <2>4. \A k \in 1..n : At(s, p, g[k])
    BY <1>1, <1>3, FrontsAreAt
  <2>5. QED
    BY <2>1, <2>2, <2>3, <2>4
<1>5. /\ f[1] = q[1] /\ \A k \in 1..m : k # 1 => k - 1 \in 1..m /\ f[k] = f[k - 1] \o q[k]
      /\ g[1] = r[1] /\ \A k \in 1..n : k # 1 => k - 1 \in 1..n /\ g[k] = g[k - 1] \o r[k]
  <2>1. m > 0 /\ n > 0
    BY <1>1
  <2>2. AreFronts(f, q, m) /\ AreFronts(g, r, n) /\ m \in Nat /\ n \in Nat
    BY <1>1, <1>2, <1>3
  <2> HIDE DEF m, n
  <2>3. /\ m > 0 => f[1] = q[1]
        /\ \A k \in 1..m : k # 1 => k - 1 \in 1..m /\ f[k] = f[k - 1] \o q[k]
    BY <2>2, FrontsOf
  <2>4. /\ n > 0 => g[1] = r[1]
        /\ \A k \in 1..n : k # 1 => k - 1 \in 1..n /\ g[k] = g[k - 1] \o r[k]
    BY <2>2, FrontsOf
  <2>5. QED
    BY <2>1, <2>3, <2>4
<1>6. \A k \in 1..m : \A o \in Nat : k \in 1..n /\ At(s, o, q[k]) /\ At(s, o, r[k]) => q[k] = r[k]
  BY DEF DecidedBy
<1>7. i \in 1..m /\ i \in 1..n
  OBVIOUS
<1> HIDE DEF m, n
<1> DEFINE bad == { k \in 1..m : k \in 1..n /\ ~(q[k] = r[k] /\ f[k] = g[k]) }
<1>8. SUFFICES ASSUME bad # {} PROVE FALSE
  BY <1>7
<1>9. PICK k \in bad : \A j \in bad : k <= j
  <2>1. bad \in SUBSET Nat
    OBVIOUS
  <2> HIDE DEF bad
  <2>2. QED
    BY <1>8, <2>1, LeastOfNaturals
<1>10. k \in 1..m /\ k \in 1..n
  OBVIOUS
<1>11. CASE k = 1
  <2>1. At(s, p, q[k]) /\ At(s, p, r[k])
    BY <1>4, <1>5, <1>10, <1>11
  <2>2. q[k] = r[k]
    BY <1>6, <1>10, <2>1
  <2>3. QED
    BY <1>5, <1>11, <2>2
<1>12. CASE k # 1
  <2>1. /\ k - 1 \in 1..m /\ f[k] = f[k - 1] \o q[k]
        /\ k - 1 \in 1..n /\ g[k] = g[k - 1] \o r[k]
    BY <1>5, <1>10, <1>12
  <2>2. ~(k <= k - 1)
    BY <1>10
  <2>3. f[k - 1] = g[k - 1]
    BY <1>9, <2>1, <2>2
  <2> DEFINE o == p + Len(f[k - 1])
             x == f[k - 1]
  <2>9. /\ IsSequence(x) /\ IsSequence(q[k]) /\ IsSequence(r[k])
        /\ At(s, p, x \o q[k]) /\ At(s, p, x \o r[k])
    BY <1>4, <1>10, <2>1, <2>3
  <2>10. o = p + Len(x)
    OBVIOUS
  <2> HIDE DEF o, x
  <2>4. o \in Nat
    <3>1. Len(x) \in Nat
      BY <2>9, SequenceOf
    <3>2. QED
      BY <2>10, <3>1
  <2>5. At(s, o, q[k])
    BY <2>9, <2>10, AtJoined
  <2>6. At(s, o, r[k])
    BY <2>9, <2>10, AtJoined
  <2>7. q[k] = r[k]
    BY <1>6, <1>10, <2>4, <2>5, <2>6
  <2>8. QED
    BY <2>1, <2>3, <2>7
<1>13. QED
  BY <1>11, <1>12

(* A function from 1..n to sequences is a sequence of sequences. *)
LEMMA PiecedOf ==
  ASSUME NEW q, NEW n \in Nat, q = [ i \in 1..n |-> q[i] ], \A i \in 1..n : IsSequence(q[i])
  PROVE  Pieced(q) /\ Len(q) = n
<1> DEFINE T == { q[i] : i \in 1..n }
<1>1. \A i \in 1..n : q[i] \in T
  OBVIOUS
<1> HIDE DEF T
<1>2. [ i \in 1..n |-> q[i] ] \in Seq(T) /\ Len([ i \in 1..n |-> q[i] ]) = n
  BY <1>1
<1>3. q \in Seq(T) /\ Len(q) = n
  BY <1>2
<1>4. QED
  BY <1>3, SequenceIs DEF Pieced

-----------------------------------------------------------------------------
(* Values by their depth. *)

(* One step of AtDepth, and all of them. *)
DeeperBy(k, v, shallower) ==
  IF k = 0 THEN {v} ELSE UNION { Children(w) : w \in shallower }

AreDepths(l, v, depth) == l = [k \in 0..depth |-> DeeperBy(k, v, l[k - 1])]

LEMMA DepthsExist ==
  ASSUME NEW v, NEW depth \in Nat
  PROVE  \E l : AreDepths(l, v, depth)
<1> DEFINE without == { n \in Nat : ~\E l : AreDepths(l, v, n) }
<1>1. SUFFICES ASSUME without # {} PROVE FALSE
  BY <1>1
<1>2. PICK n \in without : \A m \in without : n <= m
  <2>1. without \in SUBSET Nat
    OBVIOUS
  <2> HIDE DEF without
  <2>2. QED
    BY <1>1, <2>1, LeastOfNaturals
<1>3. CASE n = 0
  <2> DEFINE l == [k \in 0..0 |-> {v}]
  <2>1. l = [k \in 0..0 |-> DeeperBy(k, v, l[k - 1])]
    BY DEF DeeperBy
  <2>2. AreDepths(l, v, n)
    BY <1>3, <2>1 DEF AreDepths
  <2>3. QED
    BY <2>2
<1>4. CASE n # 0
  <2>1. n - 1 \in Nat /\ n - 1 \notin without
    BY <1>2, <1>4
  <2>2. PICK l : AreDepths(l, v, n - 1)
    BY <2>1
  <2> DEFINE longer == [k \in 0..n |-> IF k = n THEN DeeperBy(n, v, l[n - 1]) ELSE l[k]]
  <2>3. ASSUME NEW k \in 0..n PROVE longer[k] = DeeperBy(k, v, longer[k - 1])
    <3>1. CASE k = n
      BY <1>4, <3>1
    <3>2. CASE k # n /\ k # 0
      <4>1. k \in 0..n - 1 /\ k - 1 \in 0..n - 1
        BY <3>2
      <4>2. l[k] = DeeperBy(k, v, l[k - 1])
        BY <2>2, <4>1 DEF AreDepths
      <4>3. longer[k] = l[k] /\ longer[k - 1] = l[k - 1]
        BY <3>2, <4>1
      <4>4. QED
        BY <4>2, <4>3
    <3>3. CASE k # n /\ k = 0
      <4>1. k \in 0..n - 1
        BY <3>3
      <4>2. l[k] = DeeperBy(k, v, l[k - 1]) /\ longer[k] = l[k]
        BY <2>2, <3>3, <4>1 DEF AreDepths
      <4>3. QED
        BY <3>3, <4>2 DEF DeeperBy
    <3>4. QED
      BY <3>1, <3>2, <3>3
  <2>4. AreDepths(longer, v, n)
    <3>1. DOMAIN longer = 0..n /\ longer = [k \in 0..n |-> longer[k]]
      OBVIOUS
    <3> HIDE DEF longer
    <3>2. QED
      BY <2>3, <3>1 DEF AreDepths
  <2>5. QED
    BY <2>4
<1>5. QED
  BY <1>3, <1>4

LEMMA DepthsAgree ==
  ASSUME NEW v, NEW m \in Nat, NEW n \in Nat, m <= n,
         NEW l, AreDepths(l, v, m), NEW r, AreDepths(r, v, n)
  PROVE  \A k \in 0..m : l[k] = r[k]
<1> DEFINE apart == { k \in 0..m : l[k] # r[k] }
<1>1. SUFFICES ASSUME apart # {} PROVE FALSE
  BY <1>1
<1>2. PICK k \in apart : \A j \in apart : k <= j
  <2>1. apart \in SUBSET Nat
    OBVIOUS
  <2> HIDE DEF apart
  <2>2. QED
    BY <1>1, <2>1, LeastOfNaturals
<1>3. l[k] = DeeperBy(k, v, l[k - 1]) /\ r[k] = DeeperBy(k, v, r[k - 1])
  BY DEF AreDepths
<1>4. CASE k = 0
  BY <1>3, <1>4 DEF DeeperBy
<1>5. CASE k # 0
  <2>1. k - 1 \in 0..m /\ k - 1 \notin apart
    BY <1>2, <1>5
  <2>2. l[k - 1] = r[k - 1]
    BY <2>1
  <2>3. QED
    BY <1>3, <2>2
<1>6. QED
  BY <1>4, <1>5

(* AtDepth, step by step. *)
LEMMA AtDepthSteps ==
  ASSUME NEW v, NEW k \in Nat
  PROVE  /\ AtDepth(v, 0) = {v}
         /\ AtDepth(v, k + 1) = UNION { Children(w) : w \in AtDepth(v, k) }
<1> DEFINE of(n) == CHOOSE l : AreDepths(l, v, n)
<1>1. \A n \in Nat : AreDepths(of(n), v, n)
  BY DepthsExist
<1>2. \A n \in Nat : AtDepth(v, n) = of(n)[n]
  BY DEF AtDepth, AreDepths, DeeperBy
<1> HIDE DEF of
<1>3. of(0)[0] = {v}
  BY <1>1 DEF AreDepths, DeeperBy
<1>4. of(k + 1)[k + 1] = UNION { Children(w) : w \in of(k + 1)[k] }
  <2>1. k + 1 \in Nat /\ k + 1 \in 0..k + 1 /\ k + 1 # 0 /\ (k + 1) - 1 = k
    OBVIOUS
  <2>2. AreDepths(of(k + 1), v, k + 1)
    BY <1>1, <2>1
  <2>3. of(k + 1)[k + 1] = DeeperBy(k + 1, v, of(k + 1)[(k + 1) - 1])
    BY <2>1, <2>2 DEF AreDepths
  <2>4. QED
    BY <2>1, <2>3 DEF DeeperBy
<1>5. of(k)[k] = of(k + 1)[k]
  <2>1. AreDepths(of(k), v, k) /\ AreDepths(of(k + 1), v, k + 1) /\ k <= k + 1 /\ k + 1 \in Nat
    BY <1>1
  <2>2. k \in 0..k
    OBVIOUS
  <2>3. QED
    BY <2>1, <2>2, DepthsAgree
<1>6. QED
  BY <1>2, <1>3, <1>4, <1>5

-----------------------------------------------------------------------------
(* The levels of validate_type, down a chain of constructors. *)

FitsAt(constructors, k, node) == KindFits(constructors[k], node.value)

ElementsOf(node) ==
  { [path |-> Extended(node.path, e.at), value |-> e.value] : e \in Elements(node.value) }

LowerLevel(constructors, k, v, path, upper) ==
  IF k = 1 THEN {[path |-> path, value |-> v]}
  ELSE UNION { ElementsOf(node) : node \in { m \in upper : FitsAt(constructors, k - 1, m) } }

AreLevels(l, constructors, n, v, path) ==
  l = [k \in 1..n |-> LowerLevel(constructors, k, v, path, l[k - 1])]

LEMMA LevelsExist ==
  ASSUME NEW constructors, NEW v, NEW path, NEW length \in Nat
  PROVE  \E l : AreLevels(l, constructors, length, v, path)
<1> DEFINE without == { n \in Nat : ~\E l : AreLevels(l, constructors, n, v, path) }
<1>1. SUFFICES ASSUME without # {} PROVE FALSE
  BY <1>1
<1>2. PICK n \in without : \A m \in without : n <= m
  <2>1. without \in SUBSET Nat
    OBVIOUS
  <2> HIDE DEF without
  <2>2. QED
    BY <1>1, <2>1, LeastOfNaturals
<1>3. CASE n = 0
  <2> DEFINE l == [k \in 1..0 |-> {}]
  <2>1. l = [k \in 1..0 |-> LowerLevel(constructors, k, v, path, l[k - 1])]
    OBVIOUS
  <2>2. AreLevels(l, constructors, n, v, path)
    BY <1>3, <2>1 DEF AreLevels
  <2>3. QED
    BY <2>2
<1>4. CASE n # 0
  <2>1. n - 1 \in Nat /\ n - 1 \notin without
    BY <1>2, <1>4
  <2>2. PICK l : AreLevels(l, constructors, n - 1, v, path)
    BY <2>1
  <2> DEFINE longer == [k \in 1..n |-> IF k = n THEN LowerLevel(constructors, n, v, path, l[n - 1])
                                                 ELSE l[k]]
  <2>3. ASSUME NEW k \in 1..n
        PROVE  longer[k] = LowerLevel(constructors, k, v, path, longer[k - 1])
    <3>1. CASE k = 1
      <4>1. longer[k] = {[path |-> path, value |-> v]}
        BY <2>2, <3>1 DEF AreLevels, LowerLevel
      <4>2. QED
        BY <3>1, <4>1 DEF LowerLevel
    <3>2. CASE k # 1 /\ k = n
      <4>1. k - 1 \in 1..n /\ k - 1 # n
        BY <3>2
      <4>2. longer[k - 1] = l[n - 1]
        BY <3>2, <4>1
      <4>3. longer[k] = LowerLevel(constructors, n, v, path, l[n - 1])
        BY <3>2
      <4>4. QED
        BY <3>2, <4>2, <4>3
    <3>3. CASE k # 1 /\ k # n
      <4>1. k \in 1..n - 1 /\ k - 1 \in 1..n - 1
        BY <3>3
      <4>2. l[k] = LowerLevel(constructors, k, v, path, l[k - 1])
        BY <2>2, <4>1 DEF AreLevels
      <4>3. longer[k] = l[k] /\ longer[k - 1] = l[k - 1]
        BY <3>3, <4>1
      <4>4. QED
        BY <4>2, <4>3
    <3>4. QED
      BY <3>1, <3>2, <3>3
  <2>4. AreLevels(longer, constructors, n, v, path)
    <3>1. DOMAIN longer = 1..n /\ longer = [k \in 1..n |-> longer[k]]
      OBVIOUS
    <3> HIDE DEF longer
    <3>2. QED
      BY <2>3, <3>1 DEF AreLevels
  <2>5. QED
    BY <2>4
<1>5. QED
  BY <1>3, <1>4

(* The type issues of a value are its values of the wrong kind, level by   *)
(* level.                                                                  *)
LEMMA TypeIssuesByLevel ==
  ASSUME NEW ty, Len(ty) \in Nat, DOMAIN ty = 1..Len(ty), NEW v, NEW path
  PROVE  \E l :
           /\ AreLevels(l, [ k \in DOMAIN ty |-> ty[k].of ], Len(ty), v, path)
           /\ TypeIssues(ty, v, path) =
                UNION { { Issue(node.path, "type") :
                            node \in { m \in l[k] : ~KindFits(ty[k].of, m.value) } } :
                        k \in 1..Len(ty) }
<1> DEFINE cs == [ k \in DOMAIN ty |-> ty[k].of ]
           n == Len(ty)
           l == CHOOSE x : AreLevels(x, cs, n, v, path)
<1>1. n \in Nat /\ DOMAIN ty = 1..n /\ DOMAIN cs = 1..n
  OBVIOUS
<1>2. AreLevels(l, cs, n, v, path)
  <2> HIDE DEF cs, n
  <2>1. QED
    BY <1>1, LevelsExist
<1>3. ChainIssues(cs, v, path) =
        UNION { { Issue(node.path, "type") : node \in { m \in l[k] : ~FitsAt(cs, k, m) } } :
                k \in 1..n }
  <2> HIDE DEF cs, n
  <2>1. QED
    BY <1>1 DEF ChainIssues, AreLevels, LowerLevel, ElementsOf, FitsAt
<1>4. \A k \in 1..n : cs[k] = ty[k].of
  BY <1>1
<1>5. TypeIssues(ty, v, path) =
        UNION { { Issue(node.path, "type") :
                    node \in { m \in l[k] : ~KindFits(ty[k].of, m.value) } } : k \in 1..n }
  <2> DEFINE at(k) == { Issue(node.path, "type") : node \in { m \in l[k] : ~FitsAt(cs, k, m) } }
             by(k) == { Issue(node.path, "type") :
                          node \in { m \in l[k] : ~KindFits(ty[k].of, m.value) } }
  <2> HIDE DEF l, n
  <2>1. \A k \in 1..n : at(k) = by(k)
    BY <1>4 DEF FitsAt
  <2>2. TypeIssues(ty, v, path) = UNION { at(k) : k \in 1..n }
    BY <1>3 DEF TypeIssues
  <2> HIDE DEF at, by
  <2>3. TypeIssues(ty, v, path) = UNION { by(k) : k \in 1..n }
    BY <2>1, <2>2
  <2>4. QED
    BY <2>3 DEF by
<1> HIDE DEF l
<1>6. QED
  BY <1>2, <1>5
=============================================================================
