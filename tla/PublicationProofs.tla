------------------------- MODULE PublicationProofs -------------------------
(***************************************************************************)
(* That a contract's text is its identity, that the three copies of the    *)
(* grammar agree, that the hash of a schema is its structure, and that a   *)
(* schema of equal hash is compatible: for all words, texts, contracts and *)
(* fields, and any number of schemas published.                            *)
(*                                                                         *)
(* The inductive invariant Inv says how the store was filled and how the   *)
(* last answer was reached.  Above it everything is about sequences.  A    *)
(* printed contract is cut where it was joined, since its parts hold none  *)
(* of the separators that are looked for first.  A hashed schema is read   *)
(* back number by number: at any offset, what was fed decides what it was  *)
(* fed for, and so where the next part starts (the lemmas ...IsRead).      *)
(***************************************************************************)
EXTENDS Publication, DataLemmas

-----------------------------------------------------------------------------
(* Texts and where they are cut. *)

Characters == Words \cup Separators

(* The first and the last cut. *)
LEMMA CutsAreWithin ==
  ASSUME NEW S, NEW text \in Seq(S), NEW sep, Cuts(text, sep) # {}
  PROVE  /\ Min(Cuts(text, sep)) \in Cuts(text, sep) /\ Max(Cuts(text, sep)) \in Cuts(text, sep)
         /\ Cuts(text, sep) \subseteq 1..Len(text)
         /\ \A i \in Cuts(text, sep) : Min(Cuts(text, sep)) <= i /\ i <= Max(Cuts(text, sep))
<1> DEFINE cuts == Cuts(text, sep)
<1>1. cuts \subseteq 1..Len(text) /\ Len(text) \in Nat
  BY DEF Cuts
<1> HIDE DEF cuts
<1>2. cuts \in SUBSET Nat /\ cuts \in SUBSET (0..Len(text)) /\ cuts # {}
  BY <1>1 DEF cuts
<1>3. \E x \in cuts : \A y \in cuts : x <= y
  BY <1>2, LeastOfNaturals
<1>4. \E x \in cuts : \A y \in cuts : y <= x
  BY <1>1, <1>2, GreatestBelow
<1>5. \E x \in cuts : \A y \in cuts : x >= y
  BY <1>2, <1>4
<1>6. Min(cuts) \in cuts /\ \A y \in cuts : Min(cuts) <= y
  BY <1>3 DEF Min
<1>7. Max(cuts) \in cuts /\ \A y \in cuts : Max(cuts) >= y
  BY <1>5 DEF Max
<1>8. QED
  BY <1>1, <1>2, <1>6, <1>7 DEF cuts

(* Any stretch of a text is a text, the empty one too. *)
LEMMA PartOfText ==
  ASSUME NEW S, NEW text \in Seq(S), NEW i \in Int, NEW j \in Int, i >= 1, j <= Len(text)
  PROVE  SubSeq(text, i, j) \in Seq(S)
<1>1. \A k \in i..j : text[k] \in S
  <2>1. Len(text) \in Nat /\ text \in [1..Len(text) -> S]
    BY LenProperties
  <2>2. QED
    BY <2>1
<1>2. QED
  BY <1>1, SubSeqProperties

(* Before and after a cut. *)
LEMMA AroundACut ==
  ASSUME NEW S, NEW text \in Seq(S), NEW cut \in 1..Len(text)
  PROVE  UpTo(text, cut) \in Seq(S) /\ Beyond(text, cut) \in Seq(S)
<1>1. Len(text) \in Nat
  OBVIOUS
<1>2. cut \in Int /\ cut - 1 \in Int /\ cut - 1 <= Len(text) /\ cut + 1 \in Int /\ cut + 1 >= 1
  BY <1>1
<1>3. UpTo(text, cut) \in Seq(S)
  BY <1>2, PartOfText DEF UpTo
<1>4. Beyond(text, cut) \in Seq(S)
  BY <1>1, <1>2, PartOfText DEF Beyond
<1>5. QED
  BY <1>3, <1>4

(* Whatever is read as a number is a u32. *)
LEMMA U32Type ==
  ASSUME NEW text, IsU32(text)
  PROVE  U32(text) \in 0..MaxU32
<1>1. PICK w \in DOMAIN ValueOf : text \in {<< w >>, << "+", w >>} /\ ValueOf[w] <= MaxU32
  BY DEF IsU32
<1>2. text[Len(text)] = w
  <2>1. CASE text = << w >>
    <3>1. Len(text) = 1
      BY <2>1
    <3>2. QED
      BY <2>1, <3>1
  <2>2. CASE text = << "+", w >>
    <3>1. Len(text) = 2
      BY <2>2
    <3>2. QED
      BY <2>2, <3>1
  <2>3. QED
    BY <1>1, <2>1, <2>2
<1>3. ValueOf[w] \in Nat /\ MaxU32 \in Nat
  BY DigitsAssumption
<1>4. QED
  BY <1>1, <1>2, <1>3 DEF U32

(* Display of u32 writes what parse::<u32> reads. *)
LEMMA DecimalIsRead ==
  ASSUME NEW n \in 0..MaxU32
  PROVE  /\ Decimal[n] \in Words /\ Decimal[n] \in Characters
         /\ IsU32(<< Decimal[n] >>) /\ U32(<< Decimal[n] >>) = n
<1>1. Decimal[n] \in DOMAIN ValueOf /\ ValueOf[Decimal[n]] = n /\ n <= MaxU32
  BY DigitsAssumption
<1>2. Decimal[n] \in Words
  BY <1>1, DigitsAssumption
<1>3. QED
  BY <1>1, <1>2 DEF IsU32, U32, Characters

-----------------------------------------------------------------------------
(* What a contract that was not refused looks like. *)

GoodContract(c) ==
  /\ c = ContractOf(c.namespace, c.name, c.version, c.revision)
  /\ c.namespace \in Seq(Characters) /\ c.namespace # << >>
  /\ \A piece \in Pieces(c.namespace, ".") : IsSegment(piece)
  /\ c.name \in Seq(Characters) /\ IsSegment(c.name)
  /\ c.version \in Seq(0..MaxU32) /\ Len(c.version) = 3
  /\ c.revision \in 0..MaxU32

(* Contract::new refuses or returns a good contract. *)
LEMMA NewIsGood ==
  ASSUME NEW namespace \in Seq(Characters), NEW name \in Seq(Characters),
         NEW version \in Seq(0..MaxU32), Len(version) = 3, NEW revision \in 0..MaxU32,
         NewContract(namespace, name, version, revision) # NoContract
  PROVE  GoodContract(NewContract(namespace, name, version, revision))
<1> DEFINE c == ContractOf(namespace, name, version, revision)
<1>1. /\ NewContract(namespace, name, version, revision) = c
      /\ namespace # << >> /\ IsSegment(name)
      /\ \A piece \in Pieces(namespace, ".") : IsSegment(piece)
  BY DEF NewContract
<1>2. /\ c.namespace = namespace /\ c.name = name /\ c.version = version /\ c.revision = revision
  BY DEF ContractOf
<1> HIDE DEF c
<1>3. GoodContract(c)
  BY <1>1, <1>2 DEF GoodContract, c
<1>4. QED
  BY <1>1, <1>3

(* Contract::parse refuses or returns a good contract, of any text. *)
LEMMA ParsedIsGood ==
  ASSUME NEW text \in Seq(Characters), Parse(text) # NoContract
  PROVE  GoodContract(Parse(text))
<1> DEFINE slashes  == Cuts(text, "/")
           path     == UpTo(text, Min(slashes))
           rest     == Beyond(text, Min(slashes))
           pluses   == Cuts(rest, "+")
           version  == IF pluses = {} THEN rest ELSE UpTo(rest, Min(pluses))
           revision == IF pluses = {} THEN << Decimal[0] >> ELSE Beyond(rest, Min(pluses))
           cut      == PathCut(path)
<1>1. /\ slashes # {} /\ Cuts(path, ".") # {} /\ IsVersion(version) /\ IsU32(revision)
      /\ Parse(text) = NewContract(UpTo(path, cut), Beyond(path, cut), VersionOf(version), U32(revision))
  BY DEF Parse
<1> HIDE DEF version, revision, pluses
<1>2. Min(slashes) \in 1..Len(text)
  BY <1>1, CutsAreWithin
<1> HIDE DEF slashes
<1>3. path \in Seq(Characters)
  BY <1>2, AroundACut
<1> HIDE DEF path
<1>4. cut \in 1..Len(path)
  BY <1>1, <1>3, CutsAreWithin DEF PathCut
<1> HIDE DEF cut
<1>5. UpTo(path, cut) \in Seq(Characters) /\ Beyond(path, cut) \in Seq(Characters)
  BY <1>3, <1>4, AroundACut
<1>6. U32(revision) \in 0..MaxU32
  BY <1>1, U32Type
<1>7. \A k \in 1..3 : U32(VersionParts(version)[k]) \in 0..MaxU32
  BY <1>1, U32Type DEF IsVersion
<1>8. VersionOf(version) \in Seq(0..MaxU32) /\ Len(VersionOf(version)) = 3
  BY <1>7 DEF VersionOf
<1>9. QED
  BY <1>1, <1>5, <1>6, <1>8, NewIsGood

(* However callers come by a contract, it is good. *)
LEMMA ContractsAreGood ==
  ASSUME NEW source \in Sources, ContractFrom[source] # NoContract
  PROVE  GoodContract(ContractFrom[source])
<1>1. CASE \E text \in Texts : source = [by |-> "parse", text |-> text]
  <2>1. PICK text \in Texts : source = [by |-> "parse", text |-> text]
    BY <1>1
  <2>2. ContractFrom[source] = Parse(text)
    BY <2>1 DEF ContractFrom
  <2>3. text \in Seq(Characters)
    BY TextsAssumption DEF Characters
  <2>4. QED
    BY <2>2, <2>3, ParsedIsGood
<1>2. CASE \E part \in Parts : source = [by |-> "new", part |-> part]
  <2>1. PICK part \in Parts : source = [by |-> "new", part |-> part]
    BY <1>2
  <2>2. ContractFrom[source] = NewContract(part.namespace, part.name, part.version, part.revision)
    BY <2>1 DEF ContractFrom
  <2>3. /\ part.namespace \in Seq(Characters) /\ part.name \in Seq(Characters)
        /\ part.version \in Seq(0..MaxU32) /\ Len(part.version) = 3 /\ part.revision \in 0..MaxU32
    BY PartsAssumption DEF Part, Characters
  <2>4. QED
    BY <2>2, <2>3, NewIsGood
<1>3. QED
  BY <1>1, <1>2 DEF Sources

-----------------------------------------------------------------------------
(* Pieces of a text, and GrammarsAgree. *)

Ends(text, separator) == {0, Len(text) + 1} \cup Cuts(text, separator)

(* A piece lies between two neighbouring ends. *)
LEMMA PiecesAreBetween ==
  ASSUME NEW text, NEW sep, NEW piece
  PROVE  piece \in Pieces(text, sep) <=>
           \E lo, hi \in Ends(text, sep) :
             /\ lo < hi /\ \A k \in Ends(text, sep) : k <= lo \/ hi <= k
             /\ piece = SubSeq(text, lo + 1, hi - 1)
<1> DEFINE E == Ends(text, sep)
           next(p) == p[1] < p[2] /\ \A k \in E : k <= p[1] \/ p[2] <= k
<1>1. piece \in Pieces(text, sep) <=>
        \E p \in E \X E : next(p) /\ piece = SubSeq(text, p[1] + 1, p[2] - 1)
  BY DEF Pieces, Ends
<1> HIDE DEF E
<1>2. ASSUME NEW lo \in E, NEW hi \in E
      PROVE  << lo, hi >> \in E \X E /\ << lo, hi >>[1] = lo /\ << lo, hi >>[2] = hi
  OBVIOUS
<1>3. ASSUME NEW p \in E \X E PROVE p[1] \in E /\ p[2] \in E
  OBVIOUS
<1>4. ASSUME NEW p \in E \X E, next(p), piece = SubSeq(text, p[1] + 1, p[2] - 1)
      PROVE  \E lo, hi \in E : /\ lo < hi /\ \A k \in E : k <= lo \/ hi <= k
                               /\ piece = SubSeq(text, lo + 1, hi - 1)
  BY <1>3, <1>4
<1>5. ASSUME NEW lo \in E, NEW hi \in E, lo < hi, \A k \in E : k <= lo \/ hi <= k,
             piece = SubSeq(text, lo + 1, hi - 1)
      PROVE  \E p \in E \X E : next(p) /\ piece = SubSeq(text, p[1] + 1, p[2] - 1)
  <2> DEFINE p == << lo, hi >>
  <2>1. p \in E \X E /\ p[1] = lo /\ p[2] = hi
    BY <1>2
  <2> HIDE DEF p
  <2>2. QED
    BY <1>5, <2>1
<1>6. QED
  BY <1>1, <1>4, <1>5 DEF E

(* The ends are positions just outside and inside the text. *)
LEMMA EndsType ==
  ASSUME NEW S, NEW text \in Seq(S), NEW sep
  PROVE  /\ Len(text) \in Nat /\ DOMAIN text = 1..Len(text)
         /\ Ends(text, sep) \in SUBSET (0..(Len(text) + 1))
         /\ Ends(text, sep) \in SUBSET Nat
         /\ 0 \in Ends(text, sep) /\ Len(text) + 1 \in Ends(text, sep)
<1>1. Len(text) \in Nat /\ DOMAIN text = 1..Len(text)
  BY LenProperties
<1>2. Cuts(text, sep) \subseteq 1..Len(text)
  BY <1>1 DEF Cuts
<1>3. QED
  BY <1>1, <1>2 DEF Ends

(* A text that is not cut is one piece. *)
LEMMA OnePiece ==
  ASSUME NEW S, NEW text \in Seq(S), NEW sep, Cuts(text, sep) = {}
  PROVE  \A piece : piece \in Pieces(text, sep) <=> piece = text
<1>1. Len(text) \in Nat /\ Ends(text, sep) = {0, Len(text) + 1}
  BY EndsType DEF Ends
<1>2. SubSeq(text, 0 + 1, (Len(text) + 1) - 1) = text
  <2>1. (Len(text) + 1) - 1 = Len(text) /\ 0 + 1 = 1
    BY <1>1
  <2>2. QED
    BY <2>1, SubSeqFull
<1> DEFINE n == Len(text) + 1
<1>3. n \in Nat /\ 0 < n /\ ~(n < 0) /\ ~(0 < 0) /\ ~(n < n) /\ n <= n /\ 0 <= 0
  BY <1>1
<1> HIDE DEF n
<1>4. ASSUME NEW piece
      PROVE  (\E lo, hi \in {0, n} :
                /\ lo < hi /\ \A k \in {0, n} : k <= lo \/ hi <= k
                /\ piece = SubSeq(text, lo + 1, hi - 1))
               <=> piece = SubSeq(text, 0 + 1, n - 1)
  BY <1>3
<1>5. ASSUME NEW piece PROVE piece \in Pieces(text, sep) <=> piece = text
  <2>1. Ends(text, sep) = {0, n}
    BY <1>1 DEF n
  <2>2. SubSeq(text, 0 + 1, n - 1) = text
    BY <1>2 DEF n
  <2>3. piece \in Pieces(text, sep) <=>
           \E lo, hi \in Ends(text, sep) :
             /\ lo < hi /\ \A k \in Ends(text, sep) : k <= lo \/ hi <= k
             /\ piece = SubSeq(text, lo + 1, hi - 1)
    BY PiecesAreBetween
  <2>4. piece \in Pieces(text, sep) <=> piece = SubSeq(text, 0 + 1, n - 1)
    BY <1>4, <2>1, <2>3
  <2>5. QED
    BY <2>2, <2>4
<1>6. QED
  BY <1>5

(* Every character of a dotted name is a dot or, as a segment is one word, *)
(* a word.                                                                 *)
LEMMA DottedCharacters ==
  ASSUME NEW text \in Seq(Characters), \A piece \in Pieces(text, ".") : IsSegment(piece),
         NEW i \in 1..Len(text)
  PROVE  text[i] = "." \/ text[i] \in Words
<1> DEFINE E == Ends(text, ".")
           n == Len(text)
<1>1. SUFFICES ASSUME text[i] # "." PROVE text[i] \in Words
  OBVIOUS
<1>2. n \in Nat /\ E \in SUBSET Nat /\ E \in SUBSET (0..(n + 1)) /\ 0 \in E /\ n + 1 \in E
  BY EndsType
<1>3. i \in Nat /\ 0 < i /\ i < n + 1 /\ i \notin E
  BY <1>1, <1>2 DEF Ends, Cuts
<1> HIDE DEF E, n
<1>4. PICK lo \in E : lo < i /\ \A k \in E : k < i => k <= lo
  <2> DEFINE T == { k \in E : k < i }
  <2>1. T \in SUBSET (0..(n + 1)) /\ T # {} /\ n + 1 \in Nat
    BY <1>2, <1>3
  <2> HIDE DEF T
  <2>2. PICK x \in T : \A y \in T : y <= x
    BY <2>1, GreatestBelow
  <2>3. QED
    BY <2>2 DEF T
<1>5. PICK hi \in E : i < hi /\ \A k \in E : i < k => hi <= k
  <2> DEFINE T == { k \in E : i < k }
  <2>1. T \in SUBSET Nat /\ T # {}
    BY <1>2, <1>3
  <2> HIDE DEF T
  <2>2. PICK x \in T : \A y \in T : x <= y
    BY <2>1, LeastOfNaturals
  <2>3. QED
    BY <2>2 DEF T
<1>6. lo \in Nat /\ hi \in Nat /\ lo < hi /\ hi <= n + 1
  BY <1>2, <1>3, <1>4, <1>5
<1>7. \A k \in E : k <= lo \/ hi <= k
  <2>1. ASSUME NEW k \in E PROVE k <= lo \/ hi <= k
    <3>1. k \in Nat /\ k # i
      BY <1>2, <1>3
    <3>2. k < i \/ i < k
      BY <1>3, <3>1
    <3>3. QED
      BY <1>4, <1>5, <3>2
  <2>2. QED
    BY <2>1
<1> DEFINE piece == SubSeq(text, lo + 1, hi - 1)
<1>8. IsSegment(piece)
  <2>1. piece \in Pieces(text, ".")
    BY <1>6, <1>7, PiecesAreBetween DEF E
  <2>2. QED
    BY <2>1
<1>9. /\ Len(piece) = IF lo + 1 <= hi - 1 THEN (hi - 1) - (lo + 1) + 1 ELSE 0
      /\ \A k \in 1..((hi - 1) - (lo + 1) + 1) : piece[k] = text[(lo + 1) + k - 1]
  <2>1. \A k \in (lo + 1)..(hi - 1) : text[k] \in Characters
    <3>1. text \in [1..n -> Characters]
      BY LenProperties DEF n
    <3>2. \A k \in (lo + 1)..(hi - 1) : k \in 1..n
      BY <1>2, <1>6
    <3>3. QED
      BY <3>1, <3>2
  <2>2. lo + 1 \in Int /\ hi - 1 \in Int
    BY <1>6
  <2>3. QED
    BY <2>1, <2>2, SubSeqProperties
<1>10. Len(piece) = 1 /\ piece[1] \in Words
  BY <1>8 DEF IsSegment
<1> HIDE DEF piece
<1>11. hi = lo + 2 /\ i = lo + 1
  <2>1. (hi - 1) - (lo + 1) + 1 = 1
    <3> DEFINE size == (hi - 1) - (lo + 1) + 1
    <3>1. Len(piece) = size \/ Len(piece) = 0
      BY <1>9
    <3> HIDE DEF size
    <3>2. size = 1
      BY <1>10, <3>1
    <3>3. QED
      BY <3>2 DEF size
  <2>2. hi = lo + 2
    BY <1>6, <2>1
  <2>3. QED
    BY <1>3, <1>4, <1>5, <1>6, <2>2
<1>12. piece[1] = text[i]
  BY <1>6, <1>9, <1>11
<1>13. QED
  BY <1>10, <1>12

(* A last segment adds itself to the pieces. *)
LEMMA JoinedPieces ==
  ASSUME NEW S, NEW a \in Seq(S), NEW b \in Seq(S), "." \in S, Len(b) = 1, Cuts(b, ".") = {},
         NEW piece \in Pieces(a \o << "." >> \o b, ".")
  PROVE  piece \in Pieces(a, ".") \/ piece = b
<1> DEFINE t == a \o << "." >> \o b
           L == Len(a)
           E == Ends(t, ".")
           F == Ends(a, ".")
<1>1. L \in Nat /\ a \in [1..L -> S] /\ b = << b[1] >> /\ b[1] \in S /\ b[1] # "."
  <2>1. a \in [1..L -> S] /\ L \in Nat /\ DOMAIN b = 1..1 /\ b \in [1..1 -> S]
    BY LenProperties
  <2>2. 1 \in 1..1
    OBVIOUS
  <2>3. b[1] # "."
    BY <2>1, <2>2 DEF Cuts
  <2>4. QED
    BY <2>1, <2>2, <2>3
<1>2. /\ t \in Seq(S) /\ Len(t) = L + 2 /\ t[L + 1] = "." /\ t[L + 2] = b[1]
      /\ \A i \in 1..L : t[i] = a[i]
  <2>1. << "." >> \in Seq(S) /\ Len(<< "." >>) = 1
    OBVIOUS
  <2> DEFINE u == a \o << "." >>
  <2>2. /\ u \in Seq(S) /\ Len(u) = L + 1
        /\ \A i \in 1..(L + 1) : u[i] = IF i <= L THEN a[i] ELSE << "." >>[i - L]
    BY <2>1, ConcatProperties
  <2>3. u[L + 1] = "." /\ \A i \in 1..L : u[i] = a[i]
    BY <1>1, <2>2
  <2> HIDE DEF u
  <2>4. /\ u \o b \in Seq(S) /\ Len(u \o b) = L + 1 + 1
        /\ \A i \in 1..(L + 1 + 1) : (u \o b)[i] = IF i <= L + 1 THEN u[i] ELSE b[i - (L + 1)]
    <3>1. /\ u \o b \in Seq(S) /\ Len(u \o b) = Len(u) + Len(b)
          /\ \A i \in 1..(Len(u) + Len(b)) :
               (u \o b)[i] = IF i <= Len(u) THEN u[i] ELSE b[i - Len(u)]
      BY <2>2, ConcatProperties
    <3>2. QED
      BY <2>2, <3>1
  <2>5. (u \o b)[L + 2] = b[1] /\ (u \o b)[L + 1] = u[L + 1] /\ \A i \in 1..L : (u \o b)[i] = u[i]
    BY <1>1, <2>4
  <2>6. QED
    BY <1>1, <2>3, <2>4, <2>5 DEF u
<1> HIDE DEF t
<1>3. E = F \cup {L + 3}
  <2>1. Cuts(t, ".") = Cuts(a, ".") \cup {L + 1}
    <3>1. DOMAIN t = 1..(L + 2) /\ DOMAIN a = 1..L
      BY <1>2, LenProperties
    <3>2. \A i : i \in 1..(L + 2) <=> i \in 1..L \/ i = L + 1 \/ i = L + 2
      BY <1>1
    <3>3. L + 1 \notin 1..L /\ L + 2 \notin 1..L
      BY <1>1
    <3>4. QED
      BY <1>1, <1>2, <3>1, <3>2, <3>3 DEF Cuts
  <2>2. Len(t) + 1 = L + 3
    BY <1>1, <1>2
  <2>3. QED
    BY <2>1, <2>2 DEF Ends
<1>4. F \in SUBSET (0..(L + 1)) /\ L + 1 \in F
  BY EndsType
<1>5. PICK lo, hi \in E : /\ lo < hi /\ \A k \in E : k <= lo \/ hi <= k
                          /\ piece = SubSeq(t, lo + 1, hi - 1)
  <2>1. piece \in Pieces(t, ".")
    BY DEF t
  <2>2. QED
    BY <2>1, PiecesAreBetween
<1> HIDE DEF E, F
<1>6. lo \in Nat /\ hi \in Nat /\ lo <= L + 3 /\ hi <= L + 3
  BY <1>1, <1>3, <1>4
<1>7. CASE hi = L + 3
  <2>1. lo \in F
    BY <1>1, <1>3, <1>5, <1>6, <1>7
  <2>2. lo = L + 1
    BY <1>1, <1>3, <1>4, <1>5, <1>6, <1>7, <2>1
  <2>3. piece = SubSeq(t, L + 2, L + 2)
    BY <1>1, <1>5, <1>7, <2>2
  <2>4. piece = << t[L + 2] >>
    <3> DEFINE m == L + 2
               x == SubSeq(t, m, m)
               y == << t[m] >>
    <3>1. m \in Int /\ m \in 1..Len(t) /\ m..m = {m} /\ m <= m /\ m - m + 1 = 1
      BY <1>1, <1>2
    <3> HIDE DEF m
    <3>2. t[m] \in S
      BY <1>2, <3>1, ElementOfSeq
    <3>3. /\ x \in Seq(S) /\ Len(x) = IF m <= m THEN m - m + 1 ELSE 0
          /\ \A i \in 1..(m - m + 1) : x[i] = t[m + i - 1]
      BY <3>1, <3>2, SubSeqProperties
    <3>4. Len(x) = 1 /\ x[1] = t[m]
      BY <3>1, <3>3
    <3>5. y \in Seq(S) /\ Len(y) = 1 /\ y[1] = t[m]
      BY <3>2
    <3> HIDE DEF x, y
    <3>6. x = y
      BY <3>3, <3>4, <3>5, SeqEqual
    <3>7. QED
      BY <2>3, <3>6 DEF x, y, m
  <2>5. QED
    BY <1>1, <1>2, <2>4
<1>8. CASE hi # L + 3
  <2>1. hi \in F /\ lo \in F
    BY <1>1, <1>3, <1>4, <1>5, <1>6, <1>8
  <2>2. hi <= L + 1
    BY <1>1, <1>4, <2>1
  <2>3. SubSeq(t, lo + 1, hi - 1) = SubSeq(a, lo + 1, hi - 1)
    <3> DEFINE m == lo + 1
               n == hi - 1
    <3>1. m \in Int /\ n \in Int /\ m >= 1 /\ n <= L
      BY <1>1, <1>6, <2>2
    <3> HIDE DEF m, n
    <3>2. \A k \in m..n : k \in 1..L
      BY <1>1, <3>1
    <3>3. \A k \in m..n : t[k] = a[k] /\ a[k] \in S
      BY <1>1, <1>2, <3>2
    <3>4. /\ SubSeq(t, m, n) \in Seq(S) /\ SubSeq(a, m, n) \in Seq(S)
          /\ Len(SubSeq(t, m, n)) = IF m <= n THEN n - m + 1 ELSE 0
          /\ Len(SubSeq(a, m, n)) = IF m <= n THEN n - m + 1 ELSE 0
          /\ \A i \in 1..(n - m + 1) : SubSeq(t, m, n)[i] = t[m + i - 1]
          /\ \A i \in 1..(n - m + 1) : SubSeq(a, m, n)[i] = a[m + i - 1]
      BY <3>1, <3>3, SubSeqProperties
    <3> DEFINE x == SubSeq(t, m, n)
               y == SubSeq(a, m, n)
    <3>5. \A i \in 1..Len(x) : i \in 1..(n - m + 1) /\ m + i - 1 \in m..n
      BY <3>1, <3>4
    <3>6. \A i \in 1..Len(x) : x[i] = y[i]
      BY <3>3, <3>4, <3>5
    <3>7. x \in Seq(S) /\ y \in Seq(S) /\ Len(x) = Len(y)
      BY <3>4
    <3> HIDE DEF x, y
    <3>8. x = y
      BY <3>6, <3>7, SeqEqual
    <3>9. QED
      BY <3>8 DEF x, y, m, n
  <2>4. \A k \in F : k <= lo \/ hi <= k
    BY <1>3, <1>5
  <2>5. piece \in Pieces(a, ".")
    BY <1>5, <2>1, <2>3, <2>4, PiecesAreBetween DEF F
  <2>6. QED
    BY <2>5
<1>9. QED
  BY <1>7, <1>8

-----------------------------------------------------------------------------
(* The text of a contract, position by position, and PrintedIdentity. *)

(* A segment holds no separator. *)
LEMMA SegmentIsOneWord ==
  ASSUME NEW name, name \in Seq(Characters), IsSegment(name)
  PROVE  /\ Len(name) = 1 /\ name[1] \in Words /\ name[1] \notin Separators
         /\ name = << name[1] >> /\ \A sep \in Separators : Cuts(name, sep) = {}
<1>1. Len(name) = 1 /\ name[1] \in Words
  BY DEF IsSegment
<1>2. name[1] \notin Separators
  BY <1>1, WordsAssumption
<1>3. DOMAIN name = 1..1 /\ name \in [1..1 -> Characters]
  BY <1>1, LenProperties
<1>4. \A i \in 1..1 : i = 1
  OBVIOUS
<1>5. name = << name[1] >>
  <2> DEFINE y == << name[1] >>
  <2>1. name[1] \in Characters
    BY <1>1 DEF Characters
  <2>2. y \in Seq(Characters) /\ Len(y) = 1 /\ y[1] = name[1]
    BY <2>1
  <2> HIDE DEF y
  <2>3. name = y
    BY <1>1, <1>4, <2>2, SeqEqual
  <2>4. QED
    BY <2>3 DEF y
<1>6. \A sep \in Separators : Cuts(name, sep) = {}
  BY <1>2, <1>3, <1>4 DEF Cuts
<1>7. QED
  BY <1>1, <1>2, <1>5, <1>6

(* A sequence of three, written out. *)
LEMMA VersionOfThree ==
  ASSUME NEW S, NEW v \in Seq(S), Len(v) = 3
  PROVE  v = << v[1], v[2], v[3] >> /\ \A k \in 1..3 : v[k] \in S
<1>1. v \in [1..3 -> S] /\ \A k \in 1..3 : k = 1 \/ k = 2 \/ k = 3
  <2>1. v \in [1..Len(v) -> S]
    BY LenProperties
  <2>2. \A k \in 1..3 : k = 1 \/ k = 2 \/ k = 3
    OBVIOUS
  <2>3. QED
    BY <2>1, <2>2
<1>2. v[1] \in S /\ v[2] \in S /\ v[3] \in S
  BY <1>1
<1> DEFINE y == << v[1], v[2], v[3] >>
<1>3. y \in Seq(S) /\ Len(y) = 3 /\ y[1] = v[1] /\ y[2] = v[2] /\ y[3] = v[3]
  BY <1>2
<1> HIDE DEF y
<1>4. v = y
  BY <1>1, <1>3, SeqEqual
<1>5. QED
  BY <1>1, <1>4 DEF y

(* The two halves of a contract's text. *)
PathText(c) == c.namespace \o << "." >> \o c.name

Numerals(c) == ShownVersion(c.version) \o << "+" >> \o << Decimal[c.revision] >>

(* The text is the two halves, with a slash between them. *)
LEMMA ContractText ==
  ASSUME NEW c, GoodContract(c)
  PROVE  /\ PathText(c) \in Seq(Characters) /\ Numerals(c) \in Seq(Characters)
         /\ ShownContract(c) = PathText(c) \o << "/" >> \o Numerals(c)
<1> DEFINE p == PathText(c)
           v == ShownVersion(c.version)
           r == << "+", Decimal[c.revision] >>
<1>1. << "." >> \in Seq(Characters) /\ << "/" >> \in Seq(Characters)
  BY DEF Characters, Separators
<1>2. p \in Seq(Characters)
  <2>1. c.namespace \in Seq(Characters) /\ c.name \in Seq(Characters)
    BY DEF GoodContract
  <2>2. c.namespace \o << "." >> \in Seq(Characters)
    BY <1>1, <2>1, ConcatProperties
  <2>3. QED
    BY <2>1, <2>2, ConcatProperties DEF PathText
<1>3. /\ Decimal[c.revision] \in Characters /\ Decimal[c.version[1]] \in Characters
      /\ Decimal[c.version[2]] \in Characters /\ Decimal[c.version[3]] \in Characters
  <2>1. c.version \in Seq(0..MaxU32) /\ Len(c.version) = 3 /\ c.revision \in 0..MaxU32
    BY DEF GoodContract
  <2>2. 1 \in 1..3 /\ 2 \in 1..3 /\ 3 \in 1..3
    OBVIOUS
  <2>3. c.version[1] \in 0..MaxU32 /\ c.version[2] \in 0..MaxU32 /\ c.version[3] \in 0..MaxU32
    BY <2>1, <2>2, ElementOfSeq
  <2>4. QED
    BY <2>1, <2>3, DecimalIsRead
<1>4. "." \in Characters /\ "+" \in Characters
  BY DEF Characters, Separators
<1>5. v \in Seq(Characters) /\ r \in Seq(Characters) /\ Numerals(c) \in Seq(Characters)
  <2>1. v \in Seq(Characters) /\ r \in Seq(Characters)
    BY <1>3, <1>4 DEF ShownVersion
  <2>2. << "+" >> \in Seq(Characters) /\ << Decimal[c.revision] >> \in Seq(Characters)
    BY <1>3, <1>4
  <2> HIDE DEF v, r
  <2>3. v \o << "+" >> \in Seq(Characters)
    BY <2>1, <2>2, ConcatProperties
  <2>4. (v \o << "+" >>) \o << Decimal[c.revision] >> \in Seq(Characters)
    BY <2>2, <2>3, ConcatProperties
  <2>5. QED
    BY <2>1, <2>4 DEF Numerals, v
<1>6. v \o r = Numerals(c)
  <2> DEFINE plus == << "+" >>
             d    == << Decimal[c.revision] >>
  <2>1. plus \in Seq(Characters) /\ d \in Seq(Characters)
    BY <1>3, <1>4
  <2>2. r = plus \o d
    OBVIOUS
  <2> HIDE DEF plus, d, v
  <2>3. (v \o plus) \o d = v \o (plus \o d)
    BY <1>5, <2>1, ConcatAssociative
  <2>4. QED
    BY <2>2, <2>3 DEF Numerals, plus, d, v
<1>7. ShownContract(c) = ((p \o << "/" >>) \o v) \o r
  BY DEF ShownContract, PathText
<1> HIDE DEF p, v, r
<1>8. p \o << "/" >> \in Seq(Characters)
  BY <1>1, <1>2, ConcatProperties
<1>9. ((p \o << "/" >>) \o v) \o r = (p \o << "/" >>) \o (v \o r)
  <2> DEFINE x == p \o << "/" >>
  <2>1. x \in Seq(Characters)
    BY <1>8
  <2> HIDE DEF x
  <2>2. (x \o v) \o r = x \o (v \o r)
    BY <1>5, <2>1, ConcatAssociative
  <2>3. QED
    BY <2>2 DEF x
<1>10. QED
  BY <1>2, <1>5, <1>6, <1>7, <1>9 DEF p

(* A stretch of a text, by length and by position. *)
LEMMA SubText ==
  ASSUME NEW S, NEW t, NEW p \in Int, NEW q \in Int, \A i \in p..q : t[i] \in S,
         NEW n \in Nat, q - p + 1 = n
  PROVE  /\ SubSeq(t, p, q) \in Seq(S) /\ Len(SubSeq(t, p, q)) = n
         /\ \A i \in 1..n : SubSeq(t, p, q)[i] = t[p + i - 1]
<1>1. /\ SubSeq(t, p, q) \in Seq(S)
      /\ Len(SubSeq(t, p, q)) = IF p <= q THEN q - p + 1 ELSE 0
      /\ \A i \in 1..q - p + 1 : SubSeq(t, p, q)[i] = t[p + i - 1]
  BY SubSeqProperties
<1>2. (IF p <= q THEN q - p + 1 ELSE 0) = n
  OBVIOUS
<1>3. QED
  BY <1>1, <1>2

(* A text that is one text, a separator and another, is cut there. *)
IsJoined(t, a, sep, b) ==
  /\ Len(t) = Len(a) + 1 + Len(b) /\ t[Len(a) + 1] = sep
  /\ \A i \in 1..Len(a) : t[i] = a[i]
  /\ \A i \in 1..Len(b) : t[Len(a) + 1 + i] = b[i]

(* Cut there it gives the two texts back, and no other cut is found if     *)
(* the text on that side holds no separator.                               *)
LEMMA CutInTwo ==
  ASSUME NEW S, NEW a \in Seq(S), NEW b \in Seq(S), NEW sep \in S,
         NEW t \in Seq(S), IsJoined(t, a, sep, b)
  PROVE  /\ Cuts(t, sep) # {} /\ UpTo(t, Len(a) + 1) = a /\ Beyond(t, Len(a) + 1) = b
         /\ Cuts(a, sep) = {} => Min(Cuts(t, sep)) = Len(a) + 1
         /\ Cuts(b, sep) = {} => Max(Cuts(t, sep)) = Len(a) + 1
<1> DEFINE m == Len(a)
           n == Len(b)
           cut == m + 1
<1>1. m \in Nat /\ n \in Nat /\ DOMAIN a = 1..m /\ DOMAIN b = 1..n
  BY LenProperties
<1>2. /\ t \in Seq(S) /\ Len(t) = m + 1 + n /\ t[m + 1] = sep
      /\ \A i \in 1..m : t[i] = a[i]
      /\ \A i \in 1..n : t[m + 1 + i] = b[i]
  BY DEF IsJoined
<1>0. m = Len(a) /\ n = Len(b) /\ cut = m + 1
  OBVIOUS
<1> HIDE DEF m, n, cut
<1>3. DOMAIN t = 1..(m + 1 + n)
  BY <1>2, LenProperties
<1>4. cut = m + 1 /\ cut \in Cuts(t, sep) /\ Cuts(t, sep) # {}
  <2>1. cut = m + 1
    BY <1>0
  <2>2. m + 1 \in 1..(m + 1 + n)
    BY <1>1
  <2>3. QED
    BY <1>2, <1>3, <2>1, <2>2 DEF Cuts
<1>5. UpTo(t, cut) = a
  <2> DEFINE x == SubSeq(t, 1, m)
  <2>1. UpTo(t, cut) = x
    BY <1>1, <1>4 DEF UpTo
  <2>2. \A i \in 1..m : t[i] \in S
    BY <1>0, <1>1, <1>2, LenProperties
  <2>3. x \in Seq(S) /\ Len(x) = (IF 1 <= m THEN m - 1 + 1 ELSE 0)
        /\ \A i \in 1..(m - 1 + 1) : x[i] = t[1 + i - 1]
    BY <1>1, <2>2, SubSeqProperties
  <2> HIDE DEF x
  <2>4. Len(x) = m /\ \A i \in 1..m : x[i] = t[i]
    BY <1>1, <2>3
  <2>5. \A i \in 1..m : x[i] = a[i]
    BY <1>2, <2>4
  <2>6. x = a
    BY <2>3, <2>4, <2>5, SeqEqual, <1>0
  <2>7. QED
    BY <2>1, <2>6
<1>6. Beyond(t, cut) = b
  <2> DEFINE p == m + 2
             q == m + 1 + n
             x == SubSeq(t, p, q)
  <2>1. Beyond(t, cut) = x
    <3>1. cut + 1 = p /\ Len(t) = q
      BY <1>1, <1>2, <1>4
    <3> HIDE DEF p, q
    <3>2. QED
      BY <3>1 DEF Beyond
  <2>2. /\ p \in Int /\ q \in Int /\ q - p + 1 = n
        /\ \A i \in p..q : i \in 1..(m + 1 + n)
        /\ \A i \in 1..n : p + i - 1 = m + 1 + i
    BY <1>1
  <2>3. \A i \in 1..(m + 1 + n) : t[i] \in S
    BY <1>2, ElementOfSeq
  <2> HIDE DEF p, q
  <2>4. \A i \in p..q : t[i] \in S
    BY <2>2, <2>3
  <2>5. x \in Seq(S) /\ Len(x) = n /\ \A i \in 1..n : x[i] = t[p + i - 1]
    <3>1. p \in Int /\ q \in Int /\ n \in Nat /\ q - p + 1 = n
      BY <1>1, <2>2
    <3>2. QED
      BY <2>4, <3>1, SubText
  <2> HIDE DEF x
  <2>6. Len(x) = n /\ \A i \in 1..n : x[i] = t[m + 1 + i]
    <3>1. ASSUME NEW i \in 1..n PROVE x[i] = t[m + 1 + i]
      <4>1. p + i - 1 = m + 1 + i
        BY <1>1 DEF p
      <4>2. x[i] = t[p + i - 1]
        BY <2>5
      <4>3. QED
        BY <4>1, <4>2
    <3>2. QED
      BY <2>5, <3>1
  <2>7. \A i \in 1..n : x[i] = b[i]
    BY <1>2, <2>6
  <2>8. x = b
    BY <2>5, <2>6, <2>7, SeqEqual, <1>0
  <2>9. QED
    BY <2>1, <2>8
<1>7. ASSUME Cuts(a, sep) = {} PROVE Min(Cuts(t, sep)) = cut
  <2>1. \A i \in 1..m : a[i] # sep
    BY <1>1, <1>7 DEF Cuts
  <2>2. \A i \in Cuts(t, sep) : i >= cut
    <3>1. ASSUME NEW i \in Cuts(t, sep) PROVE i >= cut
      <4>1. i \in 1..(m + 1 + n) /\ t[i] = sep
        BY <1>3 DEF Cuts
      <4>2. i \notin 1..m
        BY <1>2, <2>1, <4>1
      <4>3. QED
        BY <1>1, <1>4, <4>1, <4>2
    <3>2. QED
      BY <3>1
  <2>3. Min(Cuts(t, sep)) \in Cuts(t, sep) /\ Min(Cuts(t, sep)) <= cut /\ Cuts(t, sep) \subseteq 1..Len(t)
    BY <1>2, <1>4, CutsAreWithin
  <2> DEFINE k == Min(Cuts(t, sep))
  <2>4. k \in Nat /\ cut \in Nat /\ k \in Cuts(t, sep)
    BY <1>1, <1>2, <1>4, <2>3
  <2>5. k <= cut /\ cut <= k
    BY <2>2, <2>3, <2>4
  <2> HIDE DEF k
  <2>6. k = cut
    BY <2>4, <2>5
  <2>7. QED
    BY <2>6 DEF k
<1>8. ASSUME Cuts(b, sep) = {} PROVE Max(Cuts(t, sep)) = cut
  <2>1. \A i \in 1..n : b[i] # sep
    BY <1>1, <1>8 DEF Cuts
  <2>2. \A i \in Cuts(t, sep) : i <= cut
    <3>1. SUFFICES ASSUME NEW i \in Cuts(t, sep), ~(i <= cut) PROVE FALSE
      OBVIOUS
    <3>2. i \in 1..(m + 1 + n) /\ t[i] = sep
      BY <1>3 DEF Cuts
    <3> DEFINE j == i - (m + 1)
    <3>3. j \in 1..n /\ i = m + 1 + j
      BY <1>1, <1>4, <3>1, <3>2
    <3> HIDE DEF j
    <3>4. t[i] = b[j]
      BY <1>2, <3>3
    <3>5. QED
      BY <2>1, <3>2, <3>3, <3>4
  <2>3. Max(Cuts(t, sep)) \in Cuts(t, sep) /\ cut <= Max(Cuts(t, sep)) /\ Cuts(t, sep) \subseteq 1..Len(t)
    BY <1>2, <1>4, CutsAreWithin
  <2> DEFINE k == Max(Cuts(t, sep))
  <2>4. k \in Nat /\ cut \in Nat /\ k \in Cuts(t, sep)
    BY <1>1, <1>2, <1>4, <2>3
  <2>5. k <= cut /\ cut <= k
    BY <2>2, <2>3, <2>4
  <2> HIDE DEF k
  <2>6. k = cut
    BY <2>4, <2>5
  <2>7. QED
    BY <2>6 DEF k
<1>9. QED
  BY <1>4, <1>5, <1>6, <1>7, <1>8 DEF cut, m

(* Nothing new to cut at in a joined text. *)
LEMMA NoCutInJoined ==
  ASSUME NEW S, NEW a \in Seq(S), NEW b \in Seq(S), NEW mid \in S, NEW t \in Seq(S),
         IsJoined(t, a, mid, b), NEW sep, mid # sep, Cuts(a, sep) = {}, Cuts(b, sep) = {}
  PROVE  Cuts(t, sep) = {}
<1> DEFINE m == Len(a)
           n == Len(b)
<1>1. m \in Nat /\ n \in Nat /\ DOMAIN a = 1..m /\ DOMAIN b = 1..n
  BY LenProperties
<1>2. /\ DOMAIN t = 1..(m + 1 + n) /\ t[m + 1] = mid
      /\ \A i \in 1..m : t[i] = a[i]
      /\ \A i \in 1..n : t[m + 1 + i] = b[i]
  BY LenProperties DEF IsJoined
<1>3. (\A i \in 1..m : a[i] # sep) /\ (\A i \in 1..n : b[i] # sep)
  BY <1>1 DEF Cuts
<1> HIDE DEF m, n
<1>4. SUFFICES ASSUME NEW i \in 1..(m + 1 + n), t[i] = sep PROVE FALSE
  BY <1>2 DEF Cuts
<1>5. CASE i <= m
  BY <1>1, <1>2, <1>3, <1>4, <1>5
<1>6. CASE i = m + 1
  BY <1>2, <1>4, <1>6
<1>7. CASE i > m + 1
  <2> DEFINE j == i - (m + 1)
  <2>1. j \in 1..n /\ i = m + 1 + j
    BY <1>1, <1>4, <1>7
  <2> HIDE DEF j
  <2>2. t[i] = b[j]
    BY <1>2, <2>1
  <2>3. QED
    BY <1>3, <1>4, <2>1, <2>2
<1>8. QED
  BY <1>1, <1>4, <1>5, <1>6, <1>7

(* Concatenation joins. *)
LEMMA JoinedText ==
  ASSUME NEW S, NEW a \in Seq(S), NEW b \in Seq(S), NEW sep \in S
  PROVE  /\ a \o << sep >> \o b \in Seq(S)
         /\ IsJoined(a \o << sep >> \o b, a, sep, b)
<1> DEFINE w == << sep >>
           u == a \o w
           t == u \o b
           m == Len(a)
           n == Len(b)
<1>1. w \in Seq(S) /\ Len(w) = 1 /\ w[1] = sep /\ m \in Nat /\ n \in Nat
  BY LenProperties
<1> HIDE DEF w
<1>2. /\ u \in Seq(S) /\ Len(u) = m + 1
      /\ \A i \in 1..(m + 1) : u[i] = IF i <= m THEN a[i] ELSE w[i - m]
  <2>1. /\ u \in Seq(S) /\ Len(u) = Len(a) + Len(w)
        /\ \A i \in 1..(Len(a) + Len(w)) : u[i] = IF i <= Len(a) THEN a[i] ELSE w[i - Len(a)]
    BY <1>1, ConcatProperties
  <2>2. QED
    BY <1>1, <2>1
<1> HIDE DEF u
<1>3. /\ t \in Seq(S) /\ Len(t) = (m + 1) + n
      /\ \A i \in 1..((m + 1) + n) : t[i] = IF i <= m + 1 THEN u[i] ELSE b[i - (m + 1)]
  <2>1. /\ t \in Seq(S) /\ Len(t) = Len(u) + Len(b)
        /\ \A i \in 1..(Len(u) + Len(b)) : t[i] = IF i <= Len(u) THEN u[i] ELSE b[i - Len(u)]
    <3>1. u \in Seq(S)
      BY <1>2
    <3> HIDE DEF m, n
    <3>2. QED
      BY <3>1, ConcatProperties
  <2>2. QED
    BY <1>1, <1>2, <2>1
<1>0. m = Len(a) /\ n = Len(b)
  OBVIOUS
<1> HIDE DEF t, m, n
<1>4. t[m + 1] = sep
  <2>1. m + 1 \in 1..(m + 1) /\ m + 1 \in 1..((m + 1) + n) /\ m + 1 <= m + 1 /\ ~(m + 1 <= m)
        /\ (m + 1) - m = 1
    BY <1>1
  <2>2. t[m + 1] = u[m + 1] /\ u[m + 1] = w[(m + 1) - m]
    BY <1>2, <1>3, <2>1
  <2>3. QED
    BY <1>1, <2>1, <2>2
<1>5. ASSUME NEW i \in 1..m PROVE t[i] = a[i]
  <2>1. i \in 1..(m + 1) /\ i \in 1..((m + 1) + n) /\ i <= m + 1 /\ i <= m
    BY <1>1
  <2>2. QED
    BY <1>2, <1>3, <2>1
<1>6. ASSUME NEW i \in 1..n PROVE t[m + 1 + i] = b[i]
  <2>1. m + 1 + i \in 1..((m + 1) + n) /\ ~(m + 1 + i <= m + 1) /\ (m + 1 + i) - (m + 1) = i
    BY <1>1
  <2>2. t[m + 1 + i] = b[(m + 1 + i) - (m + 1)]
    BY <1>3, <2>1
  <2>3. QED
    BY <2>1, <2>2
<1>7. Len(t) = m + 1 + n
  BY <1>1, <1>3
<1>8. t \in Seq(S) /\ IsJoined(t, a, sep, b)
  BY <1>0, <1>3, <1>4, <1>5, <1>6, <1>7 DEF IsJoined
<1>9. QED
  BY <1>8 DEF t, u, w

(* The last dot of the path, before any slash, is the one Display wrote. *)
LEMMA PathIsCut ==
  ASSUME NEW c, GoodContract(c)
  PROVE  LET path == PathText(c)
         IN  /\ Cuts(path, "/") = {} /\ Cuts(path, ".") # {}
             /\ UpTo(path, PathCut(path)) = c.namespace
             /\ Beyond(path, PathCut(path)) = c.name
<1> DEFINE path == PathText(c)
<1>1. /\ c.namespace \in Seq(Characters) /\ c.name \in Seq(Characters) /\ IsSegment(c.name)
      /\ "." \in Characters /\ "/" \in Separators /\ "." \in Separators
  BY DEF GoodContract, Characters, Separators
<1>2. \A sep \in Separators : Cuts(c.name, sep) = {}
  BY <1>1, SegmentIsOneWord
<1>3. Cuts(c.namespace, "/") = {}
  <2>1. \A i \in 1..Len(c.namespace) : c.namespace[i] = "." \/ c.namespace[i] \in Words
    BY <1>1, DottedCharacters DEF GoodContract
  <2>2. "/" \notin Words
    BY WordsAssumption DEF Separators
  <2>3. DOMAIN c.namespace = 1..Len(c.namespace)
    BY <1>1, LenProperties
  <2>4. QED
    BY <2>1, <2>2, <2>3 DEF Cuts
<1>4. path = c.namespace \o << "." >> \o c.name
  BY DEF PathText
<1>5. path \in Seq(Characters) /\ IsJoined(path, c.namespace, ".", c.name)
  BY <1>1, <1>4, JoinedText
<1> HIDE DEF path
<1>6. Cuts(path, "/") = {}
  BY <1>1, <1>2, <1>3, <1>5, NoCutInJoined
<1>7. /\ Cuts(path, ".") # {}
      /\ UpTo(path, Len(c.namespace) + 1) = c.namespace
      /\ Beyond(path, Len(c.namespace) + 1) = c.name
      /\ Max(Cuts(path, ".")) = Len(c.namespace) + 1
  BY <1>1, <1>2, <1>5, CutInTwo
<1>8. QED
  BY <1>6, <1>7 DEF PathCut, path

(* A stretch of one. *)
LEMMA SingleCharacter ==
  ASSUME NEW S, NEW t \in Seq(S), NEW m \in 1..Len(t)
  PROVE  SubSeq(t, m, m) = << t[m] >>
<1>1. t[m] \in S
  BY ElementOfSeq
<1>2. m \in Int /\ \A i \in m..m : t[i] \in S
  <2>1. m \in Int
    OBVIOUS
  <2>2. m..m = {m}
    BY <2>1
  <2>3. QED
    BY <1>1, <2>1, <2>2
<1> DEFINE x == SubSeq(t, m, m)
           y == << t[m] >>
<1>3. 1 \in Nat /\ m - m + 1 = 1
  BY <1>2
<1>4. x \in Seq(S) /\ Len(x) = 1 /\ \A i \in 1..1 : x[i] = t[m + i - 1]
  BY <1>2, <1>3, SubText
<1>5. y \in Seq(S) /\ Len(y) = 1 /\ y[1] = t[m]
  BY <1>1
<1>6. \A i \in 1..1 : i = 1 /\ m + i - 1 = m
  BY <1>2
<1> HIDE DEF x, y
<1>7. x = y
  BY <1>4, <1>5, <1>6, SeqEqual
<1>8. QED
  BY <1>7 DEF x, y

(* SchemaVersion::parse reads what its Display wrote. *)
LEMMA VersionIsRead ==
  ASSUME NEW v \in Seq(0..MaxU32), Len(v) = 3
  PROVE  /\ ShownVersion(v) \in Seq(Characters) /\ Cuts(ShownVersion(v), "+") = {}
         /\ IsVersion(ShownVersion(v)) /\ VersionOf(ShownVersion(v)) = v
<1> DEFINE t == ShownVersion(v)
<1>1. v = << v[1], v[2], v[3] >> /\ v[1] \in 0..MaxU32 /\ v[2] \in 0..MaxU32 /\ v[3] \in 0..MaxU32
  <2>1. 1 \in 1..3 /\ 2 \in 1..3 /\ 3 \in 1..3
    OBVIOUS
  <2>2. QED
    BY <2>1, VersionOfThree
<1>2. \A i \in 1..3 : /\ Decimal[v[i]] \in Words /\ Decimal[v[i]] \in Characters
                      /\ IsU32(<< Decimal[v[i]] >>) /\ U32(<< Decimal[v[i]] >>) = v[i]
  BY DecimalIsRead, ElementOfSeq
<1> DEFINE d(i) == Decimal[v[i]]
<1>3. /\ t = << d(1), ".", d(2), ".", d(3) >>
      /\ d(1) \in Characters /\ d(2) \in Characters /\ d(3) \in Characters /\ "." \in Characters
      /\ d(1) \in Words /\ d(2) \in Words /\ d(3) \in Words /\ "." \notin Words /\ "+" \notin Words
  BY <1>1, <1>2, DecimalIsRead, WordsAssumption DEF ShownVersion, Characters, Separators
<1> HIDE DEF d
<1>4. /\ t \in Seq(Characters) /\ Len(t) = 5 /\ DOMAIN t = 1..5
      /\ t[1] = d(1) /\ t[2] = "." /\ t[3] = d(2) /\ t[4] = "." /\ t[5] = d(3)
  BY <1>3
<1> HIDE DEF t
<1>5. \A i \in 1..5 : i = 1 \/ i = 2 \/ i = 3 \/ i = 4 \/ i = 5
  OBVIOUS
<1>6. Cuts(t, "+") = {}
  BY <1>3, <1>4, <1>5 DEF Cuts
<1>7. Cuts(t, ".") = {2, 4}
  BY <1>3, <1>4, <1>5 DEF Cuts
<1>8. Cardinality({2, 4}) = 2
  <2>1. \A s : s = {2} \cup {4} => Cardinality(s) = 2
    <3>1. 4 \notin {2}
      OBVIOUS
    <3>2. IsFiniteSet({2}) /\ Cardinality({2}) = 1
      BY FS_Singleton
    <3>3. Cardinality({2} \cup {4}) = Cardinality({2}) + 1
      BY <3>1, <3>2, FS_AddElement
    <3>4. 1 + 1 = 2
      OBVIOUS
    <3>5. QED
      BY <3>2, <3>3, <3>4
  <2>2. {2, 4} = {2} \cup {4}
    OBVIOUS
  <2>3. QED
    BY <2>1, <2>2
<1>9. Min({2, 4}) = 2 /\ Max({2, 4}) = 4
  BY DEF Min, Max
<1>10. /\ UpTo(t, 2) = << d(1) >> /\ SubSeq(t, 3, 3) = << d(2) >> /\ Beyond(t, 4) = << d(3) >>
  <2>1. 1 \in 1..Len(t) /\ 3 \in 1..Len(t) /\ 5 \in 1..Len(t)
    BY <1>4
  <2>2. SubSeq(t, 1, 1) = << t[1] >> /\ SubSeq(t, 3, 3) = << t[3] >> /\ SubSeq(t, 5, 5) = << t[5] >>
    BY <1>4, <2>1, SingleCharacter
  <2>3. UpTo(t, 2) = SubSeq(t, 1, 1) /\ Beyond(t, 4) = SubSeq(t, 5, 5)
    BY <1>4 DEF UpTo, Beyond
  <2>4. QED
    BY <1>4, <2>2, <2>3
<1>11. VersionParts(t) = << << d(1) >>, << d(2) >>, << d(3) >> >>
  <2>1. VersionParts(t) = << UpTo(t, 2), SubSeq(t, 2 + 1, 4 - 1), Beyond(t, 4) >>
    BY <1>7, <1>9 DEF VersionParts
  <2>2. 2 + 1 = 3 /\ 4 - 1 = 3
    OBVIOUS
  <2>3. QED
    BY <1>10, <2>1, <2>2
<1>12. \A k \in 1..3 : VersionParts(t)[k] = << d(k) >>
  BY <1>11
<1>13. IsVersion(t)
  BY <1>2, <1>7, <1>8, <1>12 DEF IsVersion, d
<1>14. VersionOf(t) = v
  <2>1. VersionOf(t) = [ k \in 1..3 |-> v[k] ]
    BY <1>2, <1>12 DEF VersionOf, d
  <2>2. v \in [1..3 -> 0..MaxU32]
    <3>1. v \in [1..Len(v) -> 0..MaxU32]
      BY LenProperties
    <3>2. QED
      BY <3>1
  <2>3. QED
    BY <2>1, <2>2
<1>15. QED
  BY <1>4, <1>6, <1>13, <1>14 DEF t

(* contract.rs:6-11: the text of a contract is read back as that contract. *)
LEMMA TextIsReadBack ==
  ASSUME NEW c, GoodContract(c)
  PROVE  Parse(ShownContract(c)) = c
<1> DEFINE text    == ShownContract(c)
           path    == PathText(c)
           rest    == Numerals(c)
           version == ShownVersion(c.version)
           number  == << Decimal[c.revision] >>
<1>1. /\ path \in Seq(Characters) /\ rest \in Seq(Characters)
      /\ text = path \o << "/" >> \o rest
      /\ rest = version \o << "+" >> \o number
  BY ContractText DEF Numerals
<1>2. /\ c.version \in Seq(0..MaxU32) /\ Len(c.version) = 3 /\ c.revision \in 0..MaxU32
      /\ c.namespace # << >> /\ IsSegment(c.name)
      /\ \A piece \in Pieces(c.namespace, ".") : IsSegment(piece)
      /\ c = ContractOf(c.namespace, c.name, c.version, c.revision)
  BY DEF GoodContract
<1>3. /\ version \in Seq(Characters) /\ Cuts(version, "+") = {} /\ IsVersion(version)
      /\ VersionOf(version) = c.version
  BY <1>2, VersionIsRead
<1>4. /\ number \in Seq(Characters) /\ IsU32(number) /\ U32(number) = c.revision
  BY <1>2, DecimalIsRead
<1>5. /\ Cuts(path, "/") = {} /\ Cuts(path, ".") # {}
      /\ UpTo(path, PathCut(path)) = c.namespace /\ Beyond(path, PathCut(path)) = c.name
  BY PathIsCut
<1>6. "/" \in Characters /\ "+" \in Characters
  BY DEF Characters, Separators
<1> HIDE DEF text, path, rest, version, number
<1>7. /\ Cuts(text, "/") # {} /\ UpTo(text, Min(Cuts(text, "/"))) = path
      /\ Beyond(text, Min(Cuts(text, "/"))) = rest
  <2>1. text \in Seq(Characters) /\ IsJoined(text, path, "/", rest)
    BY <1>1, <1>6, JoinedText
  <2>2. /\ Cuts(text, "/") # {} /\ Min(Cuts(text, "/")) = Len(path) + 1
        /\ UpTo(text, Len(path) + 1) = path /\ Beyond(text, Len(path) + 1) = rest
    <3>1. path \in Seq(Characters) /\ rest \in Seq(Characters) /\ "/" \in Characters
          /\ Cuts(path, "/") = {}
      BY <1>1, <1>5, <1>6
    <3>2. QED
      BY <2>1, <3>1, CutInTwo
  <2>3. QED
    BY <2>2
<1>8. /\ Cuts(rest, "+") # {} /\ UpTo(rest, Min(Cuts(rest, "+"))) = version
      /\ Beyond(rest, Min(Cuts(rest, "+"))) = number
  <2>1. IsJoined(rest, version, "+", number)
    BY <1>1, <1>3, <1>4, <1>6, JoinedText
  <2>2. /\ Cuts(rest, "+") # {} /\ Min(Cuts(rest, "+")) = Len(version) + 1
        /\ UpTo(rest, Len(version) + 1) = version /\ Beyond(rest, Len(version) + 1) = number
    <3>1. version \in Seq(Characters) /\ number \in Seq(Characters) /\ "+" \in Characters
          /\ Cuts(version, "+") = {} /\ rest \in Seq(Characters)
      BY <1>1, <1>3, <1>4, <1>6
    <3>2. QED
      BY <2>1, <3>1, CutInTwo
  <2>3. QED
    BY <2>2
<1>9. Parse(text) = NewContract(c.namespace, c.name, c.version, c.revision)
  BY <1>3, <1>4, <1>5, <1>7, <1>8 DEF Parse
<1>10. NewContract(c.namespace, c.name, c.version, c.revision) = c
  BY <1>2 DEF NewContract
<1>11. QED
  BY <1>9, <1>10 DEF text

-----------------------------------------------------------------------------
(* The text of a SchemaId, and the three grammars. *)

(* schema_id.rs:5-14: the text of a SchemaId leaves the revision open and  *)
(* nothing else.                                                           *)
LEMMA IdTextDetermines ==
  ASSUME NEW c, NEW d, GoodContract(c), GoodContract(d),
         ShownSchemaId(SchemaIdOf(c)) = ShownSchemaId(SchemaIdOf(d))
  PROVE  [c EXCEPT !.revision = d.revision] = d
<1> DEFINE x == ContractOf(c.namespace, c.name, c.version, d.revision)
<1>1. [c EXCEPT !.revision = d.revision] = x
  <2>1. c = ContractOf(c.namespace, c.name, c.version, c.revision)
    BY DEF GoodContract
  <2> DEFINE new == d.revision
  <2> HIDE DEF new
  <2>2. [ContractOf(c.namespace, c.name, c.version, c.revision) EXCEPT !.revision = new]
          = ContractOf(c.namespace, c.name, c.version, new)
    BY DEF ContractOf
  <2>3. QED
    BY <2>1, <2>2 DEF new
<1>2. x.namespace = c.namespace /\ x.name = c.name /\ x.version = c.version /\ x.revision = d.revision
  BY DEF ContractOf
<1>3. x = ContractOf(x.namespace, x.name, x.version, x.revision)
  BY <1>2
<1> HIDE DEF x
<1>4. GoodContract(x)
  BY <1>2, <1>3 DEF GoodContract
<1>5. ASSUME NEW y
      PROVE  ShownContract(y) = ShownSchemaId(SchemaIdOf(y)) \o << "+", Decimal[y.revision] >>
  <2> DEFINE id == SchemaIdOf(y)
  <2>1. id.namespace = y.namespace /\ id.name = y.name /\ id.version = y.version
    BY DEF SchemaIdOf
  <2> HIDE DEF id
  <2>2. ShownContract(y) = ShownSchemaId(id) \o << "+", Decimal[y.revision] >>
    BY <2>1 DEF ShownContract, ShownSchemaId
  <2>3. QED
    BY <2>2 DEF id
<1>6. SchemaIdOf(x) = SchemaIdOf(c)
  BY <1>2 DEF SchemaIdOf
<1>7. ShownContract(x) = ShownContract(d)
  BY <1>2, <1>5, <1>6
<1>8. x = d
  BY <1>4, <1>7, TextIsReadBack
<1>9. QED
  BY <1>1, <1>8

(* What Contract::new refuses, the identifier pattern refuses, or it has   *)
(* more than one segment.                                                  *)
LEMMA RefusedNames ==
  ASSUME NEW namespace \in Seq(Characters), NEW name \in Seq(Characters), NEW version, NEW revision,
         NewContract(namespace, name, version, revision) = NoContract
  PROVE  ~IsIdentifier(namespace) \/ ~IsIdentifier(name) \/ Cuts(name, ".") # {}
<1>1. SUFFICES ASSUME IsIdentifier(namespace), IsIdentifier(name), Cuts(name, ".") = {}
               PROVE  FALSE
  OBVIOUS
<1>2. namespace # << >> /\ \A piece \in Pieces(namespace, ".") : IsSegment(piece)
  BY <1>1 DEF IsIdentifier, IsSegment
<1>3. name \in Pieces(name, ".")
  BY <1>1, OnePiece
<1>4. IsSegment(name)
  BY <1>1, <1>3 DEF IsIdentifier, IsSegment
<1>5. ContractOf(namespace, name, version, revision) = NoContract
  BY <1>2, <1>4 DEF NewContract
<1>6. ContractOf(namespace, name, version, revision).is = NoContract.is
  BY <1>5
<1>7. QED
  BY <1>6 DEF ContractOf, NoContract

(* What Contract::new accepts, the other two grammars accept. *)
LEMMA AcceptedNames ==
  ASSUME NEW c, GoodContract(c)
  PROVE  /\ IsIdentifier(c.namespace) /\ IsIdentifier(c.name) /\ Cuts(c.name, ".") = {}
         /\ IsSemanticId(c.namespace \o << "." >> \o c.name)
<1>1. /\ c.namespace \in Seq(Characters) /\ c.namespace # << >> /\ c.name \in Seq(Characters)
      /\ IsSegment(c.name) /\ \A piece \in Pieces(c.namespace, ".") : IsSegment(piece)
      /\ "." \in Characters /\ "." \in Separators
  BY DEF GoodContract, Characters, Separators
<1>2. Cuts(c.name, ".") = {} /\ Len(c.name) = 1
  BY <1>1, SegmentIsOneWord DEF IsSegment
<1>3. IsIdentifier(c.namespace)
  BY <1>1 DEF IsIdentifier, IsSegment
<1>4. IsIdentifier(c.name)
  <2>1. \A piece \in Pieces(c.name, ".") : IsSegment(piece)
    BY <1>1, <1>2, OnePiece
  <2>2. c.name # << >>
    BY <1>2
  <2>3. QED
    BY <2>1, <2>2 DEF IsIdentifier, IsSegment
<1>5. \A piece \in Pieces(c.namespace \o << "." >> \o c.name, ".") : IsSegment(piece)
  BY <1>1, <1>2, JoinedPieces
<1>6. QED
  BY <1>2, <1>3, <1>4, <1>5 DEF IsSemanticId, IsSegment

-----------------------------------------------------------------------------
(* The inductive invariant: the store is keyed by the text of what it      *)
(* holds, each entry is hashed as it is, and the last answer was given by  *)
(* that hash.                                                              *)

EntryIsGood(key) ==
  LET entry == published[key]
  IN  /\ GoodContract(entry.contract) /\ key = ShownContract(entry.contract)
      /\ entry.fields \in FieldLists /\ IsSchema(entry.fields)
      /\ entry.hash = SchemaHash(entry.contract, entry.fields)

Offered == answer.status \in {"published", "again", "altered"}

OfferIsGood ==
  /\ GoodContract(answer.contract) /\ ShownContract(answer.contract) \in DOMAIN published
  /\ answer.fields \in FieldLists /\ IsSchema(answer.fields)
  /\ answer.status = "again" => SchemaHash(answer.contract, answer.fields) = Entry.hash
  /\ answer.status = "altered" => SchemaHash(answer.contract, answer.fields) # Entry.hash

Inv ==
  /\ \A key \in DOMAIN published : EntryIsGood(key)
  /\ answer.status = "invalid contract" =>
       answer.source \in Sources /\ ContractFrom[answer.source] = NoContract
  /\ Offered => OfferIsGood

(* Nothing is stored and nothing was offered. *)
LEMMA InitInv == Init => Inv
<1>1. SUFFICES ASSUME Init PROVE Inv
  OBVIOUS
<1>2. DOMAIN published = {} /\ answer.status = "none"
  BY <1>1 DEF Init
<1>3. QED
  BY <1>2 DEF Inv, Offered

(* Each action preserves the invariant: only PublishFirst touches the      *)
(* store, and under a text that it did not hold.                           *)
LEMMA NextInv == Inv /\ [Next]_vars => Inv'
<1>1. SUFFICES ASSUME Inv, [Next]_vars PROVE Inv'
  OBVIOUS
<1>2. CASE UNCHANGED vars
  BY <1>1, <1>2 DEF vars, Inv, EntryIsGood, Offered, OfferIsGood, Entry
<1>3. ASSUME NEW source \in Sources, RefuseContract(source) PROVE Inv'
  <2>1. /\ ContractFrom[source] = NoContract /\ answer'.status = "invalid contract"
        /\ answer'.source = source /\ published' = published
    BY <1>3 DEF RefuseContract
  <2>2. QED
    BY <1>1, <2>1 DEF Inv, EntryIsGood, Offered
<1>4. ASSUME NEW source \in Sources, NEW fields \in FieldLists, RefuseFields(source, fields)
      PROVE  Inv'
  <2>1. answer'.status = "duplicate field" /\ published' = published
    BY <1>4 DEF RefuseFields
  <2>2. QED
    BY <1>1, <2>1 DEF Inv, EntryIsGood, Offered
<1>5. ASSUME NEW source \in Sources, NEW fields \in FieldLists, PublishFirst(source, fields)
      PROVE  Inv'
  <2> DEFINE contract == ContractFrom[source]
             key      == ShownContract(contract)
             hash     == SchemaHash(contract, fields)
             entry    == [contract |-> contract, fields |-> fields, hash |-> hash]
  <2>1. /\ contract # NoContract /\ IsSchema(fields) /\ key \notin DOMAIN published
        /\ published' = [ k \in DOMAIN published \cup {key} |-> IF k = key THEN entry ELSE published[k] ]
        /\ answer' = [status |-> "published", contract |-> contract, fields |-> fields]
    BY <1>5 DEF PublishFirst, Answer
  <2>2. GoodContract(contract)
    BY <2>1, ContractsAreGood
  <2> HIDE DEF contract
  <2>0. key = ShownContract(contract) /\ hash = SchemaHash(contract, fields)
        /\ entry.contract = contract /\ entry.fields = fields /\ entry.hash = hash
    OBVIOUS
  <2> HIDE DEF key, hash, entry
  <2>3. /\ DOMAIN published' = DOMAIN published \cup {key} /\ published'[key] = entry
        /\ \A k \in DOMAIN published : published'[k] = published[k]
    BY <2>1
  <2>4. EntryIsGood(key)'
    BY <2>0, <2>1, <2>2, <2>3 DEF EntryIsGood
  <2>5. \A k \in DOMAIN published : EntryIsGood(k)'
    BY <1>1, <2>3 DEF Inv, EntryIsGood
  <2>6. answer'.status = "published" /\ answer'.contract = contract /\ answer'.fields = fields
    BY <2>1
  <2>7. OfferIsGood'
    BY <2>0, <2>1, <2>2, <2>3, <2>6 DEF OfferIsGood
  <2>8. QED
    BY <2>3, <2>4, <2>5, <2>6, <2>7 DEF Inv, Offered
<1>6. ASSUME NEW source \in Sources, NEW fields \in FieldLists, PublishAgain(source, fields)
      PROVE  Inv'
  <2> DEFINE contract == ContractFrom[source]
             key      == ShownContract(contract)
             status   == IF SchemaHash(contract, fields) = published[key].hash THEN "again" ELSE "altered"
  <2>1. /\ contract # NoContract /\ IsSchema(fields) /\ key \in DOMAIN published
        /\ answer' = [status |-> status, contract |-> contract, fields |-> fields]
        /\ published' = published
    BY <1>6 DEF PublishAgain, Answer
  <2>2. GoodContract(contract)
    BY <2>1, ContractsAreGood
  <2> HIDE DEF contract
  <2>3. /\ status = "again" => SchemaHash(contract, fields) = published[key].hash
        /\ status = "altered" => SchemaHash(contract, fields) # published[key].hash
        /\ status \in {"again", "altered"}
    OBVIOUS
  <2> HIDE DEF status
  <2>4. answer'.status = status /\ answer'.contract = contract /\ answer'.fields = fields
    BY <2>1
  <2>5. Entry' = published[key]
    BY <2>1, <2>4 DEF Entry
  <2>6. OfferIsGood'
    BY <2>1, <2>2, <2>3, <2>4, <2>5 DEF OfferIsGood
  <2>7. QED
    BY <1>1, <2>1, <2>3, <2>4, <2>6 DEF Inv, EntryIsGood, Offered
<1>7. QED
  BY <1>1, <1>2, <1>3, <1>4, <1>5, <1>6 DEF Next

(* The invariant holds throughout. *)
LEMMA Invariant == Spec => []Inv
<1>1. QED
  BY InitInv, NextInv, PTL DEF Spec

(* Every contract in the store or in the last answer is good. *)
LEMMA KnownAreGood ==
  ASSUME Inv, NEW c \in Known
  PROVE  GoodContract(c)
<1>1. CASE \E key \in DOMAIN published : c = published[key].contract
  BY <1>1 DEF Inv, EntryIsGood
<1>2. CASE Offered /\ c = answer.contract
  BY <1>2 DEF Inv, OfferIsGood
<1>3. QED
  BY <1>1, <1>2 DEF Known, Offered

(* contract.rs:6-11: the text of every contract in use is read back as     *)
(* that contract, and equal texts of SchemaIds mean contracts that differ  *)
(* in the revision at most.                                                *)
THEOREM PrintedTextIsIdentity == Spec => []PrintedIdentity
<1>1. Inv => PrintedIdentity
  <2>1. SUFFICES ASSUME Inv PROVE PrintedIdentity
    OBVIOUS
  <2>2. \A c \in Known : Parse(ShownContract(c)) = c
    BY <2>1, KnownAreGood, TextIsReadBack
  <2>3. ASSUME NEW c \in Known, NEW d \in Known,
               ShownSchemaId(SchemaIdOf(c)) = ShownSchemaId(SchemaIdOf(d))
        PROVE  [c EXCEPT !.revision = d.revision] = d
    <3>1. GoodContract(c) /\ GoodContract(d)
      BY <2>1, KnownAreGood
    <3>2. QED
      BY <2>3, <3>1, IdTextDetermines
  <2>4. QED
    BY <2>2, <2>3 DEF PrintedIdentity
<1>2. QED
  BY <1>1, Invariant, PTL

(* contract.rs:20, validator.rs:228-231 and semantic_id.rs:10-19: what     *)
(* Contract::new refuses is refused by the identifier pattern or is more   *)
(* than one segment, and the path of every contract is a SemanticId.       *)
THEOREM GrammarsAlwaysAgree == Spec => []GrammarsAgree
<1>1. Inv => GrammarsAgree
  <2>1. SUFFICES ASSUME Inv PROVE GrammarsAgree
    OBVIOUS
  <2>2. ASSUME answer.status = "invalid contract", answer.source.by = "new"
        PROVE  LET part == answer.source.part
               IN  ~IsIdentifier(part.namespace) \/ ~IsIdentifier(part.name)
                     \/ Cuts(part.name, ".") # {}
    <3> DEFINE source == answer.source
    <3>1. source \in Sources /\ ContractFrom[source] = NoContract /\ source.by = "new"
      BY <2>1, <2>2 DEF Inv
    <3> HIDE DEF source
    <3>2. PICK part \in Parts : source = [by |-> "new", part |-> part]
      <4>1. ASSUME NEW text \in Texts, source = [by |-> "parse", text |-> text] PROVE FALSE
        BY <3>1, <4>1
      <4>2. QED
        BY <3>1, <4>1 DEF Sources
    <3>3. NewContract(part.namespace, part.name, part.version, part.revision) = NoContract
      BY <3>1, <3>2 DEF ContractFrom
    <3>4. part.namespace \in Seq(Characters) /\ part.name \in Seq(Characters)
      BY PartsAssumption DEF Part, Characters
    <3>5. source.part = part
      BY <3>2
    <3>6. ~IsIdentifier(part.namespace) \/ ~IsIdentifier(part.name) \/ Cuts(part.name, ".") # {}
      BY <3>3, <3>4, RefusedNames
    <3>7. QED
      BY <3>5, <3>6 DEF source
  <2>3. ASSUME NEW c \in Known
        PROVE  /\ IsIdentifier(c.namespace) /\ IsIdentifier(c.name) /\ Cuts(c.name, ".") = {}
               /\ IsSemanticId(c.namespace \o << "." >> \o c.name)
    <3>1. GoodContract(c)
      BY <2>1, KnownAreGood
    <3>2. QED
      BY <3>1, AcceptedNames
  <2>4. QED
    BY <2>2, <2>3 DEF GrammarsAgree
<1>2. QED
  BY <1>1, Invariant, PTL

(* A text, by its length. *)
Letters(text) == [ i \in DOMAIN text |-> [text |-> text[i]] ]

(* What is fed of a text after its length. *)
LEMMA LettersAre ==
  ASSUME NEW text, IsSequence(text)
  PROVE  /\ IsSequence(Letters(text)) /\ Len(Letters(text)) = Len(text)
         /\ \A i \in 1..Len(text) : Letters(text)[i] = [text |-> text[i]]
<1> DEFINE n == Len(text)
           T == { [text |-> a] : a \in Range(text) }
<1>1. n \in Nat /\ DOMAIN text = 1..n /\ \A i \in 1..n : text[i] \in Range(text)
  BY SequenceOf
<1>2. \A i \in 1..n : [text |-> text[i]] \in T
  BY <1>1
<1> HIDE DEF T, n
<1>3. Letters(text) = [ i \in 1..n |-> [text |-> text[i]] ]
  BY <1>1 DEF Letters
<1>4. [ i \in 1..n |-> [text |-> text[i]] ] \in Seq(T)
  BY <1>1, <1>2
<1>5. Len([ i \in 1..n |-> [text |-> text[i]] ]) = n
  BY <1>1
<1>6. QED
  BY <1>3, <1>4, <1>5, SequenceIs DEF n

(* The length in front says how far a text goes. *)
LEMMA TextIsRead ==
  ASSUME NEW a, NEW b, IsSequence(a), IsSequence(b),
         NEW s, NEW p \in Nat, At(s, p, TextStream(a)), At(s, p, TextStream(b))
  PROVE  a = b
<1> DEFINE head(t) == << Count(Len(t)) >>
<1>1. ASSUME NEW t, IsSequence(t), At(s, p, TextStream(t))
      PROVE  s[p + 1] = Count(Len(t)) /\ At(s, p + 1, Letters(t))
  <2>1. TextStream(t) = head(t) \o Letters(t)
    BY DEF TextStream, Letters
  <2>2. IsSequence(head(t)) /\ Len(head(t)) = 1 /\ IsSequence(Letters(t))
    BY <1>1, OneToken, LettersAre
  <2>3. At(s, p, head(t)) /\ At(s, p + Len(head(t)), Letters(t))
    <3> DEFINE h == head(t)
    <3>1. At(s, p, h \o Letters(t)) /\ IsSequence(h)
      BY <1>1, <2>1, <2>2
    <3> HIDE DEF h
    <3>2. QED
      BY <2>2, <3>1, AtJoined DEF h
  <2>4. s[p + 1] = Count(Len(t))
    BY <2>3, OneTokenAt
  <2>5. QED
    BY <2>2, <2>3, <2>4
<1>2. Count(Len(a)) = Count(Len(b))
  BY <1>1
<1>3. Len(a) = Len(b)
  BY <1>2 DEF Count
<1>4. \A i \in 1..Len(a) : Letters(a)[i] = Letters(b)[i]
  <2>1. At(s, p + 1, Letters(a)) /\ At(s, p + 1, Letters(b))
    BY <1>1
  <2>2. Len(Letters(a)) = Len(a) /\ Len(Letters(b)) = Len(b)
    BY LettersAre
  <2>3. QED
    BY <1>3, <2>1, <2>2 DEF At
<1>5. \A i \in 1..Len(a) : a[i] = b[i]
  <2>1. ASSUME NEW i \in 1..Len(a) PROVE a[i] = b[i]
    <3>1. Letters(a)[i] = [text |-> a[i]] /\ Letters(b)[i] = [text |-> b[i]]
      BY <1>3, LettersAre
    <3>2. [text |-> a[i]] = [text |-> b[i]]
      BY <1>4, <3>1
    <3>3. [text |-> a[i]].text = [text |-> b[i]].text
      BY <3>2
    <3>4. QED
      BY <3>3
  <2>2. QED
    BY <2>1
<1>6. QED
  BY <1>3, <1>5, InCommon, SeqEqual

(* What is fed of a text is a sequence. *)
LEMMA TextStreamIs ==
  ASSUME NEW t, IsSequence(t)
  PROVE  IsSequence(TextStream(t))
<1> DEFINE h == << Count(Len(t)) >>
<1>1. IsSequence(h) /\ IsSequence(Letters(t))
  BY OneToken, LettersAre
<1>2. TextStream(t) = h \o Letters(t)
  BY DEF TextStream, Letters
<1> HIDE DEF h
<1>3. QED
  BY <1>1, <1>2, JoinIsSequence

-----------------------------------------------------------------------------
(* Bounds and constraints. *)

(* What is fed of a bound is a sequence. *)
LEMMA BoundStreamIs ==
  ASSUME NEW b
  PROVE  IsSequence(BoundStream(b))
BY OneToken, TwoTokens DEF BoundStream

(* The tag in front says whether a bound is there; NaN is a bound. *)
LEMMA BoundIsRead ==
  ASSUME NEW a, NEW b, NEW s, NEW p \in Nat, At(s, p, BoundStream(a)), At(s, p, BoundStream(b))
  PROVE  a = b
<1>1. ASSUME NEW c, At(s, p, BoundStream(c))
      PROVE  \/ c = None /\ s[p + 1] = Tag("none")
             \/ c # None /\ s[p + 1] = Tag("some") /\ s[p + 2] = Bits(c)
  <2>1. CASE c = None
    <3>1. At(s, p, << Tag("none") >>)
      BY <1>1, <2>1 DEF BoundStream
    <3>2. QED
      BY <2>1, <3>1, OneTokenAt
  <2>2. CASE c # None
    <3>1. At(s, p, << Tag("some"), Bits(c) >>)
      BY <1>1, <2>2 DEF BoundStream
    <3>2. QED
      BY <2>2, <3>1, TwoTokensAt
  <2>3. QED
    BY <2>1, <2>2
<1>2. Tag("none") # Tag("some")
  <2>1. Tag("none").tag = "none" /\ Tag("some").tag = "some"
    BY DEF Tag
  <2>2. QED
    BY <2>1
<1>3. ASSUME Bits(a) = Bits(b) PROVE a = b
  <2>1. Bits(a).bits = Bits(b).bits
    BY <1>3
  <2>2. QED
    BY <2>1 DEF Bits
<1>4. QED
  BY <1>1, <1>2, <1>3

(* What is fed of a constraint after its kind. *)
ConstraintRest(c) ==
  CASE c.kind \in {"range", "length"} -> BoundStream(c.minimum) \o BoundStream(c.maximum)
    [] c.kind = "pattern"  -> TextStream(c.grammar)
    [] c.kind = "custom"   -> TextStream(c.name) \o TextStream(c.description)
    [] c.kind = "nonempty" -> << >>

(* The cases of ConstraintRest, one by one. *)
LEMMA RestByKind ==
  ASSUME NEW c
  PROVE  /\ c.kind \in {"range", "length"} =>
              ConstraintRest(c) = BoundStream(c.minimum) \o BoundStream(c.maximum)
         /\ c.kind = "pattern" => ConstraintRest(c) = TextStream(c.grammar)
         /\ c.kind = "custom" => ConstraintRest(c) = TextStream(c.name) \o TextStream(c.description)
         /\ c.kind = "nonempty" => ConstraintRest(c) = << >>
<1> DEFINE k == c.kind
           r == BoundStream(c.minimum) \o BoundStream(c.maximum)
           g == TextStream(c.grammar)
           n == TextStream(c.name) \o TextStream(c.description)
<1>1. ConstraintRest(c) = CASE k \in {"range", "length"} -> r [] k = "pattern" -> g
                            [] k = "custom" -> n [] k = "nonempty" -> << >>
  BY DEF ConstraintRest
<1> HIDE DEF k, r, g, n
<1>2. /\ k \in {"range", "length"} => ConstraintRest(c) = r
      /\ k = "pattern" => ConstraintRest(c) = g
      /\ k = "custom" => ConstraintRest(c) = n
      /\ k = "nonempty" => ConstraintRest(c) = << >>
  BY <1>1
<1>3. QED
  BY <1>2 DEF k, r, g, n

(* What is fed of a constraint is its kind and the rest. *)
LEMMA ConstraintStreamIs ==
  ASSUME NEW c, ConstraintShape(c)
  PROVE  /\ IsSequence(ConstraintRest(c)) /\ IsSequence(ConstraintStream(c))
         /\ ConstraintStream(c) = << Tag(c.kind) >> \o ConstraintRest(c)
<1>1. ConstraintStream(c) = << Tag(c.kind) >> \o ConstraintRest(c)
  BY DEF ConstraintStream, ConstraintRest
<1>2. ASSUME c.kind \in {"range", "length"} PROVE IsSequence(ConstraintRest(c))
  BY <1>2, RestByKind, BoundStreamIs, JoinIsSequence
<1>3. ASSUME c.kind = "pattern" PROVE IsSequence(ConstraintRest(c))
  <2>1. IsSequence(c.grammar)
    BY <1>3 DEF ConstraintShape
  <2>2. QED
    BY <1>3, <2>1, RestByKind, TextStreamIs
<1>4. ASSUME c.kind = "custom" PROVE IsSequence(ConstraintRest(c))
  <2>1. IsSequence(c.name) /\ IsSequence(c.description)
    BY <1>4 DEF ConstraintShape
  <2>2. IsSequence(TextStream(c.name)) /\ IsSequence(TextStream(c.description))
    BY <2>1, TextStreamIs
  <2>3. QED
    BY <1>4, <2>2, RestByKind, JoinIsSequence
<1>5. ASSUME c.kind = "nonempty" PROVE IsSequence(ConstraintRest(c))
  <2>1. << >> \in Seq({})
    OBVIOUS
  <2>2. QED
    BY <1>5, <2>1, RestByKind, SequenceIs
<1>6. IsSequence(ConstraintRest(c))
  BY <1>2, <1>3, <1>4, <1>5 DEF ConstraintShape
<1> DEFINE h == << Tag(c.kind) >>
<1>7. IsSequence(h)
  BY OneToken
<1> HIDE DEF h
<1>8. IsSequence(h \o ConstraintRest(c))
  BY <1>6, <1>7, JoinIsSequence
<1>9. QED
  BY <1>1, <1>6, <1>8 DEF h

(* Two texts in a row: where one ends and the other starts is decided. *)
LEMMA TwoTextsAreRead ==
  ASSUME NEW a, NEW b, NEW c, NEW d, IsSequence(a), IsSequence(b), IsSequence(c), IsSequence(d),
         NEW s, NEW p \in Nat,
         At(s, p, TextStream(a) \o TextStream(b)), At(s, p, TextStream(c) \o TextStream(d))
  PROVE  a = c /\ b = d
<1>1. /\ IsSequence(TextStream(a)) /\ IsSequence(TextStream(b))
      /\ IsSequence(TextStream(c)) /\ IsSequence(TextStream(d))
  BY TextStreamIs
<1>2. /\ At(s, p, TextStream(a)) /\ At(s, p + Len(TextStream(a)), TextStream(b))
      /\ At(s, p, TextStream(c)) /\ At(s, p + Len(TextStream(c)), TextStream(d))
  BY <1>1, AtJoined
<1>3. a = c
  BY <1>2, TextIsRead
<1>4. p + Len(TextStream(a)) \in Nat
  BY <1>1, SequenceOf
<1> DEFINE q == p + Len(TextStream(a))
<1>5. q \in Nat /\ At(s, q, TextStream(b)) /\ At(s, q, TextStream(d))
  BY <1>2, <1>3, <1>4
<1> HIDE DEF q
<1>6. b = d
  BY <1>5, TextIsRead
<1>7. QED
  BY <1>3, <1>6

(* Two bounds in a row: which of them is absent is decided. *)
LEMMA TwoBoundsAreRead ==
  ASSUME NEW a, NEW b, NEW c, NEW d, NEW s, NEW p \in Nat,
         At(s, p, BoundStream(a) \o BoundStream(b)), At(s, p, BoundStream(c) \o BoundStream(d))
  PROVE  a = c /\ b = d
<1>1. /\ IsSequence(BoundStream(a)) /\ IsSequence(BoundStream(b))
      /\ IsSequence(BoundStream(c)) /\ IsSequence(BoundStream(d))
  BY BoundStreamIs
<1>2. /\ At(s, p, BoundStream(a)) /\ At(s, p + Len(BoundStream(a)), BoundStream(b))
      /\ At(s, p, BoundStream(c)) /\ At(s, p + Len(BoundStream(c)), BoundStream(d))
  BY <1>1, AtJoined
<1>3. a = c
  BY <1>2, BoundIsRead
<1>4. p + Len(BoundStream(a)) \in Nat
  BY <1>1, SequenceOf
<1> DEFINE q == p + Len(BoundStream(a))
<1>5. q \in Nat /\ At(s, q, BoundStream(b)) /\ At(s, q, BoundStream(d))
  BY <1>2, <1>3, <1>4
<1> HIDE DEF q
<1>6. b = d
  BY <1>5, BoundIsRead
<1>7. QED
  BY <1>3, <1>6

(* The kind in front says what was fed of the constraint. *)
LEMMA ConstraintIsRead ==
  ASSUME NEW a, NEW b, ConstraintShape(a), ConstraintShape(b),
         NEW s, NEW p \in Nat, At(s, p, ConstraintStream(a)), At(s, p, ConstraintStream(b))
  PROVE  a = b
<1>1. ASSUME NEW c, ConstraintShape(c), At(s, p, ConstraintStream(c))
      PROVE  s[p + 1] = Tag(c.kind) /\ At(s, p + 1, ConstraintRest(c))
  <2> DEFINE h == << Tag(c.kind) >>
  <2>1. IsSequence(h) /\ Len(h) = 1 /\ At(s, p, h \o ConstraintRest(c)) /\ IsSequence(ConstraintRest(c))
    BY <1>1, OneToken, ConstraintStreamIs
  <2> HIDE DEF h
  <2>2. At(s, p, h) /\ At(s, p + Len(h), ConstraintRest(c))
    BY <2>1, AtJoined
  <2>3. At(s, p, << Tag(c.kind) >>)
    BY <2>2 DEF h
  <2>4. QED
    BY <2>1, <2>2, <2>3, OneTokenAt
<1>2. Tag(a.kind) = Tag(b.kind)
  BY <1>1
<1>3. a.kind = b.kind
  <2>1. Tag(a.kind).tag = Tag(b.kind).tag
    BY <1>2
  <2>2. QED
    BY <2>1 DEF Tag
<1> DEFINE q == p + 1
<1>4. q \in Nat /\ At(s, q, ConstraintRest(a)) /\ At(s, q, ConstraintRest(b))
  BY <1>1
<1> HIDE DEF q
<1>5. CASE a.kind \in {"range", "length"}
  <2>1. /\ At(s, q, BoundStream(a.minimum) \o BoundStream(a.maximum))
        /\ At(s, q, BoundStream(b.minimum) \o BoundStream(b.maximum))
    BY <1>3, <1>4, <1>5, RestByKind
  <2>2. a.minimum = b.minimum /\ a.maximum = b.maximum
    BY <1>4, <2>1, TwoBoundsAreRead
  <2>3. /\ a = [kind |-> a.kind, minimum |-> a.minimum, maximum |-> a.maximum]
        /\ b = [kind |-> b.kind, minimum |-> b.minimum, maximum |-> b.maximum]
    BY <1>3, <1>5 DEF ConstraintShape
  <2>4. QED
    BY <1>3, <2>2, <2>3
<1>6. CASE a.kind = "pattern"
  <2>1. At(s, q, TextStream(a.grammar)) /\ At(s, q, TextStream(b.grammar))
    BY <1>3, <1>4, <1>6, RestByKind
  <2>2. /\ a = [kind |-> "pattern", grammar |-> a.grammar] /\ IsSequence(a.grammar)
        /\ b = [kind |-> "pattern", grammar |-> b.grammar] /\ IsSequence(b.grammar)
    BY <1>3, <1>6 DEF ConstraintShape
  <2>3. a.grammar = b.grammar
    BY <1>4, <2>1, <2>2, TextIsRead
  <2>4. QED
    BY <2>2, <2>3
<1>7. CASE a.kind = "custom"
  <2>1. /\ At(s, q, TextStream(a.name) \o TextStream(a.description))
        /\ At(s, q, TextStream(b.name) \o TextStream(b.description))
    BY <1>3, <1>4, <1>7, RestByKind
  <2>2. /\ a = [kind |-> "custom", name |-> a.name, description |-> a.description]
        /\ IsSequence(a.name) /\ IsSequence(a.description)
        /\ b = [kind |-> "custom", name |-> b.name, description |-> b.description]
        /\ IsSequence(b.name) /\ IsSequence(b.description)
    BY <1>3, <1>7 DEF ConstraintShape
  <2>3. a.name = b.name /\ a.description = b.description
    BY <1>4, <2>1, <2>2, TwoTextsAreRead
  <2>4. QED
    BY <2>2, <2>3
<1>8. CASE a.kind = "nonempty"
  BY <1>3, <1>8 DEF ConstraintShape
<1>9. QED
  BY <1>5, <1>6, <1>7, <1>8 DEF ConstraintShape

-----------------------------------------------------------------------------
(* Types, fields and schemas. *)

LevelStream(level) ==
  IF level.of = "map" THEN << Tag("map"), Tag(level.key) >> ELSE << Tag(level.of) >>

TypeParts(ty) == [ k \in DOMAIN ty |-> LevelStream(ty[k]) ]

(* What is fed of a type, level by level. *)
LEMMA TypePartsAre ==
  ASSUME NEW ty, IsSequence(ty)
  PROVE  /\ TypeStream(ty) = FlattenSeq(TypeParts(ty))
         /\ Pieced(TypeParts(ty)) /\ Len(TypeParts(ty)) = Len(ty)
         /\ \A k \in 1..Len(ty) : TypeParts(ty)[k] = LevelStream(ty[k])
<1> DEFINE q == TypeParts(ty)
           n == Len(ty)
<1>1. TypeStream(ty) = FlattenSeq(q)
  BY DEF TypeStream, TypeParts, LevelStream
<1>2. n \in Nat /\ DOMAIN ty = 1..n
  BY SequenceOf
<1>3. q = [ k \in 1..n |-> LevelStream(ty[k]) ]
  BY <1>2 DEF TypeParts
<1>4. \A k \in 1..n : q[k] = LevelStream(ty[k])
  BY <1>3
<1>5. q = [ k \in 1..n |-> q[k] ]
  BY <1>3
<1>6. \A k \in 1..n : IsSequence(q[k])
  BY <1>4, OneToken, TwoTokens DEF LevelStream
<1> HIDE DEF q, n
<1>7. Pieced(q) /\ Len(q) = n
  BY <1>2, <1>5, <1>6, PiecedOf
<1>8. QED
  BY <1>1, <1>4, <1>7 DEF q, n

(* Tags are told apart. *)
LEMMA TagsDiffer ==
  ASSUME NEW a, NEW b, Tag(a) = Tag(b)
  PROVE  a = b
<1>1. Tag(a).tag = Tag(b).tag
  OBVIOUS
<1>2. QED
  BY <1>1 DEF Tag

LevelShape(l) == l = IF l.of = "map" THEN [of |-> "map", key |-> l.key] ELSE [of |-> l.of]

(* The tag of a map says that the tag of its key type follows. *)
LEMMA LevelIsRead ==
  ASSUME NEW a, NEW b, LevelShape(a), LevelShape(b),
         NEW s, NEW p \in Nat, At(s, p, LevelStream(a)), At(s, p, LevelStream(b))
  PROVE  a = b
<1>1. ASSUME NEW l, At(s, p, LevelStream(l))
      PROVE  s[p + 1] = Tag(l.of) /\ (l.of = "map" => s[p + 2] = Tag(l.key))
  <2>1. CASE l.of = "map"
    <3>1. At(s, p, << Tag("map"), Tag(l.key) >>)
      BY <1>1, <2>1 DEF LevelStream
    <3>2. QED
      BY <2>1, <3>1, TwoTokensAt
  <2>2. CASE l.of # "map"
    <3>1. At(s, p, << Tag(l.of) >>)
      BY <1>1, <2>2 DEF LevelStream
    <3>2. QED
      BY <2>2, <3>1, OneTokenAt
  <2>3. QED
    BY <2>1, <2>2
<1>2. Tag(a.of) = Tag(b.of) /\ (a.of = "map" /\ b.of = "map" => Tag(a.key) = Tag(b.key))
  BY <1>1
<1>3. a.of = b.of /\ (a.of = "map" => a.key = b.key)
  BY <1>2, TagsDiffer
<1>4. CASE a.of = "map"
  <2>1. a = [of |-> "map", key |-> a.key] /\ b = [of |-> "map", key |-> b.key]
    BY <1>3, <1>4 DEF LevelShape
  <2>2. QED
    BY <1>3, <1>4, <2>1
<1>5. CASE a.of # "map"
  <2>1. a = [of |-> a.of] /\ b = [of |-> b.of]
    BY <1>3, <1>5 DEF LevelShape
  <2>2. QED
    BY <1>3, <2>1
<1>6. QED
  BY <1>4, <1>5

(* TypeShape, with the domain written out. *)
LEMMA TypeOf ==
  ASSUME NEW ty, TypeShape(ty)
  PROVE  /\ IsSequence(ty) /\ Len(ty) \in Nat /\ Len(ty) > 0 /\ DOMAIN ty = 1..Len(ty)
         /\ \A k \in 1..Len(ty) :
              LevelShape(ty[k]) /\ (ty[k].of \in {"list", "map"} <=> k < Len(ty))
BY SequenceOf DEF TypeShape, LevelShape

(* Levels that have an element type say that the type goes on.             *)
LEMMA TypeIsRead ==
  ASSUME NEW a, NEW b, TypeShape(a), TypeShape(b),
         NEW s, NEW p \in Nat, At(s, p, TypeStream(a)), At(s, p, TypeStream(b))
  PROVE  a = b
<1> DEFINE m == Len(a)
           n == Len(b)
           q == TypeParts(a)
           r == TypeParts(b)
<1>1. /\ IsSequence(a) /\ m \in Nat /\ m > 0 /\ IsSequence(b) /\ n \in Nat /\ n > 0
      /\ \A k \in 1..m : LevelShape(a[k]) /\ (a[k].of \in {"list", "map"} <=> k < m)
      /\ \A k \in 1..n : LevelShape(b[k]) /\ (b[k].of \in {"list", "map"} <=> k < n)
  BY TypeOf
<1>2. /\ At(s, p, FlattenSeq(q)) /\ Pieced(q) /\ Len(q) = m
      /\ \A k \in 1..m : q[k] = LevelStream(a[k])
  BY <1>1, TypePartsAre
<1>3. /\ At(s, p, FlattenSeq(r)) /\ Pieced(r) /\ Len(r) = n
      /\ \A k \in 1..n : r[k] = LevelStream(b[k])
  BY <1>1, TypePartsAre
<1>0. m = Len(a) /\ n = Len(b)
  OBVIOUS
<1> HIDE DEF m, n, q, r
<1>4. ASSUME NEW k \in 1..m, k \in 1..n, NEW o \in Nat, At(s, o, q[k]), At(s, o, r[k])
      PROVE  a[k] = b[k] /\ q[k] = r[k]
  <2>1. At(s, o, LevelStream(a[k])) /\ At(s, o, LevelStream(b[k]))
    BY <1>2, <1>3, <1>4
  <2>2. a[k] = b[k]
    BY <1>1, <1>4, <2>1, LevelIsRead
  <2>3. QED
    BY <1>2, <1>3, <1>4, <2>2
<1>5. DecidedBy(s, q, r)
  BY <1>2, <1>3, <1>4 DEF DecidedBy
<1>6. ASSUME NEW k \in 1..m, k \in 1..n PROVE a[k] = b[k]
  <2>1. q[k] = r[k]
    BY <1>2, <1>3, <1>5, <1>6, FlattenIsRead
  <2>2. IsSequence(q[k]) /\ q[k] = LevelStream(a[k]) /\ q[k] = LevelStream(b[k])
    BY <1>2, <1>3, <1>6, <2>1 DEF Pieced
  <2>3. At(q[k], 0, q[k])
    <3>1. \A i \in 1..Len(q[k]) : 0 + i = i
      BY <2>2, SequenceOf
    <3>2. QED
      BY <3>1 DEF At
  <2>4. At(q[k], 0, LevelStream(a[k])) /\ At(q[k], 0, LevelStream(b[k])) /\ 0 \in Nat
    BY <2>2, <2>3
  <2>5. QED
    BY <1>1, <1>6, <2>4, LevelIsRead
<1>7. m = n
  <2>1. ASSUME m < n PROVE FALSE
    <3>1. m \in 1..m /\ m \in 1..n /\ ~(m < m)
      BY <1>1, <2>1
    <3>2. QED
      BY <1>1, <1>6, <2>1, <3>1
  <2>2. ASSUME n < m PROVE FALSE
    <3>1. n \in 1..m /\ n \in 1..n /\ ~(n < n)
      BY <1>1, <2>2
    <3>2. QED
      BY <1>1, <1>6, <2>2, <3>1
  <2>3. QED
    BY <1>1, <2>1, <2>2
<1>8. QED
  BY <1>0, <1>1, <1>6, <1>7, InCommon, SeqEqual

(* What is fed of a type is a sequence. *)
LEMMA TypeStreamIs ==
  ASSUME NEW ty, TypeShape(ty)
  PROVE  IsSequence(TypeStream(ty))
BY TypeOf, TypePartsAre, FlattenIsSequence

ConstraintParts(f) == [ k \in DOMAIN f.constraints |-> ConstraintStream(f.constraints[k]) ]

(* What is fed of the constraints of a field, one by one. *)
LEMMA ConstraintPartsAre ==
  ASSUME NEW f, FieldShape(f)
  PROVE  /\ Pieced(ConstraintParts(f)) /\ Len(ConstraintParts(f)) = Len(f.constraints)
         /\ Len(f.constraints) \in Nat /\ IsSequence(f.constraints)
         /\ \A k \in 1..Len(f.constraints) :
              /\ ConstraintShape(f.constraints[k])
              /\ ConstraintParts(f)[k] = ConstraintStream(f.constraints[k])
<1> DEFINE q == ConstraintParts(f)
           cs == f.constraints
           n == Len(cs)
<1>1. n \in Nat /\ DOMAIN cs = 1..n /\ IsSequence(cs) /\ \A k \in 1..n : ConstraintShape(cs[k])
  BY SequenceOf DEF FieldShape
<1>2. q = [ k \in 1..n |-> ConstraintStream(cs[k]) ]
  BY <1>1 DEF ConstraintParts
<1>3. \A k \in 1..n : q[k] = ConstraintStream(cs[k]) /\ IsSequence(q[k])
  BY <1>1, <1>2, ConstraintStreamIs
<1>4. q = [ k \in 1..n |-> q[k] ]
  BY <1>2
<1> HIDE DEF q, n
<1>5. Pieced(q) /\ Len(q) = n
  BY <1>1, <1>3, <1>4, PiecedOf
<1>6. QED
  BY <1>1, <1>3, <1>5 DEF q, n

(* As many constraints as were counted, in their order. *)
LEMMA ConstraintsAreRead ==
  ASSUME NEW f, NEW g, FieldShape(f), FieldShape(g), Len(f.constraints) = Len(g.constraints),
         NEW s, NEW p \in Nat,
         At(s, p, FlattenSeq(ConstraintParts(f))), At(s, p, FlattenSeq(ConstraintParts(g)))
  PROVE  f.constraints = g.constraints
<1> DEFINE q == ConstraintParts(f)
           r == ConstraintParts(g)
           a == f.constraints
           b == g.constraints
           n == Len(a)
<1>1. /\ Pieced(q) /\ Len(q) = n /\ n \in Nat /\ IsSequence(a)
      /\ \A k \in 1..n : ConstraintShape(a[k]) /\ q[k] = ConstraintStream(a[k])
  BY ConstraintPartsAre
<1>2. /\ Pieced(r) /\ Len(r) = n /\ IsSequence(b)
      /\ \A k \in 1..n : ConstraintShape(b[k]) /\ r[k] = ConstraintStream(b[k])
  BY ConstraintPartsAre
<1>3. /\ At(s, p, FlattenSeq(q)) /\ At(s, p, FlattenSeq(r)) /\ n = Len(a) /\ Len(a) = Len(b)
  OBVIOUS
<1> HIDE DEF q, r, a, b, n
<1>4. DecidedBy(s, q, r)
  <2>1. ASSUME NEW k \in 1..n, NEW o \in Nat, At(s, o, q[k]), At(s, o, r[k])
        PROVE  q[k] = r[k]
    <3>1. At(s, o, ConstraintStream(a[k])) /\ At(s, o, ConstraintStream(b[k]))
      BY <1>1, <1>2, <2>1
    <3>2. a[k] = b[k]
      BY <1>1, <1>2, <3>1, ConstraintIsRead
    <3>3. QED
      BY <1>1, <1>2, <3>2
  <2>2. QED
    BY <1>1, <2>1 DEF DecidedBy
<1>5. ASSUME NEW k \in 1..n PROVE a[k] = b[k]
  <2>1. q[k] = r[k]
    BY <1>1, <1>2, <1>3, <1>4, FlattenIsRead
  <2>2. IsSequence(q[k]) /\ q[k] = ConstraintStream(a[k]) /\ q[k] = ConstraintStream(b[k])
    BY <1>1, <1>2, <2>1 DEF Pieced
  <2>3. At(q[k], 0, ConstraintStream(a[k])) /\ At(q[k], 0, ConstraintStream(b[k])) /\ 0 \in Nat
    BY <2>2, AtItself
  <2>4. QED
    BY <1>1, <1>2, <2>3, ConstraintIsRead
<1>6. a = b
  BY <1>1, <1>2, <1>3, <1>5, InCommon, SeqEqual
<1>7. QED
  BY <1>6 DEF a, b

(* What is fed of a field: its name, then everything else.                 *)
FieldHead(f) == TextStream(f.name) \o TypeStream(f.ty) \o << Flag(f.required) >>
FieldFront(f) == FieldHead(f) \o << Count(Len(f.constraints)) >>

(* What is fed of a field is a sequence, and so are its fronts. *)
LEMMA FieldStreamIs ==
  ASSUME NEW f, FieldShape(f)
  PROVE  /\ IsSequence(TextStream(f.name)) /\ IsSequence(TypeStream(f.ty))
         /\ IsSequence(TextStream(f.name) \o TypeStream(f.ty))
         /\ IsSequence(FieldHead(f)) /\ IsSequence(FieldFront(f))
         /\ IsSequence(FlattenSeq(ConstraintParts(f)))
         /\ FieldStream(f) = FieldFront(f) \o FlattenSeq(ConstraintParts(f))
         /\ IsSequence(FieldStream(f))
<1> DEFINE flag  == << Flag(f.required) >>
           count == << Count(Len(f.constraints)) >>
           first == TextStream(f.name) \o TypeStream(f.ty)
<1>1. IsSequence(TextStream(f.name)) /\ IsSequence(TypeStream(f.ty))
  BY TextStreamIs, TypeStreamIs DEF FieldShape
<1>2. IsSequence(flag) /\ IsSequence(count)
  BY OneToken
<1>3. FieldHead(f) = first \o flag /\ FieldFront(f) = FieldHead(f) \o count
  BY DEF FieldHead, FieldFront
<1>4. FieldStream(f) = FieldFront(f) \o FlattenSeq(ConstraintParts(f))
  BY DEF FieldStream, FieldHead, FieldFront, ConstraintParts
<1>5. IsSequence(first)
  BY <1>1, JoinIsSequence
<1>8. first = TextStream(f.name) \o TypeStream(f.ty)
  OBVIOUS
<1> HIDE DEF flag, count, first
<1>6. IsSequence(FieldHead(f))
  BY <1>2, <1>3, <1>5, JoinIsSequence
<1>7. IsSequence(FieldFront(f))
  BY <1>2, <1>3, <1>6, JoinIsSequence
<1>9. IsSequence(FlattenSeq(ConstraintParts(f)))
  BY ConstraintPartsAre, FlattenIsSequence
<1>10. IsSequence(FieldStream(f))
  BY <1>4, <1>7, <1>9, JoinIsSequence
<1>11. QED
  BY <1>1, <1>4, <1>5, <1>6, <1>7, <1>8, <1>9, <1>10

(* Where each part of a field is found. *)
LEMMA FieldTokens ==
  ASSUME NEW f, FieldShape(f), NEW s, NEW p \in Nat, At(s, p, FieldStream(f))
  PROVE  LET first == TextStream(f.name) \o TypeStream(f.ty)
         IN  /\ At(s, p, TextStream(f.name))
             /\ p + Len(TextStream(f.name)) \in Nat
             /\ At(s, p + Len(TextStream(f.name)), TypeStream(f.ty))
             /\ s[p + Len(first) + 1] = Flag(f.required)
             /\ s[p + Len(FieldHead(f)) + 1] = Count(Len(f.constraints))
             /\ p + Len(FieldFront(f)) \in Nat
             /\ At(s, p + Len(FieldFront(f)), FlattenSeq(ConstraintParts(f)))
<1> DEFINE first == TextStream(f.name) \o TypeStream(f.ty)
           flag  == << Flag(f.required) >>
           count == << Count(Len(f.constraints)) >>
<1>1. /\ IsSequence(TextStream(f.name)) /\ IsSequence(TypeStream(f.ty)) /\ IsSequence(first)
      /\ IsSequence(FieldHead(f)) /\ IsSequence(FieldFront(f))
      /\ IsSequence(FlattenSeq(ConstraintParts(f)))
      /\ FieldStream(f) = FieldFront(f) \o FlattenSeq(ConstraintParts(f))
  BY FieldStreamIs
<1>2. At(s, p, FieldFront(f)) /\ At(s, p + Len(FieldFront(f)), FlattenSeq(ConstraintParts(f)))
  BY <1>1, AtJoined
<1>3. IsSequence(flag) /\ IsSequence(count)
  BY OneToken
<1>4. FieldHead(f) = first \o flag /\ FieldFront(f) = FieldHead(f) \o count
  BY DEF FieldHead, FieldFront
<1>5. At(s, p, FieldHead(f)) /\ At(s, p + Len(FieldHead(f)), count)
  <2> HIDE DEF count
  <2>1. QED
    BY <1>1, <1>2, <1>3, <1>4, AtJoined
<1>6. At(s, p, first) /\ At(s, p + Len(first), flag)
  <2> HIDE DEF flag, first
  <2>1. QED
    BY <1>1, <1>3, <1>4, <1>5, AtJoined
<1>7. At(s, p, TextStream(f.name)) /\ At(s, p + Len(TextStream(f.name)), TypeStream(f.ty))
  BY <1>1, <1>6, AtJoined
<1>8. /\ p + Len(TextStream(f.name)) \in Nat /\ p + Len(first) \in Nat
      /\ p + Len(FieldHead(f)) \in Nat /\ p + Len(FieldFront(f)) \in Nat
  <2>1. /\ Len(TextStream(f.name)) \in Nat /\ Len(first) \in Nat
        /\ Len(FieldHead(f)) \in Nat /\ Len(FieldFront(f)) \in Nat
    BY <1>1, SequenceOf
  <2> HIDE DEF first
  <2>2. QED
    BY <2>1
<1>9. s[p + Len(first) + 1] = Flag(f.required)
  <2> DEFINE o == p + Len(first)
  <2>1. o \in Nat /\ At(s, o, << Flag(f.required) >>)
    BY <1>6, <1>8
  <2> HIDE DEF o
  <2>2. s[o + 1] = Flag(f.required)
    BY <2>1, OneTokenAt
  <2>3. QED
    BY <2>2 DEF o
<1>10. s[p + Len(FieldHead(f)) + 1] = Count(Len(f.constraints))
  <2> DEFINE o == p + Len(FieldHead(f))
  <2>1. o \in Nat /\ At(s, o, << Count(Len(f.constraints)) >>)
    BY <1>5, <1>8
  <2> HIDE DEF o
  <2>2. s[o + 1] = Count(Len(f.constraints))
    BY <2>1, OneTokenAt
  <2>3. QED
    BY <2>2 DEF o
<1>11. QED
  BY <1>2, <1>7, <1>8, <1>9, <1>10

SameField(f, g) ==
  \A part \in {"name", "ty", "required", "constraints"} : f[part] = g[part]

(* A field is read back up to its description. *)
LEMMA FieldIsRead ==
  ASSUME NEW f, NEW g, FieldShape(f), FieldShape(g), NEW s, NEW p \in Nat,
         At(s, p, FieldStream(f)), At(s, p, FieldStream(g))
  PROVE  SameField(f, g)
<1> DEFINE first(h) == TextStream(h.name) \o TypeStream(h.ty)
<1>1. f.name = g.name
  <2>1. IsSequence(f.name) /\ IsSequence(g.name)
    BY DEF FieldShape
  <2>2. At(s, p, TextStream(f.name)) /\ At(s, p, TextStream(g.name))
    BY FieldTokens
  <2>3. QED
    BY <2>1, <2>2, TextIsRead
<1>2. f.ty = g.ty
  <2> DEFINE o == p + Len(TextStream(f.name))
  <2>1. TypeShape(f.ty) /\ TypeShape(g.ty)
    BY DEF FieldShape
  <2>2. o \in Nat /\ At(s, o, TypeStream(f.ty))
    BY FieldTokens
  <2>3. At(s, o, TypeStream(g.ty))
    BY <1>1, FieldTokens
  <2> HIDE DEF o
  <2>4. QED
    BY <2>1, <2>2, <2>3, TypeIsRead
<1>3. first(f) = first(g)
  BY <1>1, <1>2
<1>4. f.required = g.required
  <2>1. s[p + Len(first(f)) + 1] = Flag(f.required) /\ s[p + Len(first(g)) + 1] = Flag(g.required)
    BY FieldTokens
  <2>2. Flag(f.required) = Flag(g.required)
    BY <1>3, <2>1
  <2>3. Flag(f.required).flag = Flag(g.required).flag
    BY <2>2
  <2>4. QED
    BY <2>3 DEF Flag
<1>5. FieldHead(f) = FieldHead(g)
  BY <1>3, <1>4 DEF FieldHead
<1>6. Len(f.constraints) = Len(g.constraints)
  <2>1. /\ s[p + Len(FieldHead(f)) + 1] = Count(Len(f.constraints))
        /\ s[p + Len(FieldHead(g)) + 1] = Count(Len(g.constraints))
    BY FieldTokens
  <2>2. Count(Len(f.constraints)) = Count(Len(g.constraints))
    BY <1>5, <2>1
  <2>3. Count(Len(f.constraints)).count = Count(Len(g.constraints)).count
    BY <2>2
  <2>4. QED
    BY <2>3 DEF Count
<1>7. f.constraints = g.constraints
  <2> DEFINE o == p + Len(FieldFront(f))
  <2>1. FieldFront(f) = FieldFront(g)
    BY <1>5, <1>6 DEF FieldFront
  <2>2. o \in Nat /\ At(s, o, FlattenSeq(ConstraintParts(f)))
    BY FieldTokens
  <2>3. At(s, o, FlattenSeq(ConstraintParts(g)))
    BY <2>1, FieldTokens
  <2> HIDE DEF o
  <2>4. QED
    BY <1>6, <2>2, <2>3, ConstraintsAreRead
<1>8. QED
  BY <1>1, <1>2, <1>4, <1>7 DEF SameField

-----------------------------------------------------------------------------
(* The hash of a schema. *)

FieldParts(fields) == [ k \in DOMAIN fields |-> FieldStream(fields[k]) ]

FieldsShape(fields) == IsSequence(fields) /\ \A i \in 1..Len(fields) : FieldShape(fields[i])

(* Every list that Schema::new is given has the shape of a Vec<Field>. *)
LEMMA FieldListsHaveShape ==
  ASSUME NEW fields \in FieldLists
  PROVE  FieldsShape(fields)
<1>1. IsSequence(fields) /\ \A f \in Range(fields) : FieldShape(f)
  BY FieldListsAssumption
<1>2. \A i \in 1..Len(fields) : fields[i] \in Range(fields)
  BY <1>1, SequenceOf
<1>3. QED
  BY <1>1, <1>2 DEF FieldsShape

(* What is fed of the fields of a schema, one by one. *)
LEMMA FieldPartsAre ==
  ASSUME NEW fields, FieldsShape(fields)
  PROVE  /\ Pieced(FieldParts(fields)) /\ Len(FieldParts(fields)) = Len(fields)
         /\ Len(fields) \in Nat /\ DOMAIN fields = 1..Len(fields)
         /\ \A k \in 1..Len(fields) :
              FieldShape(fields[k]) /\ FieldParts(fields)[k] = FieldStream(fields[k])
<1> DEFINE q == FieldParts(fields)
           n == Len(fields)
<1>1. n \in Nat /\ DOMAIN fields = 1..n /\ \A k \in 1..n : FieldShape(fields[k])
  BY SequenceOf DEF FieldsShape
<1>2. q = [ k \in 1..n |-> FieldStream(fields[k]) ]
  BY <1>1 DEF FieldParts
<1>3. \A k \in 1..n : q[k] = FieldStream(fields[k]) /\ IsSequence(q[k])
  BY <1>1, <1>2, FieldStreamIs
<1>4. q = [ k \in 1..n |-> q[k] ]
  BY <1>2
<1> HIDE DEF q, n
<1>5. Pieced(q) /\ Len(q) = n
  BY <1>1, <1>3, <1>4, PiecedOf
<1>6. QED
  BY <1>1, <1>3, <1>5 DEF q, n

(* As many fields as were counted, in their order. *)
LEMMA FieldsAreRead ==
  ASSUME NEW fields, NEW others, FieldsShape(fields), FieldsShape(others),
         Len(fields) = Len(others), NEW s, NEW p \in Nat,
         At(s, p, FlattenSeq(FieldParts(fields))), At(s, p, FlattenSeq(FieldParts(others)))
  PROVE  \A i \in 1..Len(fields) : SameField(fields[i], others[i])
<1> DEFINE q == FieldParts(fields)
           r == FieldParts(others)
           n == Len(fields)
<1>1. /\ Pieced(q) /\ Len(q) = n /\ n \in Nat
      /\ \A k \in 1..n : FieldShape(fields[k]) /\ q[k] = FieldStream(fields[k])
  BY FieldPartsAre
<1>2. /\ Pieced(r) /\ Len(r) = n
      /\ \A k \in 1..n : FieldShape(others[k]) /\ r[k] = FieldStream(others[k])
  BY FieldPartsAre
<1>3. At(s, p, FlattenSeq(q)) /\ At(s, p, FlattenSeq(r))
  OBVIOUS
<1> HIDE DEF q, r, n
<1>4. DecidedBy(s, q, r)
  <2>1. ASSUME NEW k \in 1..n, NEW o \in Nat, At(s, o, q[k]), At(s, o, r[k])
        PROVE  q[k] = r[k]
    <3>1. At(s, o, FieldStream(fields[k])) /\ At(s, o, FieldStream(others[k]))
      BY <1>1, <1>2, <2>1
    <3>2. SameField(fields[k], others[k])
      BY <1>1, <1>2, <3>1, FieldIsRead
    <3>3. FieldStream(fields[k]) = FieldStream(others[k])
      BY <3>2 DEF FieldStream, SameField
    <3>4. QED
      BY <1>1, <1>2, <3>3
  <2>2. QED
    BY <1>1, <2>1 DEF DecidedBy
<1>5. ASSUME NEW k \in 1..n PROVE SameField(fields[k], others[k])
  <2>1. q[k] = r[k]
    BY <1>1, <1>2, <1>3, <1>4, FlattenIsRead
  <2>2. IsSequence(q[k]) /\ q[k] = FieldStream(fields[k]) /\ q[k] = FieldStream(others[k])
    BY <1>1, <1>2, <2>1 DEF Pieced
  <2>3. At(q[k], 0, FieldStream(fields[k])) /\ At(q[k], 0, FieldStream(others[k])) /\ 0 \in Nat
    BY <2>2, AtItself
  <2>4. QED
    BY <1>1, <1>2, <2>3, FieldIsRead
<1>6. QED
  BY <1>5 DEF n

(* SameStructure, field by field. *)
LEMMA SameStructureIs ==
  ASSUME NEW fields, NEW others, FieldsShape(fields), FieldsShape(others)
  PROVE  SameStructure(fields, others) <=>
           /\ Len(fields) = Len(others)
           /\ \A i \in 1..Len(fields) : SameField(fields[i], others[i])
BY FieldPartsAre DEF SameStructure, SameField

(* Equal hashes: the same contract text, the same structure. *)
LEMMA HashIsRead ==
  ASSUME NEW c, NEW fields, NEW d, NEW others, IsSequence(ShownContract(c)),
         IsSequence(ShownContract(d)), FieldsShape(fields), FieldsShape(others),
         SchemaHash(c, fields) = SchemaHash(d, others)
  PROVE  ShownContract(c) = ShownContract(d) /\ SameStructure(fields, others)
<1> DEFINE s == SchemaHash(c, fields)
           text(e) == TextStream(ShownContract(e))
           count(f) == << Count(Len(f)) >>
           rest(f) == FlattenSeq(FieldParts(f))
<1>1. ASSUME NEW e, NEW f, IsSequence(ShownContract(e)), FieldsShape(f), s = SchemaHash(e, f)
      PROVE  /\ At(s, 0, text(e)) /\ Len(text(e)) \in Nat
             /\ s[Len(text(e)) + 1] = Count(Len(f))
             /\ At(s, Len(text(e)) + 1, rest(f))
  <2> DEFINE t == text(e)
             n == count(f)
             r == rest(f)
             front == t \o n
  <2>1. IsSequence(t) /\ IsSequence(n) /\ Len(n) = 1 /\ IsSequence(r)
    BY <1>1, TextStreamIs, OneToken, FieldPartsAre, FlattenIsSequence
  <2>2. s = front \o r
    BY <1>1 DEF SchemaHash, FieldParts
  <2>3. n = << Count(Len(f)) >>
    OBVIOUS
  <2>10. t = text(e) /\ r = rest(f) /\ front = t \o n
    OBVIOUS
  <2> HIDE DEF t, n, r, front, s
  <2>4. IsSequence(front) /\ Len(front) = Len(t) + 1 /\ Len(t) \in Nat
    BY <2>1, <2>10, JoinIsSequence, SequenceOf
  <2>5. At(s, 0, front \o r)
    BY <2>1, <2>2, <2>4, JoinIsSequence, AtItself
  <2>6. 0 \in Nat /\ At(s, 0, front) /\ At(s, 0 + Len(front), r)
    BY <2>1, <2>4, <2>5, AtJoined
  <2>7. At(s, 0, t) /\ At(s, 0 + Len(t), n)
    BY <2>1, <2>6, <2>10, AtJoined
  <2>8. 0 + Len(t) = Len(t) /\ 0 + Len(front) = Len(t) + 1
    BY <2>4
  <2>9. s[Len(t) + 1] = Count(Len(f))
    BY <2>3, <2>4, <2>7, <2>8, OneTokenAt
  <2>11. At(s, 0, t) /\ At(s, Len(t) + 1, r)
    BY <2>6, <2>7, <2>8
  <2>12. QED
    BY <2>4, <2>9, <2>10, <2>11
<1>2. /\ At(s, 0, text(c)) /\ Len(text(c)) \in Nat /\ s[Len(text(c)) + 1] = Count(Len(fields))
      /\ At(s, Len(text(c)) + 1, rest(fields))
  BY <1>1
<1>3. /\ At(s, 0, text(d)) /\ s[Len(text(d)) + 1] = Count(Len(others))
      /\ At(s, Len(text(d)) + 1, rest(others))
  BY <1>1
<1> HIDE DEF s
<1>4. ShownContract(c) = ShownContract(d)
  <2>1. 0 \in Nat /\ At(s, 0, TextStream(ShownContract(c))) /\ At(s, 0, TextStream(ShownContract(d)))
    BY <1>2, <1>3
  <2>2. QED
    BY <2>1, TextIsRead
<1>5. text(c) = text(d)
  BY <1>4
<1>6. Len(fields) = Len(others)
  <2>1. Count(Len(fields)) = Count(Len(others))
    BY <1>2, <1>3, <1>5
  <2>2. Count(Len(fields)).count = Count(Len(others)).count
    BY <2>1
  <2>3. QED
    BY <2>2 DEF Count
<1>7. \A i \in 1..Len(fields) : SameField(fields[i], others[i])
  <2> DEFINE o == Len(text(c)) + 1
  <2>1. /\ o \in Nat /\ At(s, o, FlattenSeq(FieldParts(fields)))
        /\ At(s, o, FlattenSeq(FieldParts(others)))
    BY <1>2, <1>3, <1>5
  <2> HIDE DEF o
  <2>2. QED
    BY <1>6, <2>1, FieldsAreRead
<1>8. QED
  BY <1>4, <1>6, <1>7, SameStructureIs

(* And the other way round. *)
LEMMA SameStructureSameHash ==
  ASSUME NEW c, NEW fields, NEW d, NEW others, ShownContract(c) = ShownContract(d),
         FieldsShape(fields), FieldsShape(others), SameStructure(fields, others)
  PROVE  SchemaHash(c, fields) = SchemaHash(d, others)
<1> DEFINE n == Len(fields)
<1>1. n = Len(others) /\ \A i \in 1..n : SameField(fields[i], others[i])
  BY SameStructureIs
<1>2. DOMAIN fields = 1..n /\ DOMAIN others = 1..n
  BY <1>1, FieldPartsAre
<1> HIDE DEF n
<1>3. \A i \in 1..n : FieldStream(fields[i]) = FieldStream(others[i])
  BY <1>1 DEF SameField, FieldStream
<1>4. FieldParts(fields) = FieldParts(others)
  BY <1>2, <1>3 DEF FieldParts
<1>5. SchemaHash(c, fields)
        = TextStream(ShownContract(c)) \o << Count(Len(fields)) >> \o FlattenSeq(FieldParts(fields))
  BY DEF SchemaHash, FieldParts
<1>6. SchemaHash(d, others)
        = TextStream(ShownContract(d)) \o << Count(Len(others)) >> \o FlattenSeq(FieldParts(others))
  BY DEF SchemaHash, FieldParts
<1>7. QED
  BY <1>1, <1>4, <1>5, <1>6 DEF n

(* The text of a contract is a sequence. *)
LEMMA ShownIsSequence ==
  ASSUME NEW c, GoodContract(c)
  PROVE  IsSequence(ShownContract(c))
<1>1. PathText(c) \in Seq(Characters) /\ Numerals(c) \in Seq(Characters) /\ "/" \in Characters
      /\ ShownContract(c) = PathText(c) \o << "/" >> \o Numerals(c)
  BY ContractText DEF Characters, Separators
<1>2. PathText(c) \o << "/" >> \o Numerals(c) \in Seq(Characters)
  BY <1>1, JoinedText
<1>3. QED
  BY <1>1, <1>2, SequenceIs

(* What an entry under the text of an offer and the offer have in common. *)
LEMMA OfferedAgain ==
  ASSUME Inv, Offered
  PROVE  /\ Entry.contract = answer.contract
         /\ FieldsShape(Entry.fields) /\ FieldsShape(answer.fields)
         /\ IsSchema(Entry.fields) /\ IsSchema(answer.fields)
         /\ Entry.fields \in FieldLists /\ answer.fields \in FieldLists
         /\ answer.status = "again" => SameStructure(Entry.fields, answer.fields)
         /\ answer.status = "altered" => ~SameStructure(Entry.fields, answer.fields)
<1> DEFINE key == ShownContract(answer.contract)
           c == Entry.contract
           d == answer.contract
<1>1. OfferIsGood
  BY DEF Inv
<1>2. key \in DOMAIN published /\ EntryIsGood(key) /\ Entry = published[key]
  BY <1>1 DEF Inv, OfferIsGood, Entry
<1>3. /\ GoodContract(c) /\ GoodContract(d) /\ ShownContract(c) = ShownContract(d)
      /\ Entry.fields \in FieldLists /\ IsSchema(Entry.fields)
      /\ answer.fields \in FieldLists /\ IsSchema(answer.fields)
      /\ Entry.hash = SchemaHash(c, Entry.fields)
  BY <1>1, <1>2 DEF EntryIsGood, OfferIsGood
<1> HIDE DEF key
<1>4. c = d
  <2>1. Parse(ShownContract(c)) = c /\ Parse(ShownContract(d)) = d
    BY <1>3, TextIsReadBack
  <2>2. QED
    BY <1>3, <2>1
<1>5. FieldsShape(Entry.fields) /\ FieldsShape(answer.fields)
  BY <1>3, FieldListsHaveShape
<1>6. IsSequence(ShownContract(c)) /\ IsSequence(ShownContract(d))
  BY <1>3, ShownIsSequence
<1> HIDE DEF c, d
<1>7. ASSUME answer.status = "again" PROVE SameStructure(Entry.fields, answer.fields)
  <2>1. SchemaHash(c, Entry.fields) = SchemaHash(d, answer.fields)
    BY <1>1, <1>3, <1>7 DEF OfferIsGood, d
  <2>2. QED
    BY <1>5, <1>6, <2>1, HashIsRead
<1>8. ASSUME answer.status = "altered", SameStructure(Entry.fields, answer.fields) PROVE FALSE
  <2>1. SchemaHash(c, Entry.fields) # SchemaHash(d, answer.fields)
    BY <1>1, <1>3, <1>8 DEF OfferIsGood, d
  <2>2. SchemaHash(c, Entry.fields) = SchemaHash(d, answer.fields)
    BY <1>3, <1>5, <1>8, SameStructureSameHash
  <2>3. QED
    BY <2>1, <2>2
<1>9. QED
  BY <1>3, <1>4, <1>5, <1>7, <1>8 DEF c, d

(* hash.rs:133-138: a schema is taken for the published one exactly if its *)
(* fields, their order, types, requirements and constraints are the same;  *)
(* no split of a text, absent bound or map key makes two schemas collide.  *)
THEOREM HashIsStructure == Spec => []HashIdentifiesStructure
<1>1. Inv => HashIdentifiesStructure
  <2>1. SUFFICES ASSUME Inv PROVE HashIdentifiesStructure
    OBVIOUS
  <2>2. ASSUME answer.status = "again"
        PROVE  Entry.contract = answer.contract /\ SameStructure(Entry.fields, answer.fields)
    <3>1. Offered
      BY <2>2 DEF Offered
    <3>2. QED
      BY <2>1, <2>2, <3>1, OfferedAgain
  <2>3. ASSUME answer.status = "altered" PROVE ~SameStructure(Entry.fields, answer.fields)
    <3>1. Offered
      BY <2>3 DEF Offered
    <3>2. QED
      BY <2>1, <2>3, <3>1, OfferedAgain
  <2>4. QED
    BY <2>2, <2>3 DEF HashIdentifiesStructure
<1>2. QED
  BY <1>1, Invariant, PTL

-----------------------------------------------------------------------------
(* What diff() lists between schemas of the same structure.                *)

(* A changed description, or a bound that is NaN and unequal to itself.    *)
Harmless(e) ==
  \/ e.kind = "DescriptionChanged"
  \/ e.kind = "ConstraintChanged" /\ e.before = NaN /\ e.after = NaN

(* classify_level() finds no harm in a harmless entry: a NaN is not        *)
(* narrower than a NaN.                                                    *)
LEMMA HarmlessIsCompatible ==
  ASSUME NEW e, Harmless(e)
  PROVE  ClassifyLevel(e) = "Compatible"
<1>1. CASE e.kind = "DescriptionChanged"
  BY <1>1 DEF ClassifyLevel, IsBreaking
<1>2. CASE e.kind = "ConstraintChanged" /\ e.before = NaN /\ e.after = NaN
  <2>1. IsBreaking(e) = Narrower(e.side, NaN, NaN)
    BY <1>2 DEF IsBreaking
  <2>2. NaN.is = "nan" /\ NaN # None
    <3>1. NaN.is = "nan" /\ None.is = "none"
      BY DEF NaN, None
    <3>2. QED
      BY <3>1
  <2>3. AsFloat(NaN) = NaN
    BY <2>2 DEF AsFloat
  <2>4. Parsed(NaN, e.side) = NaN
    BY <2>2, <2>3 DEF Parsed
  <2>5. ~Less(NaN, NaN)
    BY <2>2 DEF Less
  <2>6. ~Narrower(e.side, NaN, NaN)
    BY <2>4, <2>5 DEF Narrower
  <2>7. ~IsBreaking(e)
    BY <2>1, <2>6
  <2>8. QED
    BY <2>7 DEF ClassifyLevel
<1>3. QED
  BY <1>1, <1>2 DEF Harmless

(* Constraints against themselves: only a NaN bound moves. *)
LEMMA EnvelopeOfTheSame ==
  ASSUME NEW name, NEW kind, NEW constraints, NEW e \in DiffEnvelope(name, kind, constraints, constraints)
  PROVE  Harmless(e)
<1> DEFINE b == Envelope(constraints, kind)
           has == HasKind(constraints, kind)
<1>1. e \in Moved(name, b, b)
  <2>1. CASE has
    BY <2>1 DEF DiffEnvelope
  <2>2. CASE ~has
    BY <2>2 DEF DiffEnvelope
  <2>3. QED
    BY <2>1, <2>2
<1> HIDE DEF b
<1>2. PICK side \in Sides :
        /\ ~SameBound(b[side], b[side])
        /\ e = [ kind |-> "ConstraintChanged", field |-> name, side |-> side,
                 before |-> b[side], after |-> b[side] ]
  BY <1>1 DEF Moved
<1>3. b[side] = NaN
  BY <1>2 DEF SameBound
<1>4. QED
  BY <1>2, <1>3 DEF Harmless

(* A field against one that differs in its description at most. *)
LEMMA FieldOfTheSame ==
  ASSUME NEW b, NEW a, SameField(b, a), NEW e \in DiffField(b, a)
  PROVE  Harmless(e)
<1>1. b.ty = a.ty /\ b.required = a.required /\ b.constraints = a.constraints
  BY DEF SameField
<1> DEFINE name == a.name
           cs   == a.constraints
           changed(kind, same) == IF same THEN {} ELSE {[kind |-> kind, field |-> name]}
           described == b.description = a.description
<1>2. TypesEqualIgnoringMapKeys(b.ty, a.ty)
  BY <1>1 DEF TypesEqualIgnoringMapKeys
<1>3. DiffWhole(name, {"nonempty", "pattern", "custom"}, cs, cs) = {}
  BY DEF DiffWhole
<1>4. \/ e \in changed("TypeChanged", TypesEqualIgnoringMapKeys(b.ty, a.ty))
      \/ e \in IF b.required = a.required THEN {}
               ELSE {[kind |-> "RequiredChanged", field |-> name, required |-> a.required]}
      \/ e \in DiffEnvelope(name, "range", cs, cs)
      \/ e \in DiffEnvelope(name, "length", cs, cs)
      \/ e \in DiffWhole(name, {"nonempty", "pattern", "custom"}, cs, cs)
      \/ e \in changed("DescriptionChanged", described)
  BY <1>1 DEF DiffField
<1>5. CASE e \in changed("DescriptionChanged", described)
  <2>1. e = [kind |-> "DescriptionChanged", field |-> name]
    BY <1>5
  <2>2. QED
    BY <2>1 DEF Harmless
<1>6. CASE e \in DiffEnvelope(name, "range", cs, cs) \/ e \in DiffEnvelope(name, "length", cs, cs)
  BY <1>6, EnvelopeOfTheSame
<1>7. QED
  BY <1>1, <1>2, <1>3, <1>4, <1>5, <1>6

(* No name occurs twice, so that a name finds its field. *)
LEMMA TheFieldNamed ==
  ASSUME NEW fields, FieldsShape(fields), IsSchema(fields), NEW i \in 1..Len(fields)
  PROVE  Field(fields, fields[i].name) = fields[i]
<1>1. DOMAIN fields = 1..Len(fields)
  BY FieldPartsAre
<1>2. fields[i] \in Range(fields)
  BY <1>1 DEF Range
<1>3. \A f \in Range(fields) : f.name = fields[i].name => f = fields[i]
  BY <1>1 DEF Range, IsSchema
<1>4. QED
  BY <1>2, <1>3 DEF Field

(* diff() of two schemas of the same structure lists harmless entries only. *)
LEMMA DiffOfTheSame ==
  ASSUME NEW fields, NEW others, FieldsShape(fields), FieldsShape(others),
         IsSchema(fields), IsSchema(others), SameStructure(fields, others),
         NEW e \in Diff(fields, others)
  PROVE  Harmless(e)
<1>1. /\ Len(fields) = Len(others) /\ DOMAIN fields = 1..Len(fields) /\ DOMAIN others = 1..Len(fields)
      /\ \A i \in 1..Len(fields) : SameField(fields[i], others[i])
  BY SameStructureIs, FieldPartsAre
<1>2. \A i \in 1..Len(fields) : fields[i].name = others[i].name
  BY <1>1 DEF SameField
<1>3. Names(fields) = Names(others)
  BY <1>1, <1>2 DEF Names
<1>4. PICK n \in Names(fields) : e \in DiffField(Field(fields, n), Field(others, n))
  <2> DEFINE N == Names(fields)
             A == { [kind |-> "FieldAdded", field |-> n, required |-> Field(others, n).required] :
                      n \in N \ (N \cap N) }
             R == { [kind |-> "FieldRemoved", field |-> n] : n \in N \ (N \cap N) }
             U == UNION { DiffField(Field(fields, n), Field(others, n)) : n \in N \cap N }
  <2>1. Diff(fields, others) = A \cup U \cup R
    BY <1>3 DEF Diff
  <2>2. A = {} /\ R = {}
    OBVIOUS
  <2> HIDE DEF A, R
  <2>3. e \in U
    <3> HIDE DEF U
    <3>1. QED
      BY <2>1, <2>2
  <2>4. QED
    BY <2>3
<1>5. PICK i \in 1..Len(fields) : n = fields[i].name
  BY <1>1 DEF Names
<1>6. Field(fields, n) = fields[i] /\ Field(others, n) = others[i]
  <2>1. Field(fields, fields[i].name) = fields[i]
    BY TheFieldNamed
  <2>2. i \in 1..Len(others)
    BY <1>1
  <2>3. Field(others, others[i].name) = others[i]
    BY <2>2, TheFieldNamed
  <2>4. QED
    BY <1>2, <1>5, <2>1, <2>3
<1>7. SameField(fields[i], others[i])
  BY <1>1
<1>8. QED
  BY <1>4, <1>6, <1>7, FieldOfTheSame

(* The worst of harmless entries is Compatible. *)
LEMMA HarmlessLevel ==
  ASSUME NEW before, NEW after, \A e \in Diff(before, after) : Harmless(e)
  PROVE  IsCompatible(Level(before, after))
<1> DEFINE levels == { ClassifyLevel(e) : e \in Diff(before, after) }
           worst  == CHOOSE l \in levels : \A m \in levels : SeverityRank[m] <= SeverityRank[l]
<1>1. \A l \in levels : l = "Compatible"
  BY HarmlessIsCompatible
<1>2. Level(before, after) = IF levels = {} THEN "Identical" ELSE worst
  BY DEF Level
<1>3. ASSUME levels # {} PROVE worst = "Compatible"
  <2> HIDE DEF levels
  <2>1. levels = {"Compatible"}
    BY <1>1, <1>3
  <2>2. SeverityRank["Compatible"] = 0
    BY DEF SeverityRank
  <2>3. \E l \in levels : \A m \in levels : SeverityRank[m] <= SeverityRank[l]
    BY <2>1, <2>2
  <2>4. worst \in levels
    BY <2>3
  <2>5. QED
    BY <1>1, <2>4
<1> HIDE DEF levels, worst
<1>4. QED
  BY <1>2, <1>3 DEF IsCompatible

(* hash.rs:133-138 against compatibility.rs: where the hash says that      *)
(* nothing changed, analyze() never says that something broke, not even    *)
(* with a NaN bound.                                                       *)
THEOREM HashImpliesCompatible == Spec => []EqualHashIsCompatible
<1>1. Inv => EqualHashIsCompatible
  <2>1. SUFFICES ASSUME Inv, answer.status = "again"
                 PROVE  IsCompatible(Level(Entry.fields, answer.fields))
    BY DEF EqualHashIsCompatible
  <2>2. Offered
    BY <2>1 DEF Offered
  <2>3. /\ FieldsShape(Entry.fields) /\ FieldsShape(answer.fields)
        /\ IsSchema(Entry.fields) /\ IsSchema(answer.fields)
        /\ SameStructure(Entry.fields, answer.fields)
    BY <2>1, <2>2, OfferedAgain
  <2>4. \A e \in Diff(Entry.fields, answer.fields) : Harmless(e)
    BY <2>3, DiffOfTheSame
  <2>5. QED
    BY <2>4, HarmlessLevel
<1>2. QED
  BY <1>1, Invariant, PTL
=============================================================================
