------------------------------ MODULE ListProofs ------------------------------
(***************************************************************************)
(* Facts about the lists of both programs: the place where a search of a   *)
(* list stops, what a list holds after an entry was put in or taken out,   *)
(* and the places of a ring of a given size, the indices % WINDOW and      *)
(* % BUFFER_LEN of pa2/src/sr.cpp and abt.cpp.                             *)
(***************************************************************************)
EXTENDS SequencesExt, SequenceTheorems, FiniteSetTheorems, TLAPS

\* A set of numbers has a smallest one.
LEMMA MinProperties ==
  ASSUME NEW I \in SUBSET Nat, I # {}
  PROVE  Min(I) \in I /\ \A i \in I : Min(I) <= i
<1> DEFINE R == OpToRel(<, Nat)
<1>1. \A i, m \in Nat : i < m => <<i, m>> \in R
  BY DEF OpToRel
<1>2. IsWellFoundedOn(R, Nat)
  BY NatLessThanWellFounded
<1> HIDE DEF R
<1>3. PICK m \in I : \A i \in I : ~(<<i, m>> \in R)
  BY <1>2, WFMin
<1>4. ASSUME NEW i \in I PROVE m <= i
  <2>1. i \in Nat /\ m \in Nat
    OBVIOUS
  <2>2. ~(i < m)
    BY <1>1, <1>3, <2>1
  <2> QED
    BY <2>1, <2>2
<1> QED
  BY <1>4 DEF Min

\* A set of numbers below a bound has a largest one.
LEMMA MaxProperties ==
  ASSUME NEW n \in Nat, NEW I \in SUBSET (0..n), I # {}
  PROVE  Max(I) \in I /\ \A i \in I : i <= Max(I)
<1> DEFINE J == {j \in 0..n : n - j \in I}
<1>1. J \in SUBSET Nat /\ J # {}
  <2>1. PICK i \in I : TRUE
    OBVIOUS
  <2>2. n - i \in 0..n /\ n - (n - i) = i
    OBVIOUS
  <2> QED
    BY <2>1, <2>2
<1>2. Min(J) \in J /\ \A j \in J : Min(J) <= j
  <2> HIDE DEF J
  <2> QED
    BY <1>1, MinProperties
<1>3. n - Min(J) \in I
  BY <1>2
<1>4. ASSUME NEW i \in I PROVE i <= n - Min(J)
  <2>1. n - i \in J
    OBVIOUS
  <2> QED
    BY <1>2, <2>1
<1> QED
  BY <1>3, <1>4 DEF Max

LEMMA RemoveAtProperties ==
  ASSUME NEW S, NEW s \in Seq(S), NEW i \in 1..Len(s)
  PROVE  /\ RemoveAt(s, i) \in Seq(S)
         /\ Len(RemoveAt(s, i)) = Len(s) - 1
         /\ \A j \in 1..Len(s) - 1 : RemoveAt(s, i)[j] = IF j < i THEN s[j] ELSE s[j + 1]
<1> DEFINE front == SubSeq(s, 1, i - 1)
           back == SubSeq(s, i + 1, Len(s))
<1>1. Len(s) \in Nat /\ \A j \in 1..Len(s) : s[j] \in S
  BY LenProperties, ElementOfSeq
<1>2. /\ front \in Seq(S) /\ Len(front) = i - 1
      /\ \A j \in 1..i - 1 : front[j] = s[j]
  <2>1. 1 \in Int /\ i - 1 \in Int /\ \A j \in 1..i - 1 : s[j] \in S
    BY <1>1
  <2>2. /\ front \in Seq(S)
        /\ Len(front) = IF 1 <= i - 1 THEN (i - 1) - 1 + 1 ELSE 0
        /\ \A j \in 1..(i - 1) - 1 + 1 : front[j] = s[1 + j - 1]
    BY <2>1, SubSeqProperties
  <2> QED
    BY <1>1, <2>2
<1>3. /\ back \in Seq(S) /\ Len(back) = Len(s) - i
      /\ \A j \in 1..Len(s) - i : back[j] = s[i + j]
  <2>1. i + 1 \in Int /\ Len(s) \in Int /\ \A j \in i + 1..Len(s) : s[j] \in S
    BY <1>1
  <2>2. /\ back \in Seq(S)
        /\ Len(back) = IF i + 1 <= Len(s) THEN Len(s) - (i + 1) + 1 ELSE 0
        /\ \A j \in 1..Len(s) - (i + 1) + 1 : back[j] = s[(i + 1) + j - 1]
    BY <2>1, SubSeqProperties
  <2> QED
    BY <1>1, <2>2
<1> HIDE DEF front, back
<1>4. /\ front \o back \in Seq(S)
      /\ Len(front \o back) = Len(front) + Len(back)
      /\ \A j \in 1..Len(front) + Len(back) :
           (front \o back)[j] = IF j <= Len(front) THEN front[j] ELSE back[j - Len(front)]
  BY <1>2, <1>3, ConcatProperties
<1>5. ASSUME NEW j \in 1..Len(s) - 1
      PROVE  (front \o back)[j] = IF j < i THEN s[j] ELSE s[j + 1]
  <2>1. j \in 1..Len(front) + Len(back)
    BY <1>1, <1>2, <1>3
  <2>2. CASE j < i
    BY <1>1, <1>2, <1>4, <2>1, <2>2
  <2>3. CASE ~(j < i)
    <3>1. j - Len(front) \in 1..Len(s) - i /\ i + (j - Len(front)) = j + 1 /\ ~(j <= Len(front))
      BY <1>1, <1>2, <2>3
    <3> QED
      BY <1>3, <1>4, <2>1, <2>3, <3>1
  <2> QED
    BY <2>2, <2>3
<1>6. Len(front \o back) = Len(s) - 1
  BY <1>1, <1>2, <1>3, <1>4
<1>7. RemoveAt(s, i) = front \o back
  BY DEF RemoveAt, front, back
<1> QED
  BY <1>4, <1>5, <1>6, <1>7

LEMMA InsertAtProperties ==
  ASSUME NEW S, NEW s \in Seq(S), NEW i \in 1..Len(s) + 1, NEW e \in S
  PROVE  /\ InsertAt(s, i, e) \in Seq(S)
         /\ Len(InsertAt(s, i, e)) = Len(s) + 1
         /\ \A j \in 1..Len(s) + 1 :
              InsertAt(s, i, e)[j] = IF j < i THEN s[j] ELSE IF j = i THEN e ELSE s[j - 1]
<1> DEFINE front == SubSeq(s, 1, i - 1)
           back == SubSeq(s, i, Len(s))
           new == <<e>>
<1>1. Len(s) \in Nat /\ \A j \in 1..Len(s) : s[j] \in S
  BY LenProperties, ElementOfSeq
<1>2. /\ front \in Seq(S) /\ Len(front) = i - 1
      /\ \A j \in 1..i - 1 : front[j] = s[j]
  <2>1. 1 \in Int /\ i - 1 \in Int /\ \A j \in 1..i - 1 : s[j] \in S
    BY <1>1
  <2>2. /\ front \in Seq(S)
        /\ Len(front) = IF 1 <= i - 1 THEN (i - 1) - 1 + 1 ELSE 0
        /\ \A j \in 1..(i - 1) - 1 + 1 : front[j] = s[1 + j - 1]
    BY <2>1, SubSeqProperties
  <2> QED
    BY <1>1, <2>2
<1>3. /\ back \in Seq(S) /\ Len(back) = Len(s) - i + 1
      /\ \A j \in 1..Len(s) - i + 1 : back[j] = s[i + j - 1]
  <2>1. i \in Int /\ Len(s) \in Int /\ \A j \in i..Len(s) : s[j] \in S
    BY <1>1
  <2>2. /\ back \in Seq(S)
        /\ Len(back) = IF i <= Len(s) THEN Len(s) - i + 1 ELSE 0
        /\ \A j \in 1..Len(s) - i + 1 : back[j] = s[i + j - 1]
    BY <2>1, SubSeqProperties
  <2> QED
    BY <1>1, <2>2
<1>4. new \in Seq(S) /\ Len(new) = 1 /\ new[1] = e
  OBVIOUS
<1> HIDE DEF front, back, new
<1>5. /\ front \o new \in Seq(S)
      /\ Len(front \o new) = i
      /\ \A j \in 1..i : (front \o new)[j] = IF j < i THEN s[j] ELSE e
  <2>1. /\ front \o new \in Seq(S)
        /\ Len(front \o new) = Len(front) + Len(new)
        /\ \A j \in 1..Len(front) + Len(new) :
             (front \o new)[j] = IF j <= Len(front) THEN front[j] ELSE new[j - Len(front)]
    BY <1>2, <1>4, ConcatProperties
  <2> QED
    BY <1>1, <1>2, <1>4, <2>1
<1> DEFINE upto == front \o new
<1> HIDE DEF upto
<1>6. upto \in Seq(S) /\ Len(upto) = i /\ \A j \in 1..i : upto[j] = IF j < i THEN s[j] ELSE e
  BY <1>5 DEF upto
<1>7. /\ upto \o back \in Seq(S)
      /\ Len(upto \o back) = Len(upto) + Len(back)
      /\ \A j \in 1..Len(upto) + Len(back) :
           (upto \o back)[j] = IF j <= Len(upto) THEN upto[j] ELSE back[j - Len(upto)]
  BY <1>3, <1>6, ConcatProperties
<1>8. Len(upto \o back) = Len(s) + 1
  BY <1>1, <1>3, <1>6, <1>7
<1>9. \A j \in 1..Len(s) + 1 :
        (upto \o back)[j] = IF j < i THEN s[j] ELSE IF j = i THEN e ELSE s[j - 1]
  BY <1>1, <1>3, <1>6, <1>7
<1>10. InsertAt(s, i, e) = upto \o back
  BY DEF InsertAt, upto, front, back, new
<1> QED
  BY <1>7, <1>8, <1>9, <1>10

\* The values of a list are finitely many.
LEMMA RangeFinite ==
  ASSUME NEW S, NEW s \in Seq(S)
  PROVE  IsFiniteSet(Range(s)) /\ Cardinality(Range(s)) \in Nat
<1>1. Len(s) \in Nat /\ DOMAIN s = 1..Len(s)
  BY LenProperties
<1>2. s \in Surjection(1..Len(s), Range(s))
  BY <1>1, LenProperties DEF Surjection, Range
<1>3. IsFiniteSet(1..Len(s))
  BY <1>1, FS_Interval
<1> QED
  BY <1>2, <1>3, FS_Surjection, FS_CardinalityType

\* Each number of a finite set has its rank, and each rank its number.
LEMMA Ranking ==
  ASSUME NEW n \in Nat, NEW I \in SUBSET (1..n)
  PROVE  /\ Cardinality(I) \in Nat
         /\ \A i \in I : Cardinality({j \in I : j <= i}) \in 1..Cardinality(I)
         /\ \A i, k \in I :
              Cardinality({j \in I : j <= i}) = Cardinality({j \in I : j <= k}) => i = k
         /\ \A m \in 1..Cardinality(I) : \E i \in I : Cardinality({j \in I : j <= i}) = m
<1> DEFINE upto(i) == {j \in I : j <= i}
           rank == [i \in I |-> Cardinality(upto(i))]
<1>1. IsFiniteSet(I) /\ Cardinality(I) \in Nat
  <2>1. IsFiniteSet(1..n)
    BY FS_Interval
  <2>2. IsFiniteSet(I)
    BY <2>1, FS_Subset
  <2> QED
    BY <2>2, FS_CardinalityType
<1>2. ASSUME NEW i \in I
      PROVE  IsFiniteSet(upto(i)) /\ Cardinality(upto(i)) \in 1..Cardinality(I)
  <2>1. upto(i) \in SUBSET I /\ upto(i) # {}
    OBVIOUS
  <2>2. IsFiniteSet(upto(i)) /\ Cardinality(upto(i)) <= Cardinality(I)
    BY <1>1, <2>1, FS_Subset
  <2>3. Cardinality(upto(i)) \in Nat /\ Cardinality(upto(i)) # 0
    BY <2>1, <2>2, FS_CardinalityType, FS_EmptySet
  <2> QED
    BY <1>1, <2>2, <2>3
<1>3. ASSUME NEW i \in I, NEW k \in I, i < k
      PROVE  Cardinality(upto(i)) < Cardinality(upto(k))
  <2>1. upto(i) \in SUBSET upto(k) /\ upto(i) # upto(k)
    <3>1. k \in upto(k) /\ k \notin upto(i)
      BY <1>3
    <3>2. \A j \in upto(i) : j \in upto(k)
      BY <1>3
    <3> QED
      BY <3>1, <3>2
  <2>2. /\ Cardinality(upto(i)) <= Cardinality(upto(k))
        /\ Cardinality(upto(k)) = Cardinality(upto(i)) => upto(k) = upto(i)
    BY <1>2, <2>1, FS_Subset
  <2> QED
    BY <1>2, <2>1, <2>2
<1> HIDE DEF upto
<1>4. ASSUME NEW i \in I, NEW k \in I, Cardinality(upto(i)) = Cardinality(upto(k))
      PROVE  i = k
  <2>1. ~(i < k) /\ ~(k < i)
    BY <1>2, <1>3, <1>4
  <2> QED
    BY <2>1
<1>5. rank \in Injection(I, 1..Cardinality(I))
  <2>1. rank \in [I -> 1..Cardinality(I)]
    BY <1>2
  <2>2. \A i, k \in I : rank[i] = rank[k] => i = k
    BY <1>4
  <2> QED
    BY <2>1, <2>2 DEF Injection, IsInjective
<1>6. rank \in Surjection(I, 1..Cardinality(I))
  <2>1. IsFiniteSet(1..Cardinality(I)) /\ Cardinality(1..Cardinality(I)) = Cardinality(I)
    BY <1>1, FS_Interval
  <2> QED
    BY <1>5, <2>1, FS_Injection
<1>7. \A m \in 1..Cardinality(I) : \E i \in I : Cardinality(upto(i)) = m
  BY <1>6 DEF Surjection
<1> QED
  BY <1>1, <1>2, <1>4, <1>7 DEF upto

----------------------------------------------------------------------------
(* Places in a ring.                                                       *)

LEMMA Division ==
  ASSUME NEW size \in Nat \ {0}, NEW i \in Nat
  PROVE  /\ i \div size \in Int
         /\ i % size \in 0..size - 1
         /\ i = (size * (i \div size)) + (i % size)
OBVIOUS

LEMMA NoMultipleBetween ==
  ASSUME NEW size \in Nat \ {0}, NEW n \in Int
  PROVE  ~(0 < size * n /\ size * n < size)
OBVIOUS

\* A number below the size is its own place.
LEMMA OwnPlace ==
  ASSUME NEW size \in Nat \ {0}, NEW i \in 0..size - 1
  PROVE  i % size = i
OBVIOUS

\* Two numbers less than a whole ring apart have different places.
LEMMA DifferentPlaces ==
  ASSUME NEW size \in Nat \ {0}, NEW i \in Nat, NEW j \in Nat, i < j, j - i < size
  PROVE  i % size # j % size
<1> SUFFICES ASSUME i % size = j % size PROVE FALSE
  OBVIOUS
<1>1. PICK m \in Int : i = (size * m) + (i % size)
  BY Division
<1>2. PICK n \in Int : j = (size * n) + (j % size)
  BY Division
<1>3. i % size \in Int
  BY Division
<1>4. j - i = (size * n) - (size * m)
  BY <1>1, <1>2, <1>3
<1>5. (size * n) - (size * m) = size * (n - m) /\ n - m \in Int
  OBVIOUS
<1> QED
  BY <1>4, <1>5, NoMultipleBetween

\* The remainder is the only one.
LEMMA PlaceUnique ==
  ASSUME NEW size \in Nat \ {0}, NEW i \in Nat, NEW n \in Int, NEW r \in 0..size - 1,
         i = (size * n) + r
  PROVE  i % size = r
<1>1. PICK m \in Int : i = (size * m) + (i % size)
  BY Division
<1>2. i % size \in 0..size - 1
  BY Division
<1> DEFINE d == m - n
<1>3. size * d = r - (i % size) /\ d \in Int
  <2>1. size * (m - n) = (size * m) - (size * n)
    OBVIOUS
  <2> QED
    BY <1>1, <1>2, <2>1
<1> HIDE DEF d
<1>4. ~(0 < size * d)
  BY <1>2, <1>3, NoMultipleBetween
<1>5. ~(size * d < 0)
  <2>1. size * (0 - d) = 0 - (size * d) /\ 0 - d \in Int
    BY <1>3
  <2>2. ~(0 < size * (0 - d) /\ size * (0 - d) < size)
    BY <2>1, NoMultipleBetween
  <2> QED
    BY <1>2, <1>3, <2>1, <2>2
<1>6. size * d \in Int
  BY <1>3
<1> QED
  BY <1>2, <1>3, <1>4, <1>5, <1>6

\* Steps can be counted from a place as well as from its number.
LEMMA PlaceAfter ==
  ASSUME NEW size \in Nat \ {0}, NEW i \in Nat, NEW k \in Nat
  PROVE  ((i % size) + k) % size = (i + k) % size
<1> DEFINE r == i % size
<1>1. PICK m \in Int : i = (size * m) + r
  BY Division
<1>2. r \in Nat /\ r + k \in Nat
  BY Division
<1> HIDE DEF r
<1> DEFINE s == (r + k) % size
<1>3. PICK n \in Int : r + k = (size * n) + s
  BY <1>2, Division
<1>4. s \in 0..size - 1
  BY <1>2, Division
<1> HIDE DEF s
<1> DEFINE q == m + n
<1>5. size * q = (size * m) + (size * n) /\ q \in Int
  OBVIOUS
<1> HIDE DEF q
<1>6. i + k = (size * q) + s /\ i + k \in Nat
  BY <1>1, <1>2, <1>3, <1>4, <1>5
<1>7. (i + k) % size = s
  BY <1>4, <1>5, <1>6, PlaceUnique
<1> QED
  BY <1>7 DEF r, s
==============================================================================
