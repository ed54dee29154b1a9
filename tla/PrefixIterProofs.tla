--------------------------- MODULE PrefixIterProofs --------------------------
(***************************************************************************)
(* Prefix iteration is right for every map, every set of changes, every    *)
(* prefix and any keys.                                                    *)
(*                                                                         *)
(* The first part is about byte strings: in their order the keys with a    *)
(* prefix lie together, and they start at the prefix itself, so that an    *)
(* iterator may stop at the first key without it.  The second is about     *)
(* typed keys: the encoding of a tuple starts with that of a shorter one   *)
(* only if its components do.  The third is about the iterators: the merge *)
(* yields what get finds, in key order, the other backends' iterators      *)
(* yield the same, and the typed layer decodes it to the typed entries     *)
(* that match.                                                             *)
(***************************************************************************)
EXTENDS TypedMap, SequenceTheorems, FiniteSetTheorems, TLAPS

-----------------------------------------------------------------------------
(* The order of keys *)

LEMMA DataTypes ==
  ASSUME NEW a \in Data
  PROVE  Len(a) \in Nat /\ \A i \in 1 .. Len(a) : a[i] \in Int
<1>1. a \in Seq(Bytes)
  BY DEF Data
<1>2. Len(a) \in Nat
  BY <1>1
<1>3. \A i \in 1 .. Len(a) : a[i] \in Bytes
  BY <1>1, ElementOfSeq
<1>4. Bytes \subseteq Int
  BY DEF Bytes
<1> QED
  BY <1>2, <1>3, <1>4

\* The order by the first position at which the keys differ, where the end of a
\* key counts as a byte below all others.
ByteAt(a, i) == IF i <= Len(a) THEN a[i] ELSE -1
DifferAt(a, b, i) ==
  ByteAt(a, i) < ByteAt(b, i) /\ \A j \in 1 .. i - 1 : ByteAt(a, j) = ByteAt(b, j)

LEMMA ByteTypes ==
  ASSUME NEW a \in Data, NEW i \in Nat \ {0}
  PROVE  /\ ByteAt(a, i) \in Int
         /\ i <= Len(a) => ByteAt(a, i) = a[i] /\ ByteAt(a, i) >= 0
         /\ i > Len(a) => ByteAt(a, i) = -1
<1>1. a \in Seq(Bytes) /\ Len(a) \in Nat
  BY DataTypes DEF Data
<1>2. CASE i <= Len(a)
  <2>1. a[i] \in Bytes
    BY <1>1, <1>2, ElementOfSeq
  <2>2. a[i] \in Nat
    BY <2>1 DEF Bytes
  <2>3. ByteAt(a, i) = a[i]
    BY <1>2 DEF ByteAt
  <2> QED
    BY <1>1, <1>2, <2>2, <2>3
<1>3. CASE i > Len(a)
  BY <1>1, <1>3 DEF ByteAt
<1> QED
  BY <1>1, <1>2, <1>3

LEMMA LessIsFirstDifference ==
  ASSUME NEW a \in Data, NEW b \in Data
  PROVE  Less(a, b) <=> \E i \in Nat \ {0} : DifferAt(a, b, i)
<1>1. Len(a) \in Nat /\ Len(b) \in Nat
  BY DataTypes
<1>2. ASSUME Len(a) < Len(b), StartsWith(b, a) PROVE DifferAt(a, b, Len(a) + 1)
  <2>1. Len(a) + 1 \in Nat \ {0} /\ Len(a) + 1 > Len(a) /\ Len(a) + 1 <= Len(b)
    BY <1>1, <1>2
  <2>2. ByteAt(a, Len(a) + 1) < ByteAt(b, Len(a) + 1)
    BY <2>1, ByteTypes
  <2>3. ASSUME NEW j \in 1 .. Len(a) PROVE ByteAt(a, j) = ByteAt(b, j)
    BY <1>1, <1>2 DEF StartsWith, ByteAt
  <2> QED
    BY <1>1, <2>2, <2>3 DEF DifferAt
<1>3. ASSUME NEW i \in 1 .. Len(a), i <= Len(b), SameBefore(a, b, i), a[i] < b[i]
      PROVE  DifferAt(a, b, i)
  BY <1>1, <1>3 DEF SameBefore, DifferAt, ByteAt
<1>4. ASSUME NEW i \in Nat \ {0}, DifferAt(a, b, i) PROVE Less(a, b)
  <2>1. ByteAt(a, i) < ByteAt(b, i)
    BY <1>4 DEF DifferAt
  <2>2. i <= Len(b)
    <3>1. ASSUME i > Len(b) PROVE FALSE
      <4>1. ByteAt(b, i) = -1
        BY <3>1, ByteTypes
      <4>2. ByteAt(a, i) >= -1 /\ ByteAt(a, i) \in Int
        BY <1>1, ByteTypes
      <4> QED
        BY <2>1, <4>1, <4>2
    <3> QED
      BY <1>1, <3>1
  <2>3. ASSUME NEW j \in 1 .. i - 1 PROVE j <= Len(a) /\ a[j] = b[j]
    <3>1. ByteAt(a, j) = ByteAt(b, j)
      BY <1>4 DEF DifferAt
    <3>2. j \in Nat \ {0} /\ j <= Len(b)
      BY <1>1, <2>2
    <3>3. ByteAt(b, j) = b[j] /\ ByteAt(b, j) >= 0
      BY <3>2, ByteTypes
    <3>4. j <= Len(a)
      <4>1. ASSUME j > Len(a) PROVE FALSE
        <5>1. ByteAt(a, j) = -1
          BY <3>2, <4>1, ByteTypes
        <5> QED
          BY <3>1, <3>3, <5>1
      <4> QED
        BY <1>1, <4>1
    <3> QED
      BY <3>1, <3>2, <3>3, <3>4 DEF ByteAt
  <2>4. CASE i <= Len(a)
    <3>1. a[i] < b[i]
      BY <2>1, <2>2, <2>4 DEF ByteAt
    <3>2. SameBefore(a, b, i)
      BY <2>3 DEF SameBefore
    <3> QED
      BY <1>1, <2>2, <2>4, <3>1, <3>2 DEF Less
  <2>5. CASE i > Len(a)
    <3>1. i = Len(a) + 1
      <4>1. ASSUME i # Len(a) + 1 PROVE FALSE
        <5>1. Len(a) + 1 \in 1 .. i - 1
          BY <1>1, <2>5, <4>1
        <5> QED
          BY <1>1, <2>3, <5>1
      <4> QED
        BY <4>1
    <3>2. Len(a) < Len(b) /\ StartsWith(b, a)
      BY <1>1, <2>2, <2>3, <3>1 DEF StartsWith
    <3> QED
      BY <3>2 DEF Less
  <2> QED
    BY <1>1, <2>4, <2>5
<1>5. ASSUME Less(a, b) PROVE \E i \in Nat \ {0} : DifferAt(a, b, i)
  <2>1. CASE Len(a) < Len(b) /\ StartsWith(b, a)
    BY <1>1, <1>2, <2>1
  <2>2. CASE \E i \in 1 .. Len(a) : i <= Len(b) /\ SameBefore(a, b, i) /\ a[i] < b[i]
    BY <1>1, <1>3, <2>2
  <2> QED
    BY <1>5, <2>1, <2>2 DEF Less
<1> QED
  BY <1>4, <1>5

\* No key is less than itself, and no two are less than each other.
LEMMA LessAsymmetric ==
  ASSUME NEW a \in Data, NEW b \in Data, Less(a, b)
  PROVE  ~Less(b, a)
<1>1. PICK i \in Nat \ {0} : DifferAt(a, b, i)
  BY LessIsFirstDifference
<1>2. ASSUME NEW j \in Nat \ {0}, DifferAt(b, a, j) PROVE FALSE
  <2>1. /\ ByteAt(a, i) \in Int /\ ByteAt(b, i) \in Int
        /\ ByteAt(a, j) \in Int /\ ByteAt(b, j) \in Int
    BY ByteTypes
  <2>2. i \in 1 .. j - 1 \/ i = j \/ j \in 1 .. i - 1
    OBVIOUS
  <2> QED
    BY <1>1, <1>2, <2>1, <2>2 DEF DifferAt
<1> QED
  BY <1>2, LessIsFirstDifference

LEMMA LessTransitive ==
  ASSUME NEW a \in Data, NEW b \in Data, NEW c \in Data, Less(a, b), Less(b, c)
  PROVE  Less(a, c)
<1>1. PICK i \in Nat \ {0} : DifferAt(a, b, i)
  BY LessIsFirstDifference
<1>2. PICK j \in Nat \ {0} : DifferAt(b, c, j)
  BY LessIsFirstDifference
<1> DEFINE n == IF i < j THEN i ELSE j
<1>3. n \in Nat \ {0} /\ n <= i /\ n <= j
  OBVIOUS
<1>4. ByteAt(a, n) < ByteAt(c, n)
  <2>1. ByteAt(a, n) \in Int /\ ByteAt(b, n) \in Int /\ ByteAt(c, n) \in Int
    BY <1>3, ByteTypes
  <2>2. CASE i < j
    BY <1>1, <1>2, <2>1, <2>2 DEF DifferAt
  <2>3. CASE i = j
    BY <1>1, <1>2, <2>1, <2>3 DEF DifferAt
  <2>4. CASE j < i
    BY <1>1, <1>2, <2>1, <2>4 DEF DifferAt
  <2> QED
    BY <2>2, <2>3, <2>4
<1>5. ASSUME NEW m \in 1 .. n - 1 PROVE ByteAt(a, m) = ByteAt(c, m)
  <2>1. m \in 1 .. i - 1 /\ m \in 1 .. j - 1
    BY <1>3
  <2> QED
    BY <1>1, <1>2, <2>1 DEF DifferAt
<1> QED
  BY <1>3, <1>4, <1>5, LessIsFirstDifference DEF DifferAt

LEMMA LeastNumber ==
  ASSUME NEW S \in SUBSET Nat, S # {}
  PROVE  \E n \in S : \A m \in S : n <= m
<1> DEFINE R == OpToRel(<, Nat)
<1>1. IsWellFoundedOn(R, Nat)
  BY NatLessThanWellFounded
<1> HIDE DEF R
<1>2. PICK n \in S : \A m \in S : <<m, n>> \notin R
  BY <1>1, WFMin
<1>3. ASSUME NEW m \in S PROVE n <= m
  <2>1. m < n => <<m, n>> \in R
    BY DEF R, OpToRel
  <2>2. ~(m < n)
    BY <1>2, <2>1, Zenon
  <2> QED
    BY <2>2
<1> QED
  BY <1>3

\* Any two keys are ordered.
LEMMA LessTotal ==
  ASSUME NEW a \in Data, NEW b \in Data, a # b
  PROVE  Less(a, b) \/ Less(b, a)
<1> DEFINE D == {i \in Nat \ {0} : ByteAt(a, i) # ByteAt(b, i)}
<1>1. D # {}
  <2> SUFFICES ASSUME D = {} PROVE FALSE
    OBVIOUS
  <2>1. \A i \in Nat \ {0} : ByteAt(a, i) = ByteAt(b, i)
    OBVIOUS
  <2>2. /\ a \in Seq(Bytes) /\ b \in Seq(Bytes)
        /\ Len(a) \in Nat /\ Len(b) \in Nat
    BY DataTypes DEF Data
  <2>3. ~(Len(a) < Len(b))
    <3>1. ASSUME Len(a) < Len(b) PROVE FALSE
      <4>1. Len(b) \in Nat \ {0} /\ Len(b) > Len(a)
        BY <2>2, <3>1
      <4>2. ByteAt(a, Len(b)) = -1 /\ ByteAt(b, Len(b)) >= 0
        BY <2>2, <4>1, ByteTypes
      <4> QED
        BY <2>1, <4>1, <4>2
    <3> QED
      BY <3>1
  <2>4. ~(Len(b) < Len(a))
    <3>1. ASSUME Len(b) < Len(a) PROVE FALSE
      <4>1. Len(a) \in Nat \ {0} /\ Len(a) > Len(b)
        BY <2>2, <3>1
      <4>2. ByteAt(b, Len(a)) = -1 /\ ByteAt(a, Len(a)) >= 0
        BY <2>2, <4>1, ByteTypes
      <4> QED
        BY <2>1, <4>1, <4>2
    <3> QED
      BY <3>1
  <2>5. Len(a) = Len(b)
    BY <2>2, <2>3, <2>4
  <2>6. ASSUME NEW i \in 1 .. Len(a) PROVE a[i] = b[i]
    BY <2>1, <2>2, <2>5 DEF ByteAt
  <2>7. a = b
    BY <2>2, <2>5, <2>6, SeqEqual
  <2> QED
    BY <2>7
<1>2. PICK i \in D : \A j \in D : i <= j
  BY <1>1, LeastNumber
<1>3. ASSUME NEW j \in 1 .. i - 1 PROVE ByteAt(a, j) = ByteAt(b, j)
  <2>1. j \in Nat \ {0} /\ ~(i <= j)
    BY <1>2
  <2> QED
    BY <1>2, <2>1
<1>4. i \in Nat \ {0} /\ ByteAt(a, i) # ByteAt(b, i)
  BY <1>2
<1>5. ByteAt(a, i) \in Int /\ ByteAt(b, i) \in Int
  BY <1>4, ByteTypes
<1>6. ByteAt(a, i) < ByteAt(b, i) \/ ByteAt(b, i) < ByteAt(a, i)
  BY <1>4, <1>5
<1>7. DifferAt(a, b, i) \/ DifferAt(b, a, i)
  BY <1>3, <1>6 DEF DifferAt
<1> QED
  BY <1>4, <1>7, LessIsFirstDifference

-----------------------------------------------------------------------------
(* Sets of keys in order *)

KeySet(S) == S \subseteq Data /\ IsFiniteSet(S)

LEMMA RankTypes ==
  ASSUME NEW S, KeySet(S), NEW k \in Data
  PROVE  /\ Cardinality(S) \in Nat
         /\ IsFiniteSet({j \in S : Less(j, k)}) /\ Rank(S, k) \in Nat
         /\ k \in S => Rank(S, k) \in 0 .. Cardinality(S) - 1
<1> DEFINE B == {j \in S : Less(j, k)}
<1>1. IsFiniteSet(S) /\ Cardinality(S) \in Nat
  BY FS_CardinalityType DEF KeySet
<1>2. IsFiniteSet(B) /\ Cardinality(B) \in Nat
  BY <1>1, FS_Subset, FS_CardinalityType
<1>3. ASSUME k \in S PROVE Cardinality(B) <= Cardinality(S) - 1
  <2>1. B \in SUBSET (S \ {k})
    BY LessAsymmetric
  <2>2. IsFiniteSet(S \ {k}) /\ Cardinality(S \ {k}) = Cardinality(S) - 1
    BY <1>1, <1>3, FS_RemoveElement
  <2> QED
    BY <2>1, <2>2, FS_Subset
<1> QED
  BY <1>1, <1>2, <1>3 DEF Rank

LEMMA RankIncreases ==
  ASSUME NEW S, KeySet(S), NEW k \in S, NEW m \in S, Less(k, m)
  PROVE  Rank(S, k) < Rank(S, m)
<1> DEFINE B == {j \in S : Less(j, k)}
           C == {j \in S : Less(j, m)}
<1>1. S \subseteq Data /\ k \in Data /\ m \in Data
  BY DEF KeySet
<1>2. IsFiniteSet(B) /\ IsFiniteSet(C) /\ Cardinality(B) \in Nat /\ Cardinality(C) \in Nat
  BY <1>1, RankTypes DEF Rank
<1>3. k \notin B
  BY <1>1, LessAsymmetric
<1>4. B \cup {k} \in SUBSET C
  BY <1>1, LessTransitive
<1> HIDE DEF B, C
<1>5. Cardinality(B \cup {k}) = Cardinality(B) + 1
  BY <1>2, <1>3, FS_AddElement
<1>6. Cardinality(B \cup {k}) <= Cardinality(C)
  BY <1>2, <1>4, FS_Subset
<1> QED
  BY <1>2, <1>5, <1>6 DEF B, C, Rank

LEMMA RankInjective ==
  ASSUME NEW S, KeySet(S), NEW k \in S, NEW m \in S, Rank(S, k) = Rank(S, m)
  PROVE  k = m
<1>1. k \in Data /\ m \in Data
  BY DEF KeySet
<1>2. Rank(S, k) \in Nat
  BY <1>1, RankTypes
<1>3. ~Less(k, m) /\ ~Less(m, k)
  BY <1>2, RankIncreases
<1> QED
  BY <1>1, <1>3, LessTotal

\* Every position is some key's: there are as many as keys.
LEMMA RankOnto ==
  ASSUME NEW S, KeySet(S), NEW i \in 0 .. Cardinality(S) - 1
  PROVE  \E k \in S : Rank(S, k) = i
<1> DEFINE n == Cardinality(S)
           f == [k \in S |-> Rank(S, k)]
<1>1. IsFiniteSet(S) /\ n \in Nat /\ S \subseteq Data
  BY FS_CardinalityType DEF KeySet
<1>2. f \in [S -> 0 .. n - 1]
  BY <1>1, RankTypes
<1>3. f \in Injection(S, 0 .. n - 1)
  BY <1>2, RankInjective DEF Injection, IsInjective
<1> HIDE DEF n
<1>4. IsFiniteSet(0 .. n - 1) /\ Cardinality(0 .. n - 1) = n
  BY <1>1, FS_Interval
<1>5. f \in Surjection(S, 0 .. n - 1)
  BY <1>3, <1>4, FS_Injection DEF n
<1> QED
  BY <1>5 DEF Surjection, n

LEMMA SortedProperties ==
  ASSUME NEW S, KeySet(S)
  PROVE  /\ Sorted(S) \in Seq(S) /\ Len(Sorted(S)) = Cardinality(S)
         /\ Cardinality(S) \in Nat
         /\ \A i \in 1 .. Cardinality(S) :
              Sorted(S)[i] \in S /\ Rank(S, Sorted(S)[i]) = i - 1
         /\ \A k \in S : /\ Rank(S, k) + 1 \in 1 .. Cardinality(S)
                         /\ Sorted(S)[Rank(S, k) + 1] = k
<1> DEFINE n == Cardinality(S)
           c(i) == CHOOSE k \in S : Rank(S, k) = i - 1
<1>1. n \in Nat /\ S \subseteq Data
  BY FS_CardinalityType DEF KeySet
<1>2. ASSUME NEW i \in 1 .. n PROVE c(i) \in S /\ Rank(S, c(i)) = i - 1
  <2>1. i - 1 \in 0 .. n - 1
    BY <1>1
  <2>2. \E k \in S : Rank(S, k) = i - 1
    BY <2>1, RankOnto
  <2> QED
    BY <2>2
<1>3. Sorted(S) = [i \in 1 .. n |-> c(i)]
  BY DEF Sorted
<1> HIDE DEF c, n
<1>4. Sorted(S) \in Seq(S) /\ Len(Sorted(S)) = n
  BY <1>1, <1>2, <1>3, IsASeq
<1>5. \A i \in 1 .. n : Sorted(S)[i] \in S /\ Rank(S, Sorted(S)[i]) = i - 1
  BY <1>2, <1>3
<1>6. ASSUME NEW k \in S
      PROVE  Rank(S, k) + 1 \in 1 .. n /\ Sorted(S)[Rank(S, k) + 1] = k
  <2>1. Rank(S, k) \in 0 .. n - 1
    BY <1>1, RankTypes DEF n
  <2>2. Rank(S, k) + 1 \in 1 .. n /\ (Rank(S, k) + 1) - 1 = Rank(S, k)
    BY <1>1, <2>1
  <2> DEFINE m == Sorted(S)[Rank(S, k) + 1]
  <2>3. m \in S /\ Rank(S, m) = Rank(S, k)
    BY <1>5, <2>2
  <2>4. m = k
    BY <2>3, RankInjective
  <2> QED
    BY <2>2, <2>4
<1> QED
  BY <1>1, <1>4, <1>5, <1>6 DEF n

\* A set of keys that is not empty has a least one.
LEMMA LeastProperties ==
  ASSUME NEW S, KeySet(S), S # {}
  PROVE  /\ Least(S) \in S
         /\ \A j \in S \ {Least(S)} : Less(Least(S), j)
<1>1. IsFiniteSet(S) /\ Cardinality(S) \in Nat /\ S \subseteq Data
  BY FS_CardinalityType DEF KeySet
<1>2. 0 \in 0 .. Cardinality(S) - 1
  BY <1>1, FS_EmptySet
<1>3. PICK k \in S : Rank(S, k) = 0
  BY <1>2, RankOnto
<1>4. ASSUME NEW j \in S \ {k} PROVE Less(k, j)
  <2>1. j \in Data /\ k \in Data /\ Rank(S, j) \in Nat
    BY <1>1, RankTypes
  <2>2. ~Less(j, k)
    BY <1>3, <2>1, RankIncreases
  <2> QED
    BY <2>1, <2>2, LessTotal
<1> QED
  BY <1>3, <1>4 DEF Least

\* If all the keys of one set precede the others of another, they are the first
\* of it in order.
LEMMA SortedStart ==
  ASSUME NEW S, KeySet(S), NEW T \in SUBSET S,
         \A t \in T : \A k \in S \ T : Less(t, k)
  PROVE  /\ KeySet(T) /\ Cardinality(T) <= Cardinality(S)
         /\ \A i \in 1 .. Cardinality(T) : Sorted(T)[i] = Sorted(S)[i]
<1>1. KeySet(T) /\ Cardinality(T) <= Cardinality(S)
  BY FS_Subset DEF KeySet
<1>2. ASSUME NEW t \in T PROVE Rank(T, t) = Rank(S, t)
  <2>1. ASSUME NEW j \in S, Less(j, t) PROVE j \in T
    <3>1. S \subseteq Data
      BY DEF KeySet
    <3> QED
      BY <2>1, <3>1, LessAsymmetric
  <2>2. {j \in T : Less(j, t)} = {j \in S : Less(j, t)}
    BY <2>1
  <2> QED
    BY <2>2 DEF Rank
<1>3. ASSUME NEW i \in 1 .. Cardinality(T) PROVE Sorted(T)[i] = Sorted(S)[i]
  <2> DEFINE t == Sorted(T)[i]
  <2>1. t \in T /\ Rank(T, t) = i - 1
    BY <1>1, SortedProperties
  <2>2. Rank(S, t) + 1 = i
    BY <1>2, <2>1
  <2>3. Sorted(S)[Rank(S, t) + 1] = t
    BY <2>1, SortedProperties
  <2> QED
    BY <2>2, <2>3
<1> QED
  BY <1>1, <1>3

\* A key after all the others comes last.
LEMMA SortedAppend ==
  ASSUME NEW S, KeySet(S), NEW k \in Data, \A j \in S : Less(j, k)
  PROVE  KeySet(S \cup {k}) /\ Sorted(S \cup {k}) = Append(Sorted(S), k)
<1> DEFINE U == S \cup {k}
           n == Cardinality(S)
<1>1. k \notin S
  BY LessAsymmetric
<1>2. KeySet(U) /\ Cardinality(U) = n + 1 /\ n \in Nat
  BY <1>1, FS_AddElement, FS_CardinalityType DEF KeySet
<1>3. \A t \in S : \A m \in U \ S : Less(t, m)
  OBVIOUS
<1>4. S \in SUBSET U /\ k \in U
  OBVIOUS
<1>5. Rank(U, k) = n
  <2>1. {j \in U : Less(j, k)} = S
    BY LessAsymmetric
  <2> QED
    BY <2>1 DEF Rank
<1> HIDE DEF U
<1>6. \A i \in 1 .. n : Sorted(S)[i] = Sorted(U)[i]
  BY <1>2, <1>3, <1>4, SortedStart
<1>7. Sorted(U)[n + 1] = k
  BY <1>2, <1>4, <1>5, SortedProperties
<1>8. /\ Sorted(S) \in Seq(U) /\ Len(Sorted(S)) = n
      /\ Sorted(U) \in Seq(U) /\ Len(Sorted(U)) = n + 1
  BY <1>2, <1>4, SortedProperties, SeqMonotonic
<1> HIDE DEF n
<1>9. /\ Append(Sorted(S), k) \in Seq(U)
      /\ Len(Append(Sorted(S), k)) = n + 1
      /\ \A i \in 1 .. n : Append(Sorted(S), k)[i] = Sorted(S)[i]
      /\ Append(Sorted(S), k)[n + 1] = k
  BY <1>4, <1>8, AppendProperties
<1>10. ASSUME NEW i \in 1 .. n + 1 PROVE Sorted(U)[i] = Append(Sorted(S), k)[i]
  <2>1. i \in 1 .. n \/ i = n + 1
    BY <1>2
  <2> QED
    BY <1>6, <1>7, <1>9, <2>1
<1>11. Sorted(U) = Append(Sorted(S), k)
  BY <1>8, <1>9, <1>10, SeqEqual
<1> QED
  BY <1>2, <1>11 DEF U

-----------------------------------------------------------------------------
(* Prefixes *)

\* The range from the prefix on starts no later than the keys that have it:
\* seeking to the prefix skips none of them.
THEOREM SeekFindsPrefix ==
  ASSUME NEW p \in Data, NEW a \in Data, StartsWith(a, p)
  PROVE  AtLeast(a, p)
<1> USE DataTypes
<1>1. CASE Len(p) < Len(a)
  BY <1>1 DEF AtLeast, Less
<1>2. CASE Len(p) = Len(a)
  <2>1. a \in Seq(Bytes) /\ p \in Seq(Bytes)
    BY DEF Data
  <2>2. \A i \in 1 .. Len(a) : a[i] = p[i]
    BY <1>2 DEF StartsWith
  <2>3. a = p
    BY <1>2, <2>1, <2>2
  <2> QED
    BY <2>3 DEF AtLeast
<1> QED
  BY <1>1, <1>2 DEF StartsWith

\* A key of the range that has not the prefix comes after every key that has:
\* stopping there loses nothing.  This is what the in-memory, SQLite and LMDB
\* iterators, and both sides of the merge, rely on.
THEOREM PrefixRangeIsContiguous ==
  ASSUME NEW p \in Data, NEW a \in Data, NEW b \in Data,
         AtLeast(a, p), Less(a, b), StartsWith(b, p)
  PROVE  StartsWith(a, p)
<1> USE DataTypes
<1> SUFFICES ASSUME ~StartsWith(a, p) PROVE Less(b, a)
  BY LessAsymmetric
<1>1. a # p
  BY DEF StartsWith
<1>2. Less(p, a) /\ ~(Len(p) < Len(a) /\ StartsWith(a, p))
  BY <1>1 DEF AtLeast
<1>3. PICK i \in 1 .. Len(p) : /\ i <= Len(a)
                               /\ SameBefore(p, a, i) /\ p[i] < a[i]
  BY <1>2 DEF Less
<1>4. Len(p) <= Len(b) /\ \A j \in 1 .. Len(p) : b[j] = p[j]
  BY DEF StartsWith
<1>5. SameBefore(b, a, i)
  BY <1>3, <1>4 DEF SameBefore
<1>6. i \in 1 .. Len(b) /\ b[i] < a[i]
  BY <1>3, <1>4
<1> QED
  BY <1>3, <1>5, <1>6 DEF Less

-----------------------------------------------------------------------------
(* Typed keys *)

LEMMA PartTypes ==
  ASSUME NEW t \in Part
  PROVE  /\ t \in Seq(Bytes) /\ Len(t) \in Nat
         /\ <<4 * Len(t)>> \in Seq(Bytes) /\ EncodePart(t) \in Seq(Bytes)
<1>1. t \in Seq(Bytes) /\ Len(t) < 64
  BY DEF Part, Data
<1>2. Len(t) \in Nat
  BY <1>1, LenProperties
<1>3. 4 * Len(t) \in Bytes
  <2>1. \A n \in Nat : n < 64 => 4 * n \in 0 .. 255
    OBVIOUS
  <2> QED
    BY <1>1, <1>2, <2>1, Zenon DEF Bytes
<1>4. <<4 * Len(t)>> \in Seq(Bytes)
  BY <1>3
<1> QED
  BY <1>1, <1>2, <1>4, ConcatProperties DEF EncodePart

\* Where things are in an encoding: the length in front, then the bytes of the
\* component, then the rest.
LEMMA EncodedShape ==
  ASSUME NEW t \in Part, NEW r \in Seq(Bytes)
  PROVE  /\ Len(EncodePart(t) \o r) = Len(t) + 1 + Len(r)
         /\ (EncodePart(t) \o r)[1] = 4 * Len(t)
         /\ \A i \in 1 .. Len(t) : (EncodePart(t) \o r)[i + 1] = t[i]
         /\ \A i \in 1 .. Len(r) : (EncodePart(t) \o r)[i + (Len(t) + 1)] = r[i]
<1> DEFINE e == EncodePart(t)
<1>1. /\ t \in Seq(Bytes) /\ e \in Seq(Bytes)
      /\ Len(t) \in Nat /\ Len(r) \in Nat
  BY PartTypes, LenProperties
<1>2. <<4 * Len(t)>> \in Seq(Bytes)
  BY PartTypes
<1>3. /\ Len(e) = Len(t) + 1
      /\ e[1] = 4 * Len(t)
      /\ \A i \in 1 .. Len(t) : e[i + 1] = t[i]
  <2>1. /\ Len(e) = 1 + Len(t)
        /\ \A i \in 1 .. 1 + Len(t) :
             e[i] = IF i <= 1 THEN <<4 * Len(t)>>[i] ELSE t[i - 1]
    BY <1>1, <1>2, ConcatProperties DEF EncodePart
  <2>2. ASSUME NEW i \in 1 .. Len(t) PROVE e[i + 1] = t[i]
    <3>1. i + 1 \in 1 .. 1 + Len(t) /\ ~(i + 1 <= 1) /\ (i + 1) - 1 = i
      BY <1>1
    <3> QED
      BY <2>1, <3>1
  <2> QED
    BY <1>1, <2>1, <2>2
<1> HIDE DEF e
<1>4. /\ Len(e \o r) = Len(e) + Len(r)
      /\ \A i \in 1 .. Len(e) + Len(r) :
           (e \o r)[i] = IF i <= Len(e) THEN e[i] ELSE r[i - Len(e)]
  BY <1>1, ConcatProperties
<1>5. ASSUME NEW i \in 1 .. Len(t) PROVE (e \o r)[i + 1] = t[i]
  <2>1. i + 1 \in 1 .. Len(e) + Len(r) /\ i + 1 <= Len(e)
    BY <1>1, <1>3
  <2> QED
    BY <1>3, <1>4, <2>1
<1>6. ASSUME NEW i \in 1 .. Len(r) PROVE (e \o r)[i + (Len(t) + 1)] = r[i]
  <2>1. /\ i + (Len(t) + 1) \in 1 .. Len(e) + Len(r)
        /\ ~(i + (Len(t) + 1) <= Len(e))
        /\ (i + (Len(t) + 1)) - Len(e) = i
    BY <1>1, <1>3
  <2> QED
    BY <1>4, <2>1
<1>7. Len(e \o r) = Len(t) + 1 + Len(r) /\ (e \o r)[1] = 4 * Len(t)
  BY <1>1, <1>3, <1>4
<1> QED
  BY <1>5, <1>6, <1>7 DEF e

\* No component's encoding is a proper prefix of another's: what follows it
\* cannot be mistaken for a part of it.
LEMMA FirstPartDecides ==
  ASSUME NEW t \in Part, NEW s \in Part, NEW r \in Seq(Bytes), NEW q \in Seq(Bytes)
  PROVE  StartsWith(EncodePart(t) \o r, EncodePart(s) \o q)
           <=> t = s /\ StartsWith(r, q)
<1> DEFINE a == EncodePart(t) \o r
           b == EncodePart(s) \o q
<1>1. /\ Len(a) = Len(t) + 1 + Len(r)
      /\ a[1] = 4 * Len(t)
      /\ \A i \in 1 .. Len(t) : a[i + 1] = t[i]
      /\ \A i \in 1 .. Len(r) : a[i + (Len(t) + 1)] = r[i]
  BY EncodedShape
<1>2. /\ Len(b) = Len(s) + 1 + Len(q)
      /\ b[1] = 4 * Len(s)
      /\ \A i \in 1 .. Len(s) : b[i + 1] = s[i]
      /\ \A i \in 1 .. Len(q) : b[i + (Len(s) + 1)] = q[i]
  BY EncodedShape
<1>3. /\ Len(t) \in Nat /\ Len(s) \in Nat /\ Len(r) \in Nat /\ Len(q) \in Nat
      /\ t \in Seq(Bytes) /\ s \in Seq(Bytes)
  BY PartTypes, LenProperties
<1> HIDE DEF a, b
<1>4. ASSUME StartsWith(a, b) PROVE t = s /\ StartsWith(r, q)
  <2>1. Len(b) <= Len(a) /\ \A i \in 1 .. Len(b) : a[i] = b[i]
    BY <1>4 DEF StartsWith
  <2>2. Len(t) = Len(s)
    BY <1>1, <1>2, <1>3, <2>1
  <2>3. ASSUME NEW i \in 1 .. Len(s) PROVE t[i] = s[i]
    <3>1. i + 1 \in 1 .. Len(b)
      BY <1>2, <1>3
    <3> QED
      BY <1>1, <1>2, <2>1, <2>2, <3>1
  <2>4. ASSUME NEW i \in 1 .. Len(q) PROVE r[i] = q[i]
    <3>1. i + (Len(s) + 1) \in 1 .. Len(b) /\ i \in 1 .. Len(r)
      BY <1>1, <1>2, <1>3, <2>1, <2>2
    <3> QED
      BY <1>1, <1>2, <2>1, <2>2, <3>1
  <2>5. t = s
    BY <1>3, <2>2, <2>3, SeqEqual
  <2> QED
    BY <1>1, <1>2, <1>3, <2>1, <2>2, <2>4, <2>5 DEF StartsWith
<1>5. ASSUME t = s, StartsWith(r, q) PROVE StartsWith(a, b)
  <2>1. Len(q) <= Len(r) /\ \A i \in 1 .. Len(q) : r[i] = q[i]
    BY <1>5 DEF StartsWith
  <2>2. Len(b) <= Len(a)
    BY <1>1, <1>2, <1>3, <1>5, <2>1
  <2>3. ASSUME NEW i \in 1 .. Len(b) PROVE a[i] = b[i]
    <3>1. CASE i = 1
      BY <1>1, <1>2, <1>5, <3>1
    <3>2. CASE i \in 2 .. Len(s) + 1
      <4>1. i - 1 \in 1 .. Len(s) /\ i = (i - 1) + 1
        BY <1>3, <3>2
      <4> QED
        BY <1>1, <1>2, <1>5, <4>1
    <3>3. CASE i > Len(s) + 1
      <4>1. /\ i - (Len(s) + 1) \in 1 .. Len(q)
            /\ i - (Len(s) + 1) \in 1 .. Len(r)
            /\ i = (i - (Len(s) + 1)) + (Len(s) + 1)
        BY <1>2, <1>3, <2>1, <3>3
      <4> DEFINE j == i - (Len(s) + 1)
      <4>2. a[j + (Len(t) + 1)] = r[j]
        BY <1>1, <4>1
      <4>3. b[j + (Len(s) + 1)] = q[j]
        BY <1>2, <4>1
      <4>4. r[j] = q[j]
        BY <2>1, <4>1
      <4>5. i = j + (Len(s) + 1) /\ Len(t) = Len(s)
        BY <1>5, <4>1
      <4> HIDE DEF j
      <4> QED
        BY <4>2, <4>3, <4>4, <4>5, Zenon
    <3> QED
      BY <1>2, <1>3, <3>1, <3>2, <3>3
  <2> QED
    BY <2>2, <2>3 DEF StartsWith
<1> QED
  BY <1>4, <1>5 DEF a, b

LEMMA KeyTypes ==
  ASSUME NEW x \in TypedKeyOf(Part), NEW i \in 1 .. 3
  PROVE  /\ Len(x) \in 0 .. 3
         /\ i <= Len(x) => x[i] \in Part /\ EncodedAt(x, i) = EncodePart(x[i])
         /\ i > Len(x) => EncodedAt(x, i) = <<>>
         /\ EncodedAt(x, i) \in Seq(Bytes)
<1>1. PICK n \in 0 .. 3 : x \in [1 .. n -> Part]
  BY DEF TypedKeyOf
<1>2. Len(x) = n
  BY <1>1
<1>3. CASE i <= n
  <2>1. x[i] \in Part
    BY <1>1, <1>3
  <2> QED
    BY <1>2, <1>3, <2>1, PartTypes DEF EncodedAt
<1>4. CASE i > n
  BY <1>2, <1>4, EmptySeq DEF EncodedAt
<1> QED
  BY <1>3, <1>4

LEMMA EverythingStartsWithNothing ==
  ASSUME NEW r \in Seq(Bytes)
  PROVE  StartsWith(r, <<>>)
BY LenProperties, EmptySeq DEF StartsWith

\* One component and what follows it.
LEMMA PartAndRest ==
  ASSUME NEW key \in TypedKeyOf(Part), NEW p \in TypedKeyOf(Part), Len(p) <= Len(key),
         NEW i \in 1 .. 3, NEW r \in Seq(Bytes), NEW q \in Seq(Bytes),
         i > Len(p) => q = <<>>
  PROVE  StartsWith(EncodedAt(key, i) \o r, EncodedAt(p, i) \o q)
           <=> (i <= Len(p) => p[i] = key[i]) /\ StartsWith(r, q)
<1>1. CASE i <= Len(p)
  <2>1. i <= Len(key)
    BY <1>1, KeyTypes
  <2>2. /\ key[i] \in Part /\ EncodedAt(key, i) = EncodePart(key[i])
        /\ p[i] \in Part /\ EncodedAt(p, i) = EncodePart(p[i])
    BY <1>1, <2>1, KeyTypes
  <2> QED
    BY <1>1, <2>2, FirstPartDecides
<1>2. CASE i > Len(p)
  <2>1. EncodedAt(p, i) \o q = <<>>
    BY <1>2, KeyTypes, EmptySeq, ConcatEmptySeq
  <2>2. EncodedAt(key, i) \o r \in Seq(Bytes)
    BY KeyTypes, ConcatProperties
  <2>3. ~(i <= Len(p))
    BY <1>2, KeyTypes
  <2> QED
    BY <1>2, <2>1, <2>2, <2>3, EverythingStartsWithNothing
<1> QED
  BY <1>1, <1>2, KeyTypes

LEMMA EncodeNested ==
  ASSUME NEW x \in TypedKeyOf(Part)
  PROVE  /\ EncodedAt(x, 2) \o EncodedAt(x, 3) \in Seq(Bytes)
         /\ Encode(x) = EncodedAt(x, 1) \o (EncodedAt(x, 2) \o EncodedAt(x, 3))
         /\ Encode(x) \in Seq(Bytes)
<1>1. /\ EncodedAt(x, 1) \in Seq(Bytes) /\ EncodedAt(x, 2) \in Seq(Bytes)
      /\ EncodedAt(x, 3) \in Seq(Bytes)
  BY KeyTypes
<1>2. ASSUME NEW a \in Seq(Bytes), NEW b \in Seq(Bytes), NEW c \in Seq(Bytes)
      PROVE  (a \o b) \o c = a \o (b \o c) /\ a \o b \in Seq(Bytes)
  BY ConcatAssociative, ConcatProperties
<1>3. Encode(x) = (EncodedAt(x, 1) \o EncodedAt(x, 2)) \o EncodedAt(x, 3)
  BY DEF Encode
<1>4. /\ (EncodedAt(x, 1) \o EncodedAt(x, 2)) \o EncodedAt(x, 3)
           = EncodedAt(x, 1) \o (EncodedAt(x, 2) \o EncodedAt(x, 3))
      /\ EncodedAt(x, 2) \o EncodedAt(x, 3) \in Seq(Bytes)
  BY <1>1, <1>2, Zenon
<1>5. EncodedAt(x, 1) \o (EncodedAt(x, 2) \o EncodedAt(x, 3)) \in Seq(Bytes)
  BY <1>1, <1>2, <1>4, Zenon
<1> QED
  BY <1>3, <1>4, <1>5, Zenon

\* One component after the other: the encoding of a tuple starts with that of
\* another one, no longer, if and only if the tuple starts with its components.
LEMMA EncodedPrefix ==
  ASSUME NEW key \in TypedKeyOf(Part), NEW p \in TypedKeyOf(Part), Len(p) <= Len(key)
  PROVE  StartsWith(Encode(key), Encode(p)) <=> Agrees(p, key)
<1> DEFINE Same(i) == i <= Len(p) => p[i] = key[i]
           k2 == EncodedAt(key, 2) \o EncodedAt(key, 3)
           p2 == EncodedAt(p, 2) \o EncodedAt(p, 3)
<1>1. /\ Len(p) \in 0 .. 3
      /\ EncodedAt(key, 3) \in Seq(Bytes) /\ EncodedAt(p, 3) \in Seq(Bytes)
      /\ 2 > Len(p) => EncodedAt(p, 2) = <<>>
      /\ 3 > Len(p) => EncodedAt(p, 3) = <<>>
  BY KeyTypes
<1>2. k2 \in Seq(Bytes) /\ p2 \in Seq(Bytes)
  BY EncodeNested
<1> DEFINE Step(i, r, q) ==
             StartsWith(EncodedAt(key, i) \o r, EncodedAt(p, i) \o q)
               <=> Same(i) /\ StartsWith(r, q)
<1>0. ASSUME NEW i \in 1 .. 3, NEW r \in Seq(Bytes), NEW q \in Seq(Bytes),
             i > Len(p) => q = <<>>
      PROVE  Step(i, r, q)
  BY <1>0, PartAndRest
<1>3. StartsWith(EncodedAt(key, 3), EncodedAt(p, 3)) <=> Same(3)
  <2>1. /\ <<>> \in Seq(Bytes)
        /\ EncodedAt(key, 3) \o <<>> = EncodedAt(key, 3)
        /\ EncodedAt(p, 3) \o <<>> = EncodedAt(p, 3)
    <3>1. <<>> \in Seq(Bytes) /\ \A r \in Seq(Bytes) : r \o <<>> = r
      BY EmptySeq, ConcatEmptySeq
    <3> QED
      BY <1>1, <3>1, Zenon
  <2>2. StartsWith(<<>>, <<>>)
    BY <2>1, EverythingStartsWithNothing
  <2>3. 3 \in 1 .. 3
    OBVIOUS
  <2>4. StartsWith(EncodedAt(key, 3) \o <<>>, EncodedAt(p, 3) \o <<>>)
          <=> Same(3) /\ StartsWith(<<>>, <<>>)
    <3> HIDE DEF Step
    <3>1. Step(3, <<>>, <<>>)
      BY <1>0, <2>1, <2>3
    <3> QED
      BY <3>1 DEF Step
  <2> QED
    BY <2>1, <2>2, <2>4, Zenon
<1>4. StartsWith(k2, p2) <=> Same(2) /\ Same(3)
  <2>1. 2 \in 1 .. 3 /\ (2 > Len(p) => EncodedAt(p, 3) = <<>>)
    BY <1>1
  <2>2. StartsWith(k2, p2)
          <=> Same(2) /\ StartsWith(EncodedAt(key, 3), EncodedAt(p, 3))
    <3> HIDE DEF Step
    <3>1. Step(2, EncodedAt(key, 3), EncodedAt(p, 3))
      BY <1>0, <1>1, <2>1
    <3> QED
      BY <3>1 DEF Step
  <2> QED
    BY <1>3, <2>2, Zenon
<1>5. StartsWith(Encode(key), Encode(p)) <=> Same(1) /\ Same(2) /\ Same(3)
  <2>1. 1 \in 1 .. 3 /\ (1 > Len(p) => p2 = <<>>)
    BY <1>1, EmptySeq, ConcatEmptySeq
  <2>2. /\ Encode(key) = EncodedAt(key, 1) \o k2
        /\ Encode(p) = EncodedAt(p, 1) \o p2
    BY EncodeNested
  <2> HIDE DEF k2, p2
  <2>3. StartsWith(EncodedAt(key, 1) \o k2, EncodedAt(p, 1) \o p2)
          <=> Same(1) /\ StartsWith(k2, p2)
    <3> HIDE DEF Step
    <3>1. Step(1, k2, p2)
      BY <1>0, <1>2, <2>1
    <3> QED
      BY <3>1 DEF Step
  <2> QED
    BY <1>4, <2>2, <2>3, Zenon
<1>6. Same(1) /\ Same(2) /\ Same(3) <=> \A i \in 1 .. Len(p) : p[i] = key[i]
  BY <1>1
<1> QED
  BY <1>5, <1>6 DEF Agrees

\* The bytes of a typed prefix are a prefix of the bytes of exactly those typed
\* keys that have its components: prefix_iter of the typed layer, which hands
\* the encoded prefix to the backend, finds these keys and no others.
THEOREM TypedPrefixIsBytePrefix ==
  ASSUME NEW key \in TypedKeyOf(Part), NEW p \in TypedKeyOf(Part), HasPrefix(p, key)
  PROVE  StartsWith(Encode(key), Encode(p)) <=> Agrees(p, key)
<1>1. Len(p) \in 0 .. 3 /\ Len(key) \in 0 .. 3
  BY KeyTypes
<1>2. Len(p) = 0 \/ Len(p) < Len(key)
  BY EmptySeq DEF HasPrefix
<1>3. \A m, n \in 0 .. 3 : m = 0 \/ m < n => m <= n
  OBVIOUS
<1>4. Len(p) <= Len(key)
  BY <1>1, <1>2, <1>3, Zenon
<1> QED
  BY <1>4, EncodedPrefix

\* Two tuples of as many components are never encoded alike: put cannot overwrite
\* the entry of another typed key, and a key that an iterator decodes is the one
\* that was put.
THEOREM EncodeInjective ==
  ASSUME NEW x \in TypedKeyOf(Part), NEW y \in TypedKeyOf(Part),
         Len(x) = Len(y), Encode(x) = Encode(y)
  PROVE  x = y
<1>1. Encode(x) \in Seq(Bytes)
  BY EncodeNested
<1>2. StartsWith(Encode(x), Encode(y))
  BY <1>1, LenProperties DEF StartsWith
<1>3. PICK n \in 0 .. 3 : x \in [1 .. n -> Part]
  BY DEF TypedKeyOf
<1>4. PICK m \in 0 .. 3 : y \in [1 .. m -> Part]
  BY DEF TypedKeyOf
<1>5. n = m /\ Len(y) = n
  BY <1>3, <1>4
<1>6. Len(y) <= Len(x)
  BY <1>3, <1>4
<1>7. Agrees(y, x)
  BY <1>2, <1>6, EncodedPrefix
<1>8. \A i \in 1 .. n : x[i] = y[i]
  BY <1>5, <1>7 DEF Agrees
<1> QED
  BY <1>3, <1>4, <1>5, <1>8

-----------------------------------------------------------------------------
(* The inductive invariant of the merge *)

\* The keys the two ranges have yielded, and those they have yet to yield.
Taken == (DbRange(prefix) \ dbRest) \cup (DeltaRange(prefix) \ deltaRest)
Rest == dbRest \cup deltaRest
Found == {k \in Taken : Get(k) # None}

DataInv ==
  /\ db \in [Keys -> Vals \cup {None}]
  /\ delta \in [Keys -> Vals \cup {None, Absent}]
  /\ prefix \in PrefixArgs
  /\ done \in BOOLEAN

\* What was taken has the prefix and comes before all that was not.
RestInv ==
  /\ dbRest \subseteq DbRange(prefix) /\ deltaRest \subseteq DeltaRange(prefix)
  /\ \A k \in Taken : StartsWith(k, prefix) /\ \A j \in Rest : Less(k, j)

\* What was yielded is what get finds among the keys taken.
OutInv == out = Entries(Sorted(Found))

DoneInv == done => ~Yields(dbRest) /\ ~Yields(deltaRest)

IterInv == DataInv /\ RestInv /\ OutInv /\ DoneInv

-----------------------------------------------------------------------------
(* Entries and ranges *)

LEMMA KeysAreKeySet ==
  ASSUME NEW S \in SUBSET Keys
  PROVE  KeySet(S)
BY KeysAssumption, FS_Subset DEF KeySet

LEMMA RangesAreKeys ==
  ASSUME NEW p
  PROVE  /\ DbRange(p) \in SUBSET Keys
         /\ DeltaRange(p) \in SUBSET Keys
BY DEF DbRange, DeltaRange, RangeFrom

LEMMA EntriesProperties ==
  ASSUME DataInv, NEW s \in Seq(Keys)
  PROVE  /\ Entries(s) \in Seq(Keys \X (Vals \cup {None}))
         /\ Len(Entries(s)) = Len(s)
         /\ \A i \in 1 .. Len(s) : Entries(s)[i] = Entry(s[i])
<1> DEFINE e(i) == Entry(s[i])
<1>1. Len(s) \in Nat /\ DOMAIN s = 1 .. Len(s)
  BY LenProperties
<1>2. ASSUME NEW i \in 1 .. Len(s) PROVE e(i) \in Keys \X (Vals \cup {None})
  <2>1. s[i] \in Keys
    BY ElementOfSeq
  <2>2. Get(s[i]) \in Vals \cup {None}
    BY <2>1 DEF DataInv, Get
  <2> QED
    BY <2>1, <2>2 DEF Entry
<1>3. Entries(s) = [i \in 1 .. Len(s) |-> e(i)]
  BY <1>1 DEF Entries
<1> HIDE DEF e
<1>4. Entries(s) \in Seq(Keys \X (Vals \cup {None}))
  BY <1>1, <1>2, <1>3, IsASeq
<1>5. Len(Entries(s)) = Len(s) /\ \A i \in 1 .. Len(s) : Entries(s)[i] = e(i)
  BY <1>1, <1>3
<1> QED
  BY <1>4, <1>5 DEF e

LEMMA EntriesAppend ==
  ASSUME DataInv, NEW s \in Seq(Keys), NEW k \in Keys
  PROVE  Entries(Append(s, k)) = Append(Entries(s), Entry(k))
<1> DEFINE T == Keys \X (Vals \cup {None})
           n == Len(s)
           a == Append(s, k)
           b == Append(Entries(s), Entry(k))
<1>1. n \in Nat
  BY LenProperties
<1>2. /\ a \in Seq(Keys) /\ Len(a) = n + 1
      /\ a[n + 1] = k /\ \A i \in 1 .. n : a[i] = s[i]
  BY AppendProperties
<1>3. /\ Entries(s) \in Seq(T) /\ Len(Entries(s)) = n
      /\ \A i \in 1 .. n : Entries(s)[i] = Entry(s[i])
  BY EntriesProperties
<1>4. Entry(k) \in T
  BY DEF Entry, Get, DataInv
<1> HIDE DEF a, n, T
<1>5. /\ b \in Seq(T) /\ Len(b) = n + 1
      /\ b[n + 1] = Entry(k) /\ \A i \in 1 .. n : b[i] = Entries(s)[i]
  BY <1>3, <1>4, AppendProperties
<1>6. /\ Entries(a) \in Seq(T) /\ Len(Entries(a)) = n + 1
      /\ \A i \in 1 .. n + 1 : Entries(a)[i] = Entry(a[i])
  BY <1>2, EntriesProperties DEF T
<1> HIDE DEF b
<1>7. ASSUME NEW i \in 1 .. n + 1 PROVE Entries(a)[i] = b[i]
  <2>1. i \in 1 .. n \/ i = n + 1
    BY <1>1
  <2> QED
    BY <1>2, <1>3, <1>5, <1>6, <2>1
<1>8. Entries(a) = b
  BY <1>5, <1>6, <1>7, SeqEqual
<1> QED
  BY <1>8 DEF a, b

\* If the least key of one range comes before that of another, or the other
\* yields no more, it comes before all of the other: what the merge compares
\* are the two next keys alone.
LEMMA LeastOfBoth ==
  ASSUME NEW p \in Data, NEW R, KeySet(R), R # {}, StartsWith(Least(R), p),
         NEW Q, KeySet(Q), \A j \in Q : AtLeast(j, p),
         Q # {} /\ StartsWith(Least(Q), p) => Less(Least(R), Least(Q))
  PROVE  \A j \in Q : Less(Least(R), j)
<1> SUFFICES ASSUME NEW j \in Q PROVE Less(Least(R), j)
  OBVIOUS
<1> DEFINE k == Least(R)
           q == Least(Q)
<1>1. k \in Data /\ q \in Q /\ q \in Data /\ j \in Data
  BY LeastProperties DEF KeySet
<1>2. j = q \/ Less(q, j)
  BY LeastProperties
<1>3. Less(k, q)
  <2>1. CASE StartsWith(q, p)
    BY <1>1, <2>1
  <2>2. CASE ~StartsWith(q, p)
    <3>1. AtLeast(q, p)
      BY <1>1
    <3>2. q # k
      BY <2>2
    <3> HIDE DEF k, q
    <3>3. ~Less(q, k)
      BY <1>1, <2>2, <3>1, PrefixRangeIsContiguous DEF k
    <3> QED
      BY <1>1, <3>2, <3>3, LessTotal
  <2> QED
    BY <2>1, <2>2
<1> HIDE DEF k, q
<1>4. Less(k, j)
  BY <1>1, <1>2, <1>3, LessTransitive
<1> QED
  BY <1>4 DEF k

-----------------------------------------------------------------------------
(* The merge *)

LEMMA InitInv == Init => IterInv
<1> SUFFICES ASSUME Init PROVE IterInv
  OBVIOUS
<1>1. DataInv /\ DoneInv
  BY DEF Init, DataInv, DoneInv
<1>2. Taken = {}
  BY DEF Init, Taken
<1>3. RestInv
  BY <1>2 DEF Init, RestInv
<1>4. Sorted(Found) = <<>>
  <2>1. Found = {}
    BY <1>2 DEF Found
  <2>2. KeySet({})
    BY KeysAreKeySet
  <2>3. Sorted({}) \in Seq({}) /\ Len(Sorted({})) = 0
    BY <2>2, SortedProperties, FS_EmptySet
  <2>4. Sorted({}) = <<>>
    BY <2>3, EmptySeq
  <2> QED
    BY <2>1, <2>4
<1>5. Entries(<<>>) = <<>>
  <2>1. <<>> \in Seq(Keys) /\ Len(<<>>) = 0
    BY EmptySeq
  <2>2. Entries(<<>>) \in Seq(Keys \X (Vals \cup {None})) /\ Len(Entries(<<>>)) = 0
    BY <1>1, <2>1, EntriesProperties
  <2> QED
    BY <2>2, EmptySeq
<1>6. OutInv
  BY <1>4, <1>5 DEF Init, OutInv
<1> QED
  BY <1>1, <1>3, <1>6 DEF IterInv

\* What a step of the merge has to be: the least key left is taken, and yielded
\* if get finds it.
LEMMA TakeStep ==
  ASSUME IterInv, NEW k \in Rest, StartsWith(k, prefix),
         \A j \in Rest \ {k} : Less(k, j), ~done,
         UNCHANGED <<db, delta, prefix, done>>,
         dbRest' = dbRest \ {k}, deltaRest' = deltaRest \ {k},
         out' = IF Get(k) = None THEN out ELSE Append(out, Entry(k))
  PROVE  IterInv'
<1>1. DataInv /\ RestInv /\ OutInv
  BY DEF IterInv
<1>2. DataInv' /\ DoneInv'
  BY <1>1 DEF DataInv, DoneInv
<1>3. DbRange(prefix)' = DbRange(prefix) /\ DeltaRange(prefix)' = DeltaRange(prefix)
  BY DEF DbRange, DeltaRange
<1>4. Taken' = Taken \cup {k} /\ Rest' = Rest \ {k}
  BY <1>1, <1>3 DEF Taken, Rest, RestInv
<1>5. RestInv'
  <2>1. /\ dbRest' \subseteq DbRange(prefix)' /\ deltaRest' \subseteq DeltaRange(prefix)'
    BY <1>1, <1>3 DEF RestInv
  <2>2. ASSUME NEW x \in Taken', NEW j \in Rest'
        PROVE  StartsWith(x, prefix') /\ Less(x, j)
    BY <1>1, <1>4, <2>2 DEF RestInv
  <2>3. ASSUME NEW x \in Taken' PROVE StartsWith(x, prefix')
    BY <1>1, <1>4 DEF RestInv
  <2> QED
    BY <2>1, <2>2, <2>3 DEF RestInv
<1>6. OutInv'
  <2>1. Found \in SUBSET Keys /\ Taken \in SUBSET Keys /\ k \in Keys
    BY <1>1, RangesAreKeys DEF Found, Taken, Rest, RestInv
  <2>2. Found' = IF Get(k) = None THEN Found ELSE Found \cup {k}
    <3>1. \A x : Get(x)' = Get(x)
      BY DEF Get
    <3> QED
      BY <1>4, <3>1 DEF Found
  <2>3. out' = Entries(Sorted(Found')) => OutInv'
    BY DEF OutInv, Entries, Entry, Get
  <2>4. CASE Get(k) = None
    <3>1. out' = out /\ Found' = Found
      BY <2>2, <2>4
    <3>2. out = Entries(Sorted(Found))
      BY <1>1 DEF OutInv
    <3> QED
      BY <2>3, <3>1, <3>2
  <2>5. CASE Get(k) # None
    <3>1. Sorted(Found \cup {k}) = Append(Sorted(Found), k)
      <4>1. k \in Data /\ \A j \in Found : Less(j, k)
        BY <1>1, <2>1, KeysAssumption DEF RestInv, Found
      <4> QED
        BY <2>1, <4>1, KeysAreKeySet, SortedAppend
    <3>2. Sorted(Found) \in Seq(Keys)
      BY <2>1, KeysAreKeySet, SortedProperties, SeqMonotonic
    <3>3. Entries(Append(Sorted(Found), k)) = Append(Entries(Sorted(Found)), Entry(k))
      BY <1>1, <2>1, <3>2, EntriesAppend
    <3>4. out' = Entries(Sorted(Found \cup {k}))
      BY <1>1, <2>5, <3>1, <3>3 DEF OutInv
    <3>5. Found' = Found \cup {k}
      BY <2>2, <2>5
    <3> QED
      BY <2>3, <3>4, <3>5
  <2> QED
    BY <2>4, <2>5
<1> QED
  BY <1>2, <1>5, <1>6 DEF IterInv

LEMMA RangeTypes ==
  ASSUME IterInv
  PROVE  /\ prefix \in Data
         /\ KeySet(dbRest) /\ \A j \in dbRest : AtLeast(j, prefix) /\ db[j] # None
         /\ KeySet(deltaRest) /\ \A j \in deltaRest : AtLeast(j, prefix) /\ delta[j] # Absent
         /\ dbRest \in SUBSET Keys /\ deltaRest \in SUBSET Keys
<1>1. /\ dbRest \in SUBSET Keys /\ \A j \in dbRest : AtLeast(j, prefix) /\ db[j] # None
      /\ deltaRest \in SUBSET Keys
      /\ \A j \in deltaRest : AtLeast(j, prefix) /\ delta[j] # Absent
  BY DEF IterInv, RestInv, DbRange, DeltaRange, RangeFrom
<1>2. prefix \in Data
  BY KeysAssumption DEF IterInv, DataInv
<1> QED
  BY <1>1, <1>2, KeysAreKeySet

LEMMA TakeDbStep ==
  ASSUME IterInv, TakeDb
  PROVE  IterInv'
<1> DEFINE k == Least(dbRest)
<1>1. k \in dbRest /\ k \in Data /\ \A j \in dbRest \ {k} : Less(k, j)
  BY RangeTypes, LeastProperties DEF TakeDb, Yields, KeySet
<1>2. \A j \in deltaRest : Less(k, j)
  <2>1. /\ StartsWith(Least(dbRest), prefix) /\ dbRest # {}
        /\ deltaRest # {} /\ StartsWith(Least(deltaRest), prefix)
             => Less(Least(dbRest), Least(deltaRest))
    BY DEF TakeDb, Yields
  <2> QED
    BY <2>1, RangeTypes, LeastOfBoth
<1> HIDE DEF k
<1>3. k \notin deltaRest
  BY <1>1, <1>2, LessAsymmetric
<1>4. StartsWith(k, prefix) /\ ~done
  BY DEF TakeDb, IterInv, DoneInv, Yields, k
<1>5. k \in Rest /\ \A j \in Rest \ {k} : Less(k, j)
  BY <1>1, <1>2 DEF Rest
<1>6. delta[k] = Absent
  <2> SUFFICES ASSUME delta[k] # Absent PROVE FALSE
    OBVIOUS
  <2>1. k \in Keys /\ AtLeast(k, prefix)
    BY <1>1, RangeTypes
  <2>2. k \in DeltaRange(prefix)
    BY <2>1 DEF DeltaRange, RangeFrom
  <2>3. k \in Taken
    BY <1>3, <2>2 DEF Taken
  <2>4. Less(k, k)
    BY <1>5, <2>3 DEF IterInv, RestInv
  <2> QED
    BY <1>1, <2>4, LessAsymmetric
<1>7. Get(k) = db[k] /\ Get(k) # None
  BY <1>1, <1>6, RangeTypes DEF Get
<1>8. /\ out' = IF Get(k) = None THEN out ELSE Append(out, Entry(k))
      /\ dbRest' = dbRest \ {k} /\ deltaRest' = deltaRest \ {k}
      /\ UNCHANGED <<db, delta, prefix, done>>
  BY <1>3, <1>7 DEF TakeDb, EmitDb, Entry, k
<1> QED
  BY <1>4, <1>5, <1>8, TakeStep

LEMMA TakeDeltaStep ==
  ASSUME IterInv, TakeDelta
  PROVE  IterInv'
<1> DEFINE k == Least(deltaRest)
<1>1. k \in deltaRest /\ k \in Data /\ \A j \in deltaRest \ {k} : Less(k, j)
  BY RangeTypes, LeastProperties DEF TakeDelta, Yields, KeySet
<1>2. \A j \in dbRest : Less(k, j)
  <2>1. /\ StartsWith(Least(deltaRest), prefix) /\ deltaRest # {}
        /\ dbRest # {} /\ StartsWith(Least(dbRest), prefix)
             => Less(Least(deltaRest), Least(dbRest))
    BY DEF TakeDelta, Yields
  <2> QED
    BY <2>1, RangeTypes, LeastOfBoth
<1> HIDE DEF k
<1>3. k \notin dbRest
  BY <1>1, <1>2, LessAsymmetric
<1>4. StartsWith(k, prefix) /\ ~done
  BY DEF TakeDelta, IterInv, DoneInv, Yields, k
<1>5. k \in Rest /\ \A j \in Rest \ {k} : Less(k, j)
  BY <1>1, <1>2 DEF Rest
<1>6. Get(k) = delta[k]
  BY <1>1, RangeTypes DEF Get
<1>7. /\ out' = IF Get(k) = None THEN out ELSE Append(out, Entry(k))
      /\ dbRest' = dbRest \ {k} /\ deltaRest' = deltaRest \ {k}
      /\ UNCHANGED <<db, delta, prefix, done>>
  BY <1>3, <1>6 DEF TakeDelta, EmitDelta, Entry, k
<1> QED
  BY <1>4, <1>5, <1>7, TakeStep

LEMMA TakeBothStep ==
  ASSUME IterInv, TakeBoth
  PROVE  IterInv'
<1> DEFINE k == Least(deltaRest)
<1>1. k \in deltaRest /\ \A j \in deltaRest \ {k} : Less(k, j)
  BY RangeTypes, LeastProperties DEF TakeBoth, Yields
<1>2. k = Least(dbRest) /\ k \in dbRest /\ \A j \in dbRest \ {k} : Less(k, j)
  BY RangeTypes, LeastProperties DEF TakeBoth, Yields
<1> HIDE DEF k
<1>3. StartsWith(k, prefix) /\ ~done
  BY DEF TakeBoth, IterInv, DoneInv, Yields, k
<1>4. k \in Rest /\ \A j \in Rest \ {k} : Less(k, j)
  BY <1>1, <1>2 DEF Rest
<1>5. Get(k) = delta[k]
  BY <1>1, RangeTypes DEF Get
<1>6. /\ out' = IF Get(k) = None THEN out ELSE Append(out, Entry(k))
      /\ dbRest' = dbRest \ {k} /\ deltaRest' = deltaRest \ {k}
      /\ UNCHANGED <<db, delta, prefix, done>>
  BY <1>2, <1>5 DEF TakeBoth, EmitDelta, Entry, k
<1> QED
  BY <1>3, <1>4, <1>6, TakeStep

LEMMA IterInvStep ==
  ASSUME IterInv, [Next]_vars
  PROVE  IterInv'
<1>1. CASE End
  <2> USE DEF End
  <2>1. DataInv'
    BY <1>1 DEF IterInv, DataInv
  <2>2. RestInv'
    BY <1>1 DEF IterInv, RestInv, Taken, Rest, DbRange, DeltaRange
  <2>3. OutInv'
    BY <1>1 DEF IterInv, OutInv, Found, Taken, DbRange, DeltaRange, Entries, Entry, Get
  <2>4. DoneInv'
    BY <1>1 DEF DoneInv, Yields
  <2> QED
    BY <2>1, <2>2, <2>3, <2>4 DEF IterInv
<1>2. CASE UNCHANGED vars
  BY <1>2 DEF vars, IterInv, DataInv, RestInv, OutInv, DoneInv, Yields, Found, Taken, Rest,
              DbRange, DeltaRange, Entries, Entry, Get
<1> QED
  BY <1>1, <1>2, TakeDbStep, TakeDeltaStep, TakeBothStep DEF Next, AfterEnd

\* In every state of an iteration, what the ranges have yielded comes before what
\* they have yet to yield, and the merge has put out the entry of each key taken
\* that get finds, in order: no deletion, replacement or tie breaks it.
THEOREM Invariant == Spec => []IterInv
<1>1. Init => IterInv
  BY InitInv
<1>2. IterInv /\ [Next]_vars => IterInv'
  BY IterInvStep
<1> QED
  BY <1>1, <1>2, PTL DEF Spec

-----------------------------------------------------------------------------
(* What it means *)

\* The keys of Expected.
Matching == {k \in Keys : StartsWith(k, prefix) /\ Get(k) # None}

LEMMA FoundFirst ==
  ASSUME IterInv
  PROVE  /\ Found \in SUBSET Matching
         /\ \A k \in Matching \ Found : k \in Rest /\ \A t \in Found : Less(t, k)
         /\ done => Found = Matching
<1>1. Found \in SUBSET Matching
  <2>1. Taken \in SUBSET Keys
    BY RangesAreKeys DEF Taken
  <2> QED
    BY <2>1 DEF Found, Matching, IterInv, RestInv
<1>2. ASSUME NEW k \in Matching \ Found
      PROVE  k \in Rest /\ \A t \in Found : Less(t, k)
  <2>1. k \in Keys /\ StartsWith(k, prefix) /\ Get(k) # None /\ k \notin Taken
    BY DEF Matching, Found
  <2>2. AtLeast(k, prefix)
    BY <2>1, KeysAssumption, RangeTypes, SeekFindsPrefix
  <2>3. k \in DbRange(prefix) \/ k \in DeltaRange(prefix)
    BY <2>1, <2>2 DEF Get, DbRange, DeltaRange, RangeFrom
  <2>4. k \in Rest
    BY <2>1, <2>3 DEF Taken, Rest
  <2> QED
    BY <2>4 DEF Found, IterInv, RestInv
<1>3. ASSUME NEW R, KeySet(R), \A j \in R : AtLeast(j, prefix), ~Yields(R)
      PROVE  R \cap Matching = {}
  <2> SUFFICES ASSUME NEW k \in R, k \in Matching PROVE FALSE
    OBVIOUS
  <2>1. Least(R) \in R /\ Least(R) \in Data /\ k \in Data /\ prefix \in Data
    BY <1>3, LeastProperties, RangeTypes DEF KeySet
  <2>2. StartsWith(k, prefix) /\ ~StartsWith(Least(R), prefix)
    BY <1>3 DEF Matching, Yields
  <2>3. Less(Least(R), k)
    BY <1>3, <2>1, <2>2, LeastProperties
  <2>4. AtLeast(Least(R), prefix)
    BY <1>3, <2>1
  <2> QED
    BY <2>1, <2>2, <2>3, <2>4, PrefixRangeIsContiguous
<1>4. ASSUME done PROVE Found = Matching
  <2>1. ~Yields(dbRest) /\ ~Yields(deltaRest)
    BY <1>4 DEF IterInv, DoneInv
  <2>2. Rest \cap Matching = {}
    BY <1>3, <2>1, RangeTypes DEF Rest
  <2> QED
    BY <1>1, <1>2, <2>2
<1> QED
  BY <1>1, <1>2, <1>4

LEMMA OutProperties ==
  ASSUME IterInv
  PROVE  /\ out \in Seq(Keys \X Vals)
         /\ IsPrefix(out, Expected)
         /\ done => out = Expected
<1> DEFINE T == Keys \X (Vals \cup {None})
           s == Sorted(Found)
           m == Sorted(Matching)
<1>1. Found \in SUBSET Matching /\ Matching \in SUBSET Keys /\ Found \in SUBSET Keys
  BY FoundFirst DEF Matching
<1>2. /\ s \in Seq(Keys) /\ m \in Seq(Keys)
      /\ \A i \in 1 .. Len(s) : s[i] \in Found
  BY <1>1, KeysAreKeySet, SortedProperties, SeqMonotonic
<1>3. Len(s) <= Len(m) /\ \A i \in 1 .. Len(s) : s[i] = m[i]
  BY <1>1, FoundFirst, KeysAreKeySet, SortedProperties, SortedStart
<1>4. DataInv /\ out = Entries(s) /\ Expected = Entries(m)
  BY DEF IterInv, OutInv, Expected, Matching
<1> HIDE DEF s, m
<1>5. /\ out \in Seq(T) /\ Len(out) = Len(s) /\ \A i \in 1 .. Len(s) : out[i] = Entry(s[i])
      /\ Expected \in Seq(T) /\ Len(Expected) = Len(m)
      /\ \A i \in 1 .. Len(m) : Expected[i] = Entry(m[i])
  BY <1>2, <1>4, EntriesProperties
<1>6. Len(s) \in Nat /\ Len(m) \in Nat
  BY <1>2, LenProperties
<1>7. out \in Seq(Keys \X Vals)
  <2>1. ASSUME NEW i \in 1 .. Len(s) PROVE out[i] \in Keys \X Vals
    <3>1. s[i] \in Keys /\ Get(s[i]) # None
      BY <1>1, <1>2 DEF Found
    <3>2. Get(s[i]) \in Vals
      BY <1>4, <3>1 DEF Get, DataInv
    <3> QED
      BY <1>5, <3>1, <3>2 DEF Entry
  <2>2. out = [i \in 1 .. Len(s) |-> out[i]]
    BY <1>5, LenProperties
  <2> DEFINE o(i) == out[i]
  <2>3. [i \in 1 .. Len(s) |-> o(i)] \in Seq(Keys \X Vals)
    BY <1>6, <2>1, IsASeq
  <2> QED
    BY <2>2, <2>3
<1>8. IsPrefix(out, Expected)
  <2>1. \A i \in 1 .. Len(out) : out[i] \in T /\ Expected[i] \in T /\ out[i] = Expected[i]
    BY <1>3, <1>5, <1>6, ElementOfSeq
  <2>2. Len(out) <= Len(Expected) /\ Len(out) \in Nat
    BY <1>3, <1>5, <1>6
  <2> HIDE DEF T
  <2>3. /\ SubSeq(out, 1, Len(out)) \in Seq(T) /\ SubSeq(Expected, 1, Len(out)) \in Seq(T)
        /\ Len(SubSeq(out, 1, Len(out))) = Len(out)
        /\ Len(SubSeq(Expected, 1, Len(out))) = Len(out)
        /\ \A i \in 1 .. Len(out) : /\ SubSeq(out, 1, Len(out))[i] = out[i]
                                    /\ SubSeq(Expected, 1, Len(out))[i] = Expected[i]
    BY <2>1, <2>2, SubSeqProperties
  <2>4. SubSeq(out, 1, Len(out)) = SubSeq(Expected, 1, Len(out))
    BY <2>1, <2>3, SeqEqual
  <2> QED
    BY <2>2, <2>4 DEF IsPrefix
<1>9. ASSUME done PROVE out = Expected
  BY <1>4, <1>9, FoundFirst DEF s, m
<1> QED
  BY <1>7, <1>8, <1>9

\* What the iterators keep is well typed, and what was yielded are entries with
\* values: a deletion never gets out of the merge.
THEOREM IterTypes == Spec => []TypeOK
<1>1. IterInv => TypeOK
  BY RangeTypes, OutProperties DEF TypeOK, IterInv, DataInv
<1> QED
  BY <1>1, Invariant, PTL

\* For any store and any changes, prefix_iter of the locking adaptor's read-write
\* transaction yields what get finds under the prefix, in key order: no entry the
\* transaction deleted or replaced, none twice, and none is missed.
THEOREM MergeIsGet == Spec => []MergeAgreesWithGet
<1>1. IterInv => MergeAgreesWithGet
  BY OutProperties DEF MergeAgreesWithGet
<1> QED
  BY <1>1, Invariant, PTL

-----------------------------------------------------------------------------
(* The other iterators *)

\* Of keys that are present, at least the prefix, and all that have it, those
\* before the first without the prefix are those with it.
LEMMA TakeWhileMatching ==
  ASSUME IterInv, NEW W \in SUBSET Present, Matching \subseteq W,
         \A k \in W : AtLeast(k, prefix)
  PROVE  TakeWhilePrefix(W, prefix) = Matching
<1>1. W \subseteq Data /\ prefix \in Data
  BY KeysAssumption, RangeTypes DEF Present
<1>2. \A k \in W : k \in Matching <=> StartsWith(k, prefix)
  BY DEF Present, Matching
<1>3. ASSUME NEW k \in W, NEW j \in W, StartsWith(k, prefix), ~StartsWith(j, prefix)
      PROVE  Less(k, j)
  <2>1. ~Less(j, k)
    BY <1>1, <1>3, PrefixRangeIsContiguous
  <2> QED
    BY <1>1, <1>3, <2>1, LessTotal
<1>4. ASSUME NEW k \in W, ~StartsWith(k, prefix)
      PROVE  k \notin TakeWhilePrefix(W, prefix)
  BY <1>1, <1>4, LessAsymmetric DEF TakeWhilePrefix
<1> QED
  BY <1>2, <1>3, <1>4 DEF TakeWhilePrefix

\* The same contents yield the same entries in the same order from the locking
\* adaptor's transactions, SQLite's filtered rows and LMDB's cursor, for every
\* prefix, the empty one included: no backend stops early.
THEOREM IteratorsAgree == Spec => []BackendsAgree
<1> SUFFICES ASSUME IterInv PROVE BackendsAgree
  BY Invariant, PTL
<1> SUFFICES ASSUME done
             PROVE  /\ InMemoryIter(prefix) = out
                    /\ SqliteIter(prefix) = out
                    /\ LmdbIter(prefix) = out
  BY DEF BackendsAgree
<1>1. out = Entries(Sorted(Matching))
  BY OutProperties DEF Expected, Matching
<1>2. Matching \subseteq Present /\ Present \subseteq Data /\ prefix \in Data
  BY KeysAssumption, RangeTypes DEF Matching, Present
<1>3. \A k \in Data : StartsWith(k, prefix) => AtLeast(k, prefix)
  BY <1>2, SeekFindsPrefix
<1>4. \A k \in Matching : AtLeast(k, prefix)
  BY <1>2, <1>3 DEF Matching
<1>5. InMemoryIter(prefix) = out
  <2>1. TakeWhilePrefix(RangeFrom(Present, prefix), prefix) = Matching
    BY <1>2, <1>4, TakeWhileMatching DEF RangeFrom
  <2> QED
    BY <1>1, <2>1 DEF InMemoryIter
<1>6. SqliteIter(prefix) = out
  <2> DEFINE kv == {k \in Present : StartsWith(k, prefix)}
  <2>1. kv = Matching
    BY DEF Matching, Present
  <2>2. TakeWhilePrefix(kv, prefix) = Matching
    BY <1>2, <1>4, <2>1, TakeWhileMatching
  <2> QED
    BY <1>1, <2>2 DEF SqliteIter
<1>7. LmdbIter(prefix) = out
  <2> DEFINE walk == IF prefix = <<>> THEN Present ELSE RangeFrom(Present, prefix)
  <2>1. ASSUME prefix = <<>> PROVE \A k \in Data : StartsWith(k, prefix)
    <3>1. \A k \in Data : StartsWith(k, <<>>)
      BY EverythingStartsWithNothing DEF Data
    <3> QED
      BY <2>1, <3>1
  <2>2. /\ walk \in SUBSET Present /\ Matching \subseteq walk
        /\ \A k \in walk : AtLeast(k, prefix)
    BY <1>2, <1>3, <1>4, <2>1 DEF RangeFrom
  <2>3. TakeWhilePrefix(walk, prefix) = Matching
    BY <2>2, TakeWhileMatching
  <2> QED
    BY <1>1, <2>3 DEF LmdbIter
<1> QED
  BY <1>5, <1>6, <1>7

-----------------------------------------------------------------------------
(* The typed layer *)

LEMMA TypedKeyTypes ==
  /\ TypedKeys \subseteq TypedKeyOf(Part) /\ TypedPrefixes \subseteq TypedKeyOf(Part)
  /\ \A key \in TypedKeys : Encode(key) \in Keys
  /\ \A p \in TypedPrefixes, key \in TypedKeys : HasPrefix(p, key)
  /\ \A x, y \in TypedKeys : Len(x) = Len(y)
<1>1. PICK n \in 0 .. 3 : TypedKeys \subseteq [1 .. n -> Part]
  BY TypedKeysAssumption
<1>2. \A x \in TypedKeys : Len(x) = n
  BY <1>1
<1>3. TypedKeys \subseteq TypedKeyOf(Part)
  BY <1>1 DEF TypedKeyOf
<1>4. TypedPrefixes \subseteq TypedKeyOf(Part)
  BY TypedKeysAssumption DEF TypedKeyOf
<1>5. /\ \A key \in TypedKeys : Encode(key) \in Keys
      /\ \A p \in TypedPrefixes, key \in TypedKeys : HasPrefix(p, key)
  BY TypedKeysAssumption
<1> QED
  BY <1>2, <1>3, <1>4, <1>5

LEMMA DecodeEncode ==
  ASSUME NEW key \in TypedKeys
  PROVE  Decode(Encode(key)) = key
<1>1. ASSUME NEW x \in TypedKeys, Encode(x) = Encode(key) PROVE x = key
  BY <1>1, TypedKeyTypes, EncodeInjective
<1>2. \E x \in TypedKeys : Encode(x) = Encode(key)
  OBVIOUS
<1> QED
  BY <1>1, <1>2 DEF Decode

\* A typed map's iterators yield the entries of exactly the keys that start with
\* the components asked for, whatever the bytes of other keys are.
THEOREM TypedIteratorsAgree == Spec => []TypedIterAgrees
<1> SUFFICES ASSUME IterInv PROVE TypedIterAgrees
  BY Invariant, PTL
<1> SUFFICES ASSUME NEW p \in TypedPrefixes, done, WrittenTyped, prefix = Encode(p)
             PROVE  ToSet(TypedIter)
                      = {<<key, TypedGet(key)>> :
                           key \in {x \in TypedKeys : Agrees(p, x) /\ TypedGet(x) # None}}
  BY DEF TypedIterAgrees
<1> DEFINE m == Sorted(Matching)
           A == {x \in TypedKeys : Agrees(p, x) /\ TypedGet(x) # None}
<1>1. out = Entries(m) /\ Matching \in SUBSET Keys
  BY OutProperties DEF Expected, Matching
<1>2. /\ m \in Seq(Matching) /\ DOMAIN m = 1 .. Len(m)
      /\ \A i \in DOMAIN m : m[i] \in Matching
      /\ \A k \in Matching : \E i \in DOMAIN m : m[i] = k
  <2>1. KeySet(Matching)
    BY <1>1, KeysAreKeySet
  <2>2. /\ m \in Seq(Matching) /\ Len(m) = Cardinality(Matching)
        /\ \A i \in 1 .. Cardinality(Matching) : m[i] \in Matching
        /\ \A k \in Matching : Rank(Matching, k) + 1 \in 1 .. Cardinality(Matching)
                               /\ m[Rank(Matching, k) + 1] = k
    BY <2>1, SortedProperties
  <2>3. DOMAIN m = 1 .. Len(m)
    BY <2>2, LenProperties
  <2> QED
    BY <2>2, <2>3
<1>3. Matching = {Encode(x) : x \in A}
  <2>1. ASSUME NEW x \in TypedKeys
        PROVE  StartsWith(Encode(x), prefix) <=> Agrees(p, x)
    BY TypedKeyTypes, TypedPrefixIsBytePrefix
  <2>2. ASSUME NEW k \in Matching PROVE k \in Encoded
    <3>1. k \in Keys /\ Get(k) # None
      BY DEF Matching
    <3> QED
      BY <3>1 DEF WrittenTyped, Get
  <2>3. \A x \in TypedKeys : Encode(x) \in Keys
    BY TypedKeyTypes
  <2> QED
    BY <2>1, <2>2, <2>3 DEF Matching, Encoded, TypedGet
<1> HIDE DEF m
<1>4. /\ DOMAIN out = DOMAIN m
      /\ \A i \in DOMAIN m : out[i] = <<m[i], Get(m[i])>>
  BY <1>1 DEF Entries, Entry
<1>5. /\ DOMAIN TypedIter = DOMAIN m
      /\ \A i \in DOMAIN m : TypedIter[i] = <<Decode(m[i]), Get(m[i])>>
  BY <1>4 DEF TypedIter
<1>6. ToSet(TypedIter) = {<<Decode(k), Get(k)>> : k \in Matching}
  <2> DEFINE d(k) == <<Decode(k), Get(k)>>
  <2>1. \A i \in DOMAIN m : TypedIter[i] = d(m[i])
    BY <1>5
  <2> HIDE DEF d
  <2>2. ASSUME NEW i \in DOMAIN m PROVE TypedIter[i] \in {d(k) : k \in Matching}
    BY <1>2, <2>1
  <2>3. ASSUME NEW k \in Matching PROVE d(k) \in ToSet(TypedIter)
    <3>1. PICK i \in DOMAIN m : m[i] = k
      BY <1>2
    <3>2. TypedIter[i] = d(k)
      BY <2>1, <3>1
    <3> QED
      BY <1>5, <3>2 DEF ToSet
  <2>4. ToSet(TypedIter) = {d(k) : k \in Matching}
    BY <1>5, <2>2, <2>3 DEF ToSet
  <2> QED
    BY <2>4 DEF d
<1>7. \A x \in A : Decode(Encode(x)) = x /\ Get(Encode(x)) = TypedGet(x)
  BY DecodeEncode DEF TypedGet
<1> HIDE DEF A
<1>8. ToSet(TypedIter) = {<<x, TypedGet(x)>> : x \in A}
  BY <1>3, <1>6, <1>7
<1> QED
  BY <1>8 DEF A
=============================================================================
