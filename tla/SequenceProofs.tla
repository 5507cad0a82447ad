----------------------------- MODULE SequenceProofs -----------------------------
(* Lemmas about sequences and about At, the filter of module Filter, that   *)
(* the proofs about the models use.                                         *)
EXTENDS Filter, SequencesExt, FiniteSetTheorems, TLAPS

(* Sequences                                                                *)

LEMMA RangeOf ==
  ASSUME NEW S, NEW s \in Seq(S)
  PROVE  Range(s) \subseteq S /\ Range(s) = {s[i] : i \in 1 .. Len(s)}
BY DEF Range

LEMMA ConcatRange ==
  ASSUME NEW S, NEW s \in Seq(S), NEW t \in Seq(S)
  PROVE  s \o t \in Seq(S) /\ Range(s \o t) = Range(s) \cup Range(t)
<1>1. s \o t \in Seq(S) /\ Len(s \o t) = Len(s) + Len(t)
  OBVIOUS
<1>2. Range(s \o t) \subseteq Range(s) \cup Range(t)
  BY <1>1 DEF Range
<1>3. Range(s) \subseteq Range(s \o t)
  BY <1>1 DEF Range
<1>4. ASSUME NEW j \in 1 .. Len(t)
      PROVE  t[j] \in Range(s \o t)
  <2>1. Len(s) + j \in 1 .. Len(s \o t) /\ (s \o t)[Len(s) + j] = t[j]
    BY <1>1
  <2> QED  BY <1>1, <2>1 DEF Range
<1> QED  BY <1>1, <1>2, <1>3, <1>4 DEF Range

LEMMA AppendRange ==
  ASSUME NEW S, NEW s \in Seq(S), NEW e \in S
  PROVE  /\ Append(s, e) \in Seq(S) /\ Append(s, e) # <<>>
         /\ Range(Append(s, e)) = Range(s) \cup {e}
<1>1. Append(s, e) \in Seq(S) /\ Len(Append(s, e)) = Len(s) + 1
  OBVIOUS
<1>2. \A i \in 1 .. Len(s) : Append(s, e)[i] = s[i]
  OBVIOUS
<1>3. Append(s, e)[Len(s) + 1] = e
  OBVIOUS
<1>4. Range(Append(s, e)) \subseteq Range(s) \cup {e}
  BY <1>1, <1>2, <1>3 DEF Range
<1>5. Range(s) \subseteq Range(Append(s, e))
  BY <1>1, <1>2 DEF Range
<1>6. e \in Range(Append(s, e))
  BY <1>1, <1>3 DEF Range
<1> QED  BY <1>1, <1>4, <1>5, <1>6

LEMMA SubSeqRange ==
  ASSUME NEW S, NEW s \in Seq(S), NEW m \in 1 .. Len(s) + 1, NEW n \in 0 .. Len(s)
  PROVE  /\ SubSeq(s, m, n) \in Seq(S)
         /\ Len(SubSeq(s, m, n)) = IF m <= n THEN n - m + 1 ELSE 0
         /\ \A i \in 1 .. Len(SubSeq(s, m, n)) : SubSeq(s, m, n)[i] = s[m + i - 1]
         /\ Range(SubSeq(s, m, n)) = {s[i] : i \in m .. n}
<1>1. /\ SubSeq(s, m, n) \in Seq(S)
      /\ Len(SubSeq(s, m, n)) = IF m <= n THEN n - m + 1 ELSE 0
  OBVIOUS
<1>2. \A i \in 1 .. Len(SubSeq(s, m, n)) : SubSeq(s, m, n)[i] = s[m + i - 1]
  OBVIOUS
<1>3. Range(SubSeq(s, m, n)) \subseteq {s[i] : i \in m .. n}
  BY <1>1, <1>2 DEF Range
<1>4. ASSUME NEW i \in m .. n
      PROVE  s[i] \in Range(SubSeq(s, m, n))
  <2>1. i - m + 1 \in 1 .. Len(SubSeq(s, m, n)) /\ m + (i - m + 1) - 1 = i
    BY <1>1
  <2>2. SubSeq(s, m, n)[i - m + 1] = s[i]
    BY <1>2, <2>1
  <2> DEFINE t == SubSeq(s, m, n)
  <2>3. DOMAIN t = 1 .. Len(t)
    BY <1>1
  <2> HIDE DEF t
  <2>4. t[i - m + 1] \in Range(t)
    BY <2>1, <2>3 DEF Range, t
  <2> QED  BY <2>2, <2>4 DEF t
<1> QED  BY <1>1, <1>2, <1>3, <1>4

LEMMA FrontRange ==
  ASSUME NEW S, NEW s \in Seq(S), s # <<>>
  PROVE  Front(s) \in Seq(S) /\ Last(s) \in S /\ Range(s) = Range(Front(s)) \cup {Last(s)}
<1>1. Len(s) \in Nat /\ Len(s) > 0
  OBVIOUS
<1>2. /\ Front(s) \in Seq(S)
      /\ Range(Front(s)) = {s[i] : i \in 1 .. Len(s) - 1}
  BY <1>1, SubSeqRange DEF Front
<1> QED  BY <1>1, <1>2, RangeOf DEF Last

(* The first elements of a sequence and the others.                         *)
LEMMA SplitRange ==
  ASSUME NEW S, NEW s \in Seq(S), NEW n \in 0 .. Len(s)
  PROVE  /\ Range(s) = Range(SubSeq(s, 1, n)) \cup Range(SubSeq(s, n + 1, Len(s)))
         /\ IsInjective(s) =>
              /\ IsInjective(SubSeq(s, n + 1, Len(s)))
              /\ Range(SubSeq(s, 1, n)) \cap Range(SubSeq(s, n + 1, Len(s))) = {}
<1>1. /\ Range(SubSeq(s, 1, n)) = {s[i] : i \in 1 .. n}
      /\ Range(SubSeq(s, n + 1, Len(s))) = {s[i] : i \in n + 1 .. Len(s)}
  BY SubSeqRange
<1>2. Range(s) = Range(SubSeq(s, 1, n)) \cup Range(SubSeq(s, n + 1, Len(s)))
  BY <1>1, RangeOf
<1>3. ASSUME IsInjective(s)
      PROVE  IsInjective(SubSeq(s, n + 1, Len(s)))
  <2> DEFINE t == SubSeq(s, n + 1, Len(s))
  <2>1. t \in Seq(S) /\ \A i \in 1 .. Len(t) : t[i] = s[n + i] /\ n + i \in DOMAIN s
    BY SubSeqRange
  <2> HIDE DEF t
  <2>2. \A i, j \in 1 .. Len(t) : t[i] = t[j] => i = j
    BY <1>3, <2>1 DEF IsInjective
  <2>3. IsInjective(t)
    BY <2>1, <2>2 DEF IsInjective
  <2> QED  BY <2>3 DEF t
<1>4. ASSUME IsInjective(s)
      PROVE  Range(SubSeq(s, 1, n)) \cap Range(SubSeq(s, n + 1, Len(s))) = {}
  <2>1. \A i \in 1 .. n, j \in n + 1 .. Len(s) : i \in DOMAIN s /\ j \in DOMAIN s /\ i # j
    OBVIOUS
  <2> QED  BY <1>1, <1>4, <2>1 DEF IsInjective
<1> QED  BY <1>2, <1>3, <1>4

LEMMA ConcatInjective ==
  ASSUME NEW S, NEW s \in Seq(S), NEW t \in Seq(S), IsInjective(s), IsInjective(t),
         Range(s) \cap Range(t) = {}
  PROVE  IsInjective(s \o t)
<1> DEFINE u == s \o t
<1>1. /\ u \in Seq(S) /\ Len(u) = Len(s) + Len(t)
      /\ \A i \in 1 .. Len(s) : u[i] = s[i]
      /\ \A i \in Len(s) + 1 .. Len(u) : u[i] = t[i - Len(s)] /\ i - Len(s) \in 1 .. Len(t)
  OBVIOUS
<1> HIDE DEF u
<1>2. \A i \in 1 .. Len(s), j \in 1 .. Len(t) : s[i] # t[j]
  BY DEF Range
<1>3. \A i, j \in 1 .. Len(s) : u[i] = u[j] => i = j
  BY <1>1 DEF IsInjective
<1>4. \A i, j \in Len(s) + 1 .. Len(u) : u[i] = u[j] => i = j
  BY <1>1 DEF IsInjective
<1>5. \A i, j \in 1 .. Len(u) : u[i] = u[j] => i = j
  <2>1. \A i \in 1 .. Len(s), j \in Len(s) + 1 .. Len(u) : u[i] # u[j]
    BY <1>1, <1>2
  <2>2. \A i \in 1 .. Len(u) : i \in 1 .. Len(s) \/ i \in Len(s) + 1 .. Len(u)
    BY <1>1
  <2> QED  BY <1>3, <1>4, <2>1, <2>2
<1>6. IsInjective(u)
  BY <1>1, <1>5 DEF IsInjective
<1> QED  BY <1>6 DEF u

(* A sequence has no more elements than places.                             *)
LEMMA RangeSize ==
  ASSUME NEW S, NEW s \in Seq(S)
  PROVE  IsFiniteSet(Range(s)) /\ Cardinality(Range(s)) \in 0 .. Len(s)
<1>1. s \in Surjection(1 .. Len(s), Range(s))
  BY DEF Surjection, Range
<1>2. IsFiniteSet(1 .. Len(s)) /\ Cardinality(1 .. Len(s)) = Len(s)
  <2>1. Len(s) \in Nat
    OBVIOUS
  <2> QED  BY <2>1, FS_Interval
<1>3. IsFiniteSet(Range(s)) /\ Cardinality(Range(s)) <= Len(s)
  BY <1>1, <1>2, FS_Surjection
<1> QED  BY <1>3, FS_CardinalityType

--------------------------------------------------------------------------------
(* Filters                                                                  *)

(* The places before a later one are strictly more.                         *)
LEMMA RankIncreases ==
  ASSUME NEW I \in SUBSET Nat, IsFiniteSet(I), NEW i \in I, NEW j \in I, i < j
  PROVE  Rank(I, i) \in Nat /\ Rank(I, i) < Rank(I, j)
<1> DEFINE Low(x) == {y \in I : y <= x}
<1>0. \A x \in I : x \in Nat
  OBVIOUS
<1>1. Low(i) \in SUBSET Low(j) /\ Low(j) \in SUBSET I /\ j \in Low(j) \ Low(i)
  <2>1. i \in Nat /\ j \in Nat /\ ~(j <= i) /\ j <= j
    BY <1>0
  <2>2. \A x \in I : x <= i => x <= j
    BY <1>0, <2>1
  <2> QED  BY <2>1, <2>2
<1>2. IsFiniteSet(Low(j))
  BY <1>1, FS_Subset
<1>3. IsFiniteSet(Low(i)) /\ Cardinality(Low(i)) <= Cardinality(Low(j))
      /\ Cardinality(Low(j)) # Cardinality(Low(i))
  <2> HIDE DEF Low
  <2> QED  BY <1>1, <1>2, FS_Subset
<1>4. Cardinality(Low(i)) \in Nat /\ Cardinality(Low(j)) \in Nat
  BY <1>2, <1>3, FS_CardinalityType
<1> QED  BY <1>3, <1>4 DEF Rank

LEMMA RankRange ==
  ASSUME NEW I \in SUBSET Nat, IsFiniteSet(I), NEW i \in I
  PROVE  Rank(I, i) \in 1 .. Cardinality(I)
<1> DEFINE low == {y \in I : y <= i}
<1>1. low \in SUBSET I /\ i \in low
  <2>1. i \in Nat
    OBVIOUS
  <2> QED  BY <2>1
<1>2. IsFiniteSet(low) /\ Cardinality(low) <= Cardinality(I)
  <2> HIDE DEF low
  <2> QED  BY <1>1, FS_Subset
<1>3. Cardinality(low) \in Nat /\ Cardinality(I) \in Nat /\ Cardinality(low) # 0
  <2> HIDE DEF low
  <2> QED  BY <1>1, <1>2, FS_CardinalityType, FS_EmptySet
<1> QED  BY <1>2, <1>3 DEF Rank

(* Each number up to the number of places is the rank of one of them.       *)
LEMMA RankIsOnto ==
  ASSUME NEW I \in SUBSET Nat, IsFiniteSet(I), NEW k \in 1 .. Cardinality(I)
  PROVE  \E i \in I : Rank(I, i) = k
<1> DEFINE n == Cardinality(I)
           f == [i \in I |-> Rank(I, i)]
<1>1. n \in Nat
  BY FS_CardinalityType
<1>2. IsFiniteSet(1 .. n) /\ Cardinality(1 .. n) = n
  BY <1>1, FS_Interval
<1>3. f \in [I -> 1 .. n]
  BY RankRange
<1>4. \A i, j \in I : f[i] = f[j] => i = j
  <2> SUFFICES ASSUME NEW i \in I, NEW j \in I, i # j
               PROVE  Rank(I, i) # Rank(I, j)
    OBVIOUS
  <2>1. i \in Nat /\ j \in Nat /\ Rank(I, i) \in Nat /\ Rank(I, j) \in Nat
    BY RankRange, <1>1
  <2>2. CASE i < j  BY <2>1, <2>2, RankIncreases
  <2>3. CASE j < i  BY <2>1, <2>3, RankIncreases
  <2> QED  BY <2>2, <2>3
<1>5. f \in Injection(I, 1 .. n)
  <2> HIDE DEF f, n
  <2> QED  BY <1>3, <1>4 DEF Injection, IsInjective
<1>6. f \in Surjection(I, 1 .. n)
  <2> HIDE DEF f
  <2> QED  BY <1>2, <1>5, FS_Injection
<1>7. \E i \in I : f[i] = k
  <2> HIDE DEF f
  <2> QED  BY <1>6 DEF Surjection
<1> QED  BY <1>7

LEMMA PlaceIsThere ==
  ASSUME NEW I \in SUBSET Nat, IsFiniteSet(I), NEW k \in 1 .. Cardinality(I)
  PROVE  Place(I, k) \in I /\ Rank(I, Place(I, k)) = k
BY RankIsOnto DEF Place

LEMMA PlaceOfRank ==
  ASSUME NEW I \in SUBSET Nat, IsFiniteSet(I), NEW i \in I
  PROVE  Place(I, Rank(I, i)) = i
<1> DEFINE p == Place(I, Rank(I, i))
<1>1. p \in I /\ Rank(I, p) = Rank(I, i)
  BY RankRange, PlaceIsThere
<1>2. p \in Nat /\ i \in Nat
  BY <1>1
<1> HIDE DEF p
<1>3. ~(p < i)
  <2> SUFFICES ASSUME p < i PROVE FALSE
    OBVIOUS
  <2>1. Rank(I, p) \in Nat /\ Rank(I, p) < Rank(I, i)
    BY <1>1, RankIncreases
  <2> QED  BY <1>1, <2>1
<1>4. ~(i < p)
  <2> SUFFICES ASSUME i < p PROVE FALSE
    OBVIOUS
  <2>1. Rank(I, i) \in Nat /\ Rank(I, i) < Rank(I, p)
    BY <1>1, RankIncreases
  <2> QED  BY <1>1, <2>1
<1> QED  BY <1>2, <1>3, <1>4 DEF p

(* The places are taken in their order.                                     *)
LEMMA PlacesIncrease ==
  ASSUME NEW I \in SUBSET Nat, IsFiniteSet(I),
         NEW k \in 1 .. Cardinality(I), NEW l \in 1 .. Cardinality(I), k < l
  PROVE  Place(I, k) < Place(I, l)
<1>1. /\ Place(I, k) \in I /\ Rank(I, Place(I, k)) = k
      /\ Place(I, l) \in I /\ Rank(I, Place(I, l)) = l
  BY PlaceIsThere
<1>2. Place(I, k) \in Nat /\ Place(I, l) \in Nat
  BY <1>1
<1>3. ~(Place(I, l) < Place(I, k))
  <2> SUFFICES ASSUME Place(I, l) < Place(I, k) PROVE FALSE
    OBVIOUS
  <2>1. Rank(I, Place(I, l)) < Rank(I, Place(I, k))
    BY <1>1, RankIncreases
  <2> QED  BY <1>1, <2>1
<1>4. Place(I, k) # Place(I, l)
  BY <1>1
<1> QED  BY <1>2, <1>3, <1>4

(* Leaving places out moves an element towards the front, never back.       *)
LEMMA PlaceNotBefore ==
  ASSUME NEW I \in SUBSET (Nat \ {0}), IsFiniteSet(I), NEW k \in 1 .. Cardinality(I)
  PROVE  Place(I, k) \in I /\ k <= Place(I, k)
<1> DEFINE p == Place(I, k)
           low == {j \in I : j <= p}
<1>1. p \in I /\ Cardinality(low) = k
  BY PlaceIsThere DEF Rank
<1>2. p \in Nat
  BY <1>1
<1> HIDE DEF p
<1>3. low \in SUBSET (1 .. p)
  <2> SUFFICES ASSUME NEW j \in I, j <= p PROVE j \in 1 .. p
    OBVIOUS
  <2>1. j \in Nat /\ j # 0
    OBVIOUS
  <2> QED  BY <1>2, <2>1
<1>4. IsFiniteSet(1 .. p) /\ Cardinality(1 .. p) = p
  BY <1>2, FS_Interval
<1> HIDE DEF low
<1>5. Cardinality(low) <= Cardinality(1 .. p)
  BY <1>3, <1>4, FS_Subset
<1> QED  BY <1>1, <1>4, <1>5 DEF p

(* An element before which none is left out stays where it is.              *)
LEMMA PlaceUnmoved ==
  ASSUME NEW I \in SUBSET (Nat \ {0}), IsFiniteSet(I), NEW i \in I, 1 .. i \subseteq I
  PROVE  i \in 1 .. Cardinality(I) /\ Place(I, i) = i
<1>1. i \in Nat /\ \A j \in I : j \in Nat /\ j # 0
  OBVIOUS
<1>2. {j \in I : j <= i} = 1 .. i
  <2>1. ASSUME NEW j \in I, j <= i PROVE j \in 1 .. i
    <3>1. j \in Nat /\ j # 0
      BY <1>1
    <3> QED  BY <1>1, <2>1, <3>1
  <2>2. ASSUME NEW j \in 1 .. i PROVE j \in I /\ j <= i
    BY <1>1
  <2> QED  BY <2>1, <2>2
<1>3. Rank(I, i) = i
  <2>1. Cardinality(1 .. i) = i
    BY <1>1, FS_Interval
  <2> QED  BY <1>2, <2>1 DEF Rank
<1>4. I \in SUBSET Nat
  OBVIOUS
<1>5. Rank(I, i) \in 1 .. Cardinality(I) /\ Place(I, Rank(I, i)) = i
  BY <1>4, RankRange, PlaceOfRank
<1> QED  BY <1>3, <1>5

--------------------------------------------------------------------------------
(* What a filter returns.                                                   *)

LEMMA AtFacts ==
  ASSUME NEW S, NEW s \in Seq(S), NEW I \in SUBSET DOMAIN s
  PROVE  /\ I \in SUBSET Nat /\ IsFiniteSet(I) /\ Cardinality(I) \in Nat
         /\ At(s, I) \in Seq(S) /\ Len(At(s, I)) = Cardinality(I)
         /\ DOMAIN At(s, I) = 1 .. Cardinality(I)
         /\ \A k \in 1 .. Cardinality(I) : At(s, I)[k] = s[Place(I, k)]
<1>1. I \in SUBSET Nat /\ IsFiniteSet(1 .. Len(s)) /\ I \in SUBSET (1 .. Len(s))
  BY FS_Interval
<1>2. IsFiniteSet(I)
  BY <1>1, FS_Subset
<1>3. Cardinality(I) \in Nat
  BY <1>2, FS_CardinalityType
<1>4. \A k \in 1 .. Cardinality(I) : Place(I, k) \in I
  BY <1>1, <1>2, PlaceIsThere
<1>5. At(s, I) \in [1 .. Cardinality(I) -> S]
  BY <1>1, <1>4 DEF At
<1>6. At(s, I) \in Seq(S) /\ Len(At(s, I)) = Cardinality(I)
  BY <1>3, <1>5
<1> QED  BY <1>1, <1>2, <1>3, <1>5, <1>6 DEF At

(* Its elements are those at the places kept.                               *)
LEMMA AtRange ==
  ASSUME NEW S, NEW s \in Seq(S), NEW I \in SUBSET DOMAIN s
  PROVE  Range(At(s, I)) = {s[i] : i \in I}
<1>1. ASSUME NEW k \in 1 .. Cardinality(I)
      PROVE  At(s, I)[k] \in {s[i] : i \in I}
  BY AtFacts, PlaceIsThere
<1>2. ASSUME NEW i \in I
      PROVE  \E k \in 1 .. Cardinality(I) : At(s, I)[k] = s[i]
  <2>1. Rank(I, i) \in 1 .. Cardinality(I) /\ Place(I, Rank(I, i)) = i
    BY AtFacts, RankRange, PlaceOfRank
  <2> QED  BY <2>1, AtFacts
<1> QED  BY <1>1, <1>2, AtFacts DEF Range

(* It repeats nothing that the sequence does not repeat.                    *)
LEMMA AtInjective ==
  ASSUME NEW S, NEW s \in Seq(S), NEW I \in SUBSET DOMAIN s,
         \A i, j \in I : s[i] = s[j] => i = j
  PROVE  IsInjective(At(s, I))
<1> SUFFICES ASSUME NEW k \in 1 .. Cardinality(I), NEW l \in 1 .. Cardinality(I),
                    At(s, I)[k] = At(s, I)[l]
             PROVE  k = l
  BY AtFacts DEF IsInjective
<1>1. /\ Place(I, k) \in I /\ Rank(I, Place(I, k)) = k
      /\ Place(I, l) \in I /\ Rank(I, Place(I, l)) = l
  BY AtFacts, PlaceIsThere
<1>2. Place(I, k) = Place(I, l)
  BY <1>1, AtFacts
<1> QED  BY <1>1, <1>2

(* Two filters that keep the same elements in the same order return the     *)
(* same sequence, whatever they leave out.                                  *)
LEMMA AtUnique ==
  ASSUME NEW S, NEW s \in Seq(S), NEW t \in Seq(S),
         NEW I \in SUBSET DOMAIN s, NEW J \in SUBSET DOMAIN t,
         \A i \in I : \E j \in J : t[j] = s[i],
         \A j \in J : \E i \in I : s[i] = t[j],
         \A i, j \in I : s[i] = s[j] => i = j,
         \A i, j \in J : t[i] = t[j] => i = j,
         \A i, k \in I, j, l \in J : s[i] = t[j] /\ s[k] = t[l] /\ i < k => j < l
  PROVE  At(s, I) = At(t, J)
<1> DEFINE f == [i \in I |-> CHOOSE j \in J : t[j] = s[i]]
<1>1. /\ I \in SUBSET Nat /\ IsFiniteSet(I) /\ Cardinality(I) \in Nat
      /\ J \in SUBSET Nat /\ IsFiniteSet(J) /\ Cardinality(J) \in Nat
  BY AtFacts
<1>2. \A i \in I : f[i] \in J /\ t[f[i]] = s[i]
  OBVIOUS
<1>3. \A j \in J : \E i \in I : f[i] = j
  <2> SUFFICES ASSUME NEW j \in J
               PROVE  \E i \in I : f[i] = j
    OBVIOUS
  <2>1. PICK i \in I : s[i] = t[j]
    OBVIOUS
  <2> HIDE DEF f
  <2>2. f[i] = j
    BY <1>2, <2>1
  <2> QED  BY <2>2
<1>4. f \in [I -> J]
  BY <1>2
<1> HIDE DEF f
<1>5. \A i, k \in I : f[i] = f[k] => i = k
  BY <1>2
<1>6. \A i, k \in I : i <= k <=> f[i] <= f[k]
  <2> SUFFICES ASSUME NEW i \in I, NEW k \in I
               PROVE  i <= k <=> f[i] <= f[k]
    OBVIOUS
  <2>1. i \in Nat /\ k \in Nat /\ f[i] \in Nat /\ f[k] \in Nat
    BY <1>1, <1>2
  <2>2. i < k => f[i] < f[k]
    BY <1>2
  <2>3. k < i => f[k] < f[i]
    BY <1>2
  <2> QED  BY <2>1, <2>2, <2>3
<1>7. ASSUME NEW i \in I
      PROVE  Rank(J, f[i]) = Rank(I, i)
  <2> DEFINE low == {k \in I : k <= i}
             high == {l \in J : l <= f[i]}
             g == [k \in low |-> f[k]]
  <2>1. IsFiniteSet(low)
    <3>1. low \in SUBSET I
      OBVIOUS
    <3> QED  BY <1>1, <3>1, FS_Subset
  <2>2. g \in [low -> high]
    BY <1>2, <1>6
  <2>3. \A k, l \in low : g[k] = g[l] => k = l
    BY <1>5
  <2>4. \A l \in high : \E k \in low : g[k] = l
    <3> SUFFICES ASSUME NEW l \in high
                 PROVE  \E k \in low : g[k] = l
      OBVIOUS
    <3>1. PICK k \in I : f[k] = l
      BY <1>3
    <3>2. k \in low
      BY <1>6, <3>1
    <3> QED  BY <3>1, <3>2
  <2> HIDE DEF low, high, g
  <2>5. g \in Bijection(low, high)
    BY <2>2, <2>3, <2>4 DEF Bijection, Injection, Surjection, IsInjective
  <2>6. ExistsBijection(low, high)
    BY <2>5 DEF ExistsBijection
  <2>7. Cardinality(high) = Cardinality(low)
    BY <2>1, <2>6, FS_Bijection
  <2> QED  BY <2>7 DEF Rank, low, high
<1>8. Cardinality(J) = Cardinality(I)
  <2>1. f \in Bijection(I, J)
    BY <1>3, <1>4, <1>5 DEF Bijection, Injection, Surjection, IsInjective
  <2>2. ExistsBijection(I, J)
    BY <2>1 DEF ExistsBijection
  <2> QED  BY <1>1, <2>2, FS_Bijection
<1>9. ASSUME NEW k \in 1 .. Cardinality(I)
      PROVE  At(s, I)[k] = At(t, J)[k]
  <2>1. Place(I, k) \in I /\ Rank(I, Place(I, k)) = k
    BY <1>1, PlaceIsThere
  <2>2. f[Place(I, k)] \in J /\ Rank(J, f[Place(I, k)]) = k
    BY <1>2, <1>7, <2>1
  <2>3. Place(J, k) = f[Place(I, k)]
    BY <1>1, <2>2, PlaceOfRank
  <2>4. At(s, I)[k] = s[Place(I, k)] /\ At(t, J)[k] = t[Place(J, k)]
    BY <1>8, AtFacts
  <2> QED  BY <1>2, <2>1, <2>3, <2>4
<1>10. /\ At(s, I) = [k \in 1 .. Cardinality(I) |-> At(s, I)[k]]
       /\ At(t, J) = [k \in 1 .. Cardinality(J) |-> At(t, J)[k]]
  BY DEF At
<1> QED  BY <1>8, <1>9, <1>10

================================================================================
