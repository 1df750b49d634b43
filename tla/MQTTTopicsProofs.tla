-------------------------- MODULE MQTTTopicsProofs --------------------------
(***************************************************************************)
(* What isTopicMatched answers for a well-formed filter, whatever the      *)
(* filter and the name: it walks both level by level, and in step.         *)
(***************************************************************************)
EXTENDS MQTTTopics, FiniteSetTheorems, SequenceTheorems, WellFoundedInduction, TLAPS

Strings == Seq(STRING)
Wildcards == {SingleLevel, MultiLevel}

LEMMA Characters ==
    /\ Separator \notin Wildcards /\ SingleLevel # MultiLevel
    /\ SingleLevel \in Wildcards /\ MultiLevel \in Wildcards
    /\ \A c : c \in Wildcards <=> c = SingleLevel \/ c = MultiLevel
  BY DEF Separator, SingleLevel, MultiLevel, Wildcards

-----------------------------------------------------------------------------
(* Induction over the numbers, as the choice of a least one                 *)

Less == {p \in Nat \X Nat : p[1] < p[2]}

LEMMA LeastOf ==
    ASSUME NEW S \in SUBSET Nat, S # {}
    PROVE  \E x \in S : \A y \in S : x <= y
  <1>1. IsWellFoundedOn(Less, Nat)
    <2>1. IsWellFoundedOn(OpToRel(<, Nat), Nat)
      BY NatLessThanWellFounded
    <2>2. OpToRel(<, Nat) = Less
      BY DEF OpToRel, Less
    <2>3. QED
      BY <2>1, <2>2
  <1>2. PICK x \in S : \A y \in S : ~(<<y, x>> \in Less)
    BY <1>1, WFMin
  <1>3. ASSUME NEW y \in S PROVE x <= y
    <2>1. x \in Nat /\ y \in Nat
      OBVIOUS
    <2>2. CASE y < x
      <3>1. <<y, x>> \in Less
        BY <2>1, <2>2 DEF Less
      <3>2. QED
        BY <3>1, <1>2
    <2>3. QED
      BY <2>1, <2>2
  <1>4. QED
    BY <1>3

-----------------------------------------------------------------------------
(* Levels.  The rank of a bound is the number of the level that ends there. *)

Rank(s, b) == Cardinality({c \in Bounds(s) : c < b})

\* the level of s behind the bound b goes on at least to the place i - 1
InLevel(s, b, i) ==
    /\ b \in Bounds(s) /\ i \in 1..Len(s)+1 /\ b < i
    /\ \A c \in Bounds(s) : ~(b < c /\ c < i)

LEMMA BoundsProperties ==
    ASSUME NEW s \in Strings
    PROVE  /\ Len(s) \in Nat /\ IsFiniteSet(Bounds(s))
           /\ Bounds(s) \subseteq 0..Len(s)+1
           /\ 0 \in Bounds(s) /\ Len(s) + 1 \in Bounds(s)
           /\ \A i \in 1..Len(s) : i \in Bounds(s) <=> s[i] = Separator
  <1>1. Len(s) \in Nat
    BY DEF Strings
  <1>2. Bounds(s) \subseteq 0..Len(s)+1
    BY <1>1 DEF Bounds, Separators
  <1>3. IsFiniteSet(Bounds(s))
    <2>1. IsFiniteSet(0..Len(s)+1)
      BY <1>1, FS_Interval
    <2>2. QED
      BY <2>1, <1>2, FS_Subset
  <1>4. QED
    BY <1>1, <1>2, <1>3 DEF Bounds, Separators

LEMMA RankProperties ==
    ASSUME NEW s \in Strings, NEW b \in Bounds(s)
    PROVE  /\ Rank(s, b) \in Nat
           /\ IsFiniteSet({c \in Bounds(s) : c < b})
           /\ b = 0 => Rank(s, b) = 0
  <1>1. IsFiniteSet({c \in Bounds(s) : c < b})
    BY BoundsProperties, FS_Subset
  <1>2. Rank(s, b) \in Nat
    BY <1>1, FS_CardinalityType DEF Rank
  <1>3. ASSUME b = 0 PROVE Rank(s, b) = 0
    <2>1. {c \in Bounds(s) : c < b} = {}
      BY <1>3, BoundsProperties
    <2>2. QED
      BY <2>1, FS_EmptySet DEF Rank
  <1>4. QED
    BY <1>1, <1>2, <1>3

LEMMA RankOrder ==
    ASSUME NEW s \in Strings, NEW b \in Bounds(s), NEW e \in Bounds(s), b < e
    PROVE  Rank(s, b) < Rank(s, e)
  <1> DEFINE B == {c \in Bounds(s) : c < b}
             E == {c \in Bounds(s) : c < e}
  <1>1. b \in Nat /\ e \in Nat /\ \A c \in Bounds(s) : c \in Nat
    BY BoundsProperties
  <1>2. B \cup {b} \subseteq E /\ b \notin B
    <2>1. ASSUME NEW c \in B PROVE c \in E
      BY <1>1
    <2>2. b \in E /\ b \notin B
      BY <1>1
    <2>3. QED
      BY <2>1, <2>2
  <1>3. IsFiniteSet(B) /\ IsFiniteSet(E)
    BY RankProperties
  <1> HIDE DEF B, E
  <1>4. Cardinality(B \cup {b}) = Cardinality(B) + 1
    BY <1>2, <1>3, FS_AddElement
  <1>5. Cardinality(B \cup {b}) <= Cardinality(E)
    BY <1>2, <1>3, FS_Subset
  <1>6. Cardinality(B) \in Nat /\ Cardinality(E) \in Nat
    BY <1>3, FS_CardinalityType
  <1>7. QED
    BY <1>4, <1>5, <1>6 DEF Rank, B, E

LEMMA RankNext ==
    ASSUME NEW s \in Strings, NEW b, NEW e \in Bounds(s), InLevel(s, b, e)
    PROVE  Rank(s, e) = Rank(s, b) + 1
  <1> DEFINE B == {c \in Bounds(s) : c < b}
             E == {c \in Bounds(s) : c < e}
  <1>1. b \in Bounds(s) /\ b \in Nat /\ e \in Nat /\ \A c \in Bounds(s) : c \in Nat
    BY BoundsProperties DEF InLevel
  <1>2. B \cup {b} = E /\ b \notin B
    <2>1. b < e /\ \A c \in Bounds(s) : ~(b < c /\ c < e)
      BY DEF InLevel
    <2>2. ASSUME NEW c \in B PROVE c \in E
      BY <2>1, <1>1
    <2>3. ASSUME NEW c \in E PROVE c \in B \/ c = b
      BY <2>1, <1>1
    <2>4. b \in E /\ b \notin B
      BY <2>1, <1>1
    <2>5. QED
      BY <2>2, <2>3, <2>4
  <1>3. IsFiniteSet(B)
    BY <1>1, RankProperties
  <1> HIDE DEF B, E
  <1>4. Cardinality(B \cup {b}) = Cardinality(B) + 1
    BY <1>2, <1>3, FS_AddElement
  <1>5. QED
    BY <1>2, <1>4 DEF Rank, B, E

\* a bound is known by its rank
LEMMA RankIsUnique ==
    ASSUME NEW s \in Strings, NEW b \in Bounds(s), NEW e \in Bounds(s),
           Rank(s, b) = Rank(s, e)
    PROVE  b = e
  <1>1. b \in Nat /\ e \in Nat
    BY BoundsProperties
  <1>2. Rank(s, b) \in Nat /\ Rank(s, e) \in Nat
    BY RankProperties
  <1>3. ~(b < e) /\ ~(e < b)
    BY <1>2, RankOrder
  <1>4. QED
    BY <1>1, <1>3

LEMMA LastRank ==
    ASSUME NEW s \in Strings, NEW b \in Bounds(s)
    PROVE  /\ LevelCount(s) \in Nat
           /\ Rank(s, b) <= LevelCount(s)
           /\ Rank(s, b) = LevelCount(s) <=> b = Len(s) + 1
  <1> DEFINE e == Len(s) + 1
             E == {c \in Bounds(s) : c < e}
  <1>1. e \in Bounds(s) /\ \A c \in Bounds(s) : c \in Nat /\ c <= e
    BY BoundsProperties
  <1>2. Bounds(s) = E \cup {e} /\ e \notin E
    BY <1>1
  <1>3. IsFiniteSet(E) /\ Rank(s, e) \in Nat /\ Rank(s, b) \in Nat
    BY <1>1, RankProperties
  <1>4. Cardinality(Bounds(s)) = Rank(s, e) + 1
    <2> HIDE DEF E
    <2>1. Cardinality(Bounds(s)) = Cardinality(E) + 1
      BY <1>2, <1>3, FS_AddElement
    <2>2. QED
      BY <2>1 DEF Rank, E
  <1>5. LevelCount(s) = Rank(s, e)
    BY <1>3, <1>4 DEF LevelCount
  <1>6. CASE b = e
    BY <1>3, <1>5, <1>6
  <1>7. CASE b < e
    <2>1. Rank(s, b) < Rank(s, e)
      BY <1>1, <1>7, RankOrder
    <2>2. QED
      BY <2>1, <1>1, <1>3, <1>5, <1>7
  <1>8. QED
    BY <1>1, <1>6, <1>7

\* between two neighbouring bounds there is a level
LEMMA LevelBetween ==
    ASSUME NEW s \in Strings, NEW b, NEW e \in Bounds(s), InLevel(s, b, e)
    PROVE  Level(s, Rank(s, e)) = SubSeq(s, b+1, e-1)
  <1>1. b \in Bounds(s) /\ Rank(s, b) \in Nat /\ Rank(s, e) = Rank(s, b) + 1
    BY RankNext, RankProperties DEF InLevel
  <1>2. Rank(s, e) - 1 = Rank(s, b)
    BY <1>1
  <1>3. (CHOOSE c \in Bounds(s) : Rank(s, c) = Rank(s, b)) = b
    BY <1>1, RankIsUnique
  <1>4. (CHOOSE c \in Bounds(s) : Rank(s, c) = Rank(s, e)) = e
    BY <1>1, RankIsUnique
  <1>5. QED
    BY <1>2, <1>3, <1>4 DEF Level, Rank

LEMMA NextBound ==
    ASSUME NEW s \in Strings, NEW b, NEW i, InLevel(s, b, i)
    PROVE  \E e \in Bounds(s) : i <= e /\ InLevel(s, b, e)
  <1> DEFINE E == {c \in Bounds(s) : i <= c}
  <1>1. /\ b \in Bounds(s) /\ i \in 1..Len(s)+1 /\ b < i
        /\ \A c \in Bounds(s) : ~(b < c /\ c < i)
    BY DEF InLevel
  <1>2. /\ Len(s) \in Nat /\ Len(s) + 1 \in Bounds(s) /\ b \in Nat
        /\ \A c \in Bounds(s) : c \in Nat /\ c <= Len(s) + 1
    BY <1>1, BoundsProperties
  <1>3. E \in SUBSET Nat /\ E # {}
    <2>1. Len(s) + 1 \in E
      BY <1>1, <1>2
    <2>2. ASSUME NEW c \in E PROVE c \in Nat
      BY <1>2
    <2>3. QED
      BY <2>1, <2>2
  <1>4. PICK e \in E : \A y \in E : e <= y
    <2> HIDE DEF E
    <2>1. QED
      BY <1>3, LeastOf
  <1>5. e \in Bounds(s) /\ i <= e /\ e \in 1..Len(s)+1 /\ b < e
    BY <1>1, <1>2
  <1>6. ASSUME NEW c \in Bounds(s), b < c, c < e PROVE FALSE
    <2>1. c \in Nat /\ ~(c < i)
      BY <1>1, <1>2, <1>6
    <2>2. c \in E
      BY <2>1, <1>1
    <2>3. QED
      BY <2>1, <2>2, <1>2, <1>4, <1>6
  <1>7. QED
    BY <1>1, <1>5, <1>6 DEF InLevel

LEMMA LevelGrows ==
    ASSUME NEW s \in Strings, NEW b, NEW i, InLevel(s, b, i),
           i <= Len(s), s[i] # Separator
    PROVE  InLevel(s, b, i+1)
  <1>1. /\ b \in Bounds(s) /\ i \in 1..Len(s)+1 /\ b < i
        /\ \A c \in Bounds(s) : ~(b < c /\ c < i)
    BY DEF InLevel
  <1>2. Len(s) \in Nat /\ b \in Nat /\ \A c \in Bounds(s) : c \in Nat
    BY <1>1, BoundsProperties
  <1>3. i \in 1..Len(s) /\ i \notin Bounds(s)
    BY <1>1, <1>2, BoundsProperties
  <1>4. ASSUME NEW c \in Bounds(s), b < c, c < i + 1 PROVE FALSE
    <2>1. c # i
      BY <1>3
    <2>2. c < i
      BY <2>1, <1>2, <1>3, <1>4
    <2>3. QED
      BY <2>2, <1>1, <1>4
  <1>5. i + 1 \in 1..Len(s)+1 /\ b < i + 1
    BY <1>1, <1>2, <1>3
  <1>6. QED
    BY <1>1, <1>4, <1>5 DEF InLevel

LEMMA LevelBegins ==
    ASSUME NEW s \in Strings, NEW i \in 0..Len(s), i \in Bounds(s)
    PROVE  InLevel(s, i, i+1)
  <1>1. Len(s) \in Nat /\ \A c \in Bounds(s) : c \in Nat
    BY BoundsProperties
  <1>2. \A c \in Bounds(s) : ~(i < c /\ c < i + 1)
    BY <1>1
  <1>3. i + 1 \in 1..Len(s)+1 /\ i < i + 1
    BY <1>1
  <1>4. QED
    BY <1>2, <1>3 DEF InLevel

\* a '+' comes to the end of the level of the name
LEMMA LevelEndProperties ==
    ASSUME NEW n \in Strings, NEW j \in 1..Len(n)
    PROVE  /\ LevelEnd(n, j) \in j..Len(n)
           /\ \A i \in j+1..LevelEnd(n, j) : n[i] # Separator
           /\ LevelEnd(n, j) = Len(n) \/ n[LevelEnd(n, j) + 1] = Separator
  <1> DEFINE E == {k \in j..Len(n) : k = Len(n) \/ n[k+1] = Separator}
             P(k) == /\ \A i \in j+1..k : n[i] # Separator
                     /\ k = Len(n) \/ n[k+1] = Separator
  <1>1. Len(n) \in Nat /\ j \in Nat
    BY BoundsProperties
  <1>2. E \in SUBSET Nat /\ E # {}
    <2>1. Len(n) \in E
      BY <1>1
    <2>2. QED
      BY <2>1, <1>1
  <1>3. PICK e \in E : \A y \in E : e <= y
    <2> HIDE DEF E
    <2>1. QED
      BY <1>2, LeastOf
  <1>4. e \in j..Len(n) /\ (e = Len(n) \/ n[e+1] = Separator)
    OBVIOUS
  <1>5. ASSUME NEW i \in j+1..e, n[i] = Separator PROVE FALSE
    <2>1. i - 1 \in j..Len(n) /\ (i - 1) + 1 = i
      BY <1>1, <1>4
    <2>2. i - 1 \in E
      BY <2>1, <1>5
    <2>3. e <= i - 1
      BY <2>2, <1>3
    <2>4. QED
      BY <2>3, <1>1, <1>4
  <1>6. P(e)
    BY <1>4, <1>5
  <1>7. LevelEnd(n, j) = CHOOSE k \in j..Len(n) : P(k)
    BY DEF LevelEnd
  <1> HIDE DEF P
  <1>8. LevelEnd(n, j) \in j..Len(n) /\ P(LevelEnd(n, j))
    BY <1>4, <1>6, <1>7
  <1>9. QED
    BY <1>8 DEF P

\* a '+' skips no bound
LEMMA LevelSkipped ==
    ASSUME NEW n \in Strings, NEW d, NEW j, InLevel(n, d, j),
           j <= Len(n), n[j] # Separator
    PROVE  /\ InLevel(n, d, LevelEnd(n, j) + 1)
           /\ \/ LevelEnd(n, j) + 1 = Len(n) + 1
              \/ n[LevelEnd(n, j) + 1] = Separator
  <1>1. /\ d \in Bounds(n) /\ j \in 1..Len(n)+1 /\ d < j
        /\ \A c \in Bounds(n) : ~(d < c /\ c < j)
    BY DEF InLevel
  <1>2. Len(n) \in Nat /\ d \in Nat /\ \A c \in Bounds(n) : c \in Nat
    BY <1>1, BoundsProperties
  <1>3. PICK e \in Nat : e = LevelEnd(n, j) /\ e \in j..Len(n) /\ j \in 1..Len(n)
    BY <1>1, <1>2, LevelEndProperties
  <1>4. /\ \A i \in j+1..e : n[i] # Separator
        /\ e = Len(n) \/ n[e+1] = Separator
    BY <1>3, LevelEndProperties
  <1>5. ASSUME NEW c \in Bounds(n), d < c, c < e + 1 PROVE FALSE
    <2>1. c \in j..e /\ c \in 1..Len(n)
      BY <1>1, <1>2, <1>3, <1>5
    <2>2. n[c] = Separator
      BY <2>1, BoundsProperties
    <2>3. c # j
      BY <2>2
    <2>4. c \in j+1..e
      BY <2>1, <2>3, <1>2, <1>3
    <2>5. QED
      BY <2>2, <2>4, <1>4
  <1>6. e + 1 \in 1..Len(n)+1 /\ d < e + 1
    BY <1>1, <1>2, <1>3
  <1>7. InLevel(n, d, e + 1)
    BY <1>1, <1>5, <1>6 DEF InLevel
  <1>8. QED
    BY <1>3, <1>4, <1>7

\* a wildcard is a level
LEMMA WildcardAlone ==
    ASSUME NEW f \in Strings, WellFormed(f), NEW b, NEW i, InLevel(f, b, i),
           i <= Len(f), f[i] \in Wildcards
    PROVE  /\ i = b + 1 /\ i \in 1..Len(f)
           /\ i = Len(f) \/ f[i+1] = Separator
           /\ f[i] = MultiLevel => i = Len(f)
           /\ InLevel(f, b, i+1) /\ i + 1 \in Bounds(f)
           /\ Level(f, Rank(f, i+1)) = <<f[i]>>
  <1>1. /\ b \in Bounds(f) /\ i \in 1..Len(f)+1 /\ b < i
        /\ \A c \in Bounds(f) : ~(b < c /\ c < i)
    BY DEF InLevel
  <1>2. Len(f) \in Nat /\ b \in Nat /\ i \in 1..Len(f)
    BY <1>1, BoundsProperties
  <1>3. /\ i = 1 \/ f[i-1] = Separator
        /\ i = Len(f) \/ f[i+1] = Separator
        /\ f[i] = MultiLevel => i = Len(f)
    BY <1>2 DEF WellFormed, Wildcards
  <1>4. i - 1 \in Bounds(f)
    <2>1. CASE i = 1
      BY <2>1, BoundsProperties
    <2>2. CASE i # 1
      <3>1. i - 1 \in 1..Len(f)
        BY <2>2, <1>2
      <3>2. QED
        BY <2>2, <3>1, <1>3, BoundsProperties
    <2>3. QED
      BY <2>1, <2>2
  <1>5. i = b + 1
    <2>1. ~(b < i - 1 /\ i - 1 < i)
      BY <1>1, <1>4
    <2>2. QED
      BY <2>1, <1>1, <1>2
  <1>6. InLevel(f, b, i+1)
    BY <1>1, <1>2, Characters, LevelGrows
  <1>7. i + 1 \in Bounds(f)
    <2>1. CASE i = Len(f)
      BY <2>1, BoundsProperties
    <2>2. CASE i # Len(f)
      <3>1. i + 1 \in 1..Len(f)
        BY <2>2, <1>2
      <3>2. QED
        BY <2>2, <3>1, <1>3, BoundsProperties
    <2>3. QED
      BY <2>1, <2>2
  <1>8. Level(f, Rank(f, i+1)) = <<f[i]>>
    <2>1. Level(f, Rank(f, i+1)) = SubSeq(f, b+1, (i+1)-1)
      BY <1>6, <1>7, LevelBetween
    <2>2. b + 1 = i /\ (i + 1) - 1 = i
      BY <1>2, <1>5
    <2>3. SubSeq(f, i, i) = <<f[i]>>
      <3>1. f \in Seq(STRING) /\ f[i] \in STRING
        BY <1>2, ElementOfSeq DEF Strings
      <3>2. /\ SubSeq(f, i, i) \in Seq(STRING) /\ Len(SubSeq(f, i, i)) = 1
            /\ SubSeq(f, i, i)[1] = f[i]
        BY <3>1, <1>2
      <3>3. <<f[i]>> \in Seq(STRING) /\ Len(<<f[i]>>) = 1 /\ <<f[i]>>[1] = f[i]
        BY <3>1
      <3>4. PICK u, v \in Seq(STRING) : u = SubSeq(f, i, i) /\ v = <<f[i]>>
        BY <3>2, <3>3
      <3>5. Len(u) = Len(v) /\ \A k \in 1..Len(u) : u[k] = v[k]
        BY <3>2, <3>3, <3>4
      <3>6. u = v
        BY <3>5, SeqEqual
      <3>7. QED
        BY <3>4, <3>6
    <2>4. QED
      BY <2>1, <2>2, <2>3
  <1>9. QED
    BY <1>2, <1>3, <1>5, <1>6, <1>7, <1>8

-----------------------------------------------------------------------------
(* How far the walk has come *)

\* the levels that end before the bounds b and d match
SameLevels(f, n, b, d) ==
    /\ Rank(f, b) = Rank(n, d)
    /\ \A k \in 1..Rank(f, b) : LevelMatches(f, n, k)

\* of the levels behind b and d, the same characters have been passed
Literally(f, n, b, d, i, j) ==
    /\ InLevel(n, d, j) /\ j - d = i - b
    /\ \A x \in 1..i-b-1 : f[b+x] = n[d+x] /\ f[b+x] \notin Wildcards

\* a '+' has been passed, and a level of the name
BehindPlus(f, n, b, d, i, j) ==
    /\ InLevel(n, d, j) /\ (j = Len(n) + 1 \/ n[j] = Separator)
    /\ i = b + 2 /\ f[b+1] = SingleLevel

\* a '#' has been passed, and all of the name
BehindHash(f, n, b, d, i, j) ==
    /\ d <= Len(n) /\ j = Len(n) + 1
    /\ i = b + 2 /\ i = Len(f) + 1 /\ f[b+1] = MultiLevel

Reached(f, n, b, d, i, j) ==
    /\ InLevel(f, b, i) /\ d \in Bounds(n) /\ SameLevels(f, n, b, d)
    /\ \/ Literally(f, n, b, d, i, j)
       \/ BehindPlus(f, n, b, d, i, j)
       \/ BehindHash(f, n, b, d, i, j)

\* the loop comes to the places i and j, if it is right so far
AsFar(f, n, i, j) == \E b \in Bounds(f), d \in Bounds(n) : Reached(f, n, b, d, i, j)

LEMMA InLevelProperties ==
    ASSUME NEW s \in Strings, NEW b, NEW i, InLevel(s, b, i)
    PROVE  /\ Len(s) \in Nat /\ b \in Nat /\ i \in Nat
           /\ b \in Bounds(s) /\ b < i /\ i <= Len(s) + 1 /\ i >= 1
  <1>1. b \in Bounds(s) /\ i \in 1..Len(s)+1 /\ b < i
    BY DEF InLevel
  <1>2. QED
    BY <1>1, BoundsProperties

LEMMA SameText ==
    ASSUME NEW f \in Strings, NEW n \in Strings,
           NEW b \in Nat, NEW d \in Nat, NEW i \in Nat, NEW j \in Nat,
           InLevel(f, b, i), Literally(f, n, b, d, i, j)
    PROVE  SubSeq(f, b+1, i-1) = SubSeq(n, d+1, j-1)
  <1>1. InLevel(n, d, j)
    BY DEF Literally
  <1>2. /\ b \in Nat /\ i \in Nat /\ b < i /\ i <= Len(f) + 1 /\ Len(f) \in Nat
        /\ d \in Nat /\ j \in Nat /\ d < j /\ j <= Len(n) + 1 /\ Len(n) \in Nat
    BY <1>1, InLevelProperties
  <1>3. PICK m \in Nat : m = i - b - 1 /\ m = j - d - 1
    BY <1>2 DEF Literally
  <1>4. f \in Seq(STRING) /\ n \in Seq(STRING)
    BY DEF Strings
  <1>5. PICK u, v \in Seq(STRING) : u = SubSeq(f, b+1, i-1) /\ v = SubSeq(n, d+1, j-1)
    <2>1. /\ SubSeq(f, b+1, i-1) \in Seq(STRING)
          /\ SubSeq(n, d+1, j-1) \in Seq(STRING)
      BY <1>2, <1>4, SubSeqProperties
    <2>2. QED
      BY <2>1
  <1>6. Len(u) = m /\ Len(v) = m
    BY <1>2, <1>3, <1>4, <1>5, SubSeqProperties
  <1>7. ASSUME NEW x \in 1..m PROVE u[x] = v[x]
    <2>1. u[x] = f[b+x]
      BY <1>2, <1>3, <1>4, <1>5
    <2>2. v[x] = n[d+x]
      BY <1>2, <1>3, <1>4, <1>5
    <2>3. f[b+x] = n[d+x]
      BY <1>3 DEF Literally
    <2>4. QED
      BY <2>1, <2>2, <2>3
  <1>8. u = v
    BY <1>6, <1>7, SeqEqual
  <1>9. QED
    BY <1>5, <1>8

\* Behind a separator in both, or at both ends, one more level matches.
LEMMA LevelDone ==
    ASSUME NEW f \in Strings, NEW n \in Strings, WellFormed(f),
           NEW b, NEW d, NEW i \in Bounds(f), NEW j \in Bounds(n),
           InLevel(f, b, i), SameLevels(f, n, b, d),
           Literally(f, n, b, d, i, j) \/ BehindPlus(f, n, b, d, i, j)
    PROVE  SameLevels(f, n, i, j) /\ Rank(f, i) = Rank(f, b) + 1
  <1>1. InLevel(n, d, j)
    BY DEF Literally, BehindPlus
  <1>2. PICK r \in Nat : r = Rank(f, b) /\ r = Rank(n, d)
    <2>1. Rank(f, b) \in Nat
      BY InLevelProperties, RankProperties
    <2>2. QED
      BY <2>1 DEF SameLevels
  <1>3. Rank(f, i) = r + 1 /\ Rank(n, j) = r + 1
    BY <1>1, <1>2, RankNext
  <1>4. LevelMatches(f, n, r + 1)
    <2>1. CASE Literally(f, n, b, d, i, j)
      <3>1. /\ Level(f, r + 1) = SubSeq(f, b+1, i-1)
            /\ Level(n, r + 1) = SubSeq(n, d+1, j-1)
        BY <1>1, <1>3, LevelBetween
      <3>2. SubSeq(f, b+1, i-1) = SubSeq(n, d+1, j-1)
        <4>1. b \in Nat /\ d \in Nat /\ i \in Nat /\ j \in Nat
          BY <1>1, InLevelProperties
        <4>2. QED
          BY <2>1, <4>1, SameText
      <3>3. Level(f, r + 1) = Level(n, r + 1)
        BY <3>1, <3>2
      <3>4. QED
        BY <3>3 DEF LevelMatches
    <2>2. CASE BehindPlus(f, n, b, d, i, j)
      <3>1. /\ b \in Nat /\ b \in Bounds(f) /\ Len(f) \in Nat /\ i <= Len(f) + 1
            /\ i = b + 2 /\ f[b+1] = SingleLevel
        BY <2>2, InLevelProperties DEF BehindPlus
      <3>2. InLevel(f, b, b+1)
        BY <3>1, LevelBegins
      <3>3. b + 1 <= Len(f) /\ (b + 1) + 1 = i
        BY <3>1
      <3>4. Level(f, Rank(f, i)) = <<SingleLevel>>
        BY <3>1, <3>2, <3>3, Characters, WildcardAlone
      <3>5. QED
        BY <3>4, <1>3 DEF LevelMatches
    <2>3. QED
      BY <2>1, <2>2
  <1>5. \A k \in 1..r+1 : LevelMatches(f, n, k)
    <2>1. TAKE k \in 1..r+1
    <2>2. CASE k \in 1..r
      BY <2>2, <1>2 DEF SameLevels
    <2>3. CASE k = r + 1
      BY <2>3, <1>4
    <2>4. QED
      BY <2>2, <2>3
  <1>6. QED
    BY <1>2, <1>3, <1>5 DEF SameLevels

\* Both go on to the next level.
LEMMA NextLevel ==
    ASSUME NEW f \in Strings, NEW n \in Strings, WellFormed(f),
           NEW b, NEW d, NEW i, NEW j,
           InLevel(f, b, i), i <= Len(f), f[i] = Separator,
           j <= Len(n), n[j] = Separator,
           SameLevels(f, n, b, d),
           Literally(f, n, b, d, i, j) \/ BehindPlus(f, n, b, d, i, j)
    PROVE  AsFar(f, n, i+1, j+1)
  <1>1. InLevel(n, d, j)
    BY DEF Literally, BehindPlus
  <1>2. i \in 1..Len(f) /\ j \in 1..Len(n)
    BY <1>1, InLevelProperties
  <1>3. i \in Bounds(f) /\ j \in Bounds(n)
    BY <1>2, BoundsProperties
  <1>4. SameLevels(f, n, i, j)
    BY <1>3, LevelDone
  <1>5. InLevel(f, i, i+1) /\ InLevel(n, j, j+1)
    BY <1>2, <1>3, LevelBegins
  <1>6. Literally(f, n, i, j, i+1, j+1)
    <2>1. (i + 1) - i = 1 /\ (j + 1) - j = 1
      BY <1>2
    <2>2. 1..(i+1)-i-1 = {}
      BY <2>1
    <2>3. QED
      BY <2>1, <2>2, <1>5 DEF Literally
  <1>7. QED
    BY <1>3, <1>4, <1>5, <1>6 DEF AsFar, Reached

\* the test of a round of the loop
GoesOn(f, n, i, j) ==
    /\ j <= Len(n)
    /\ n[j] = Separator => f[i] = Separator
    /\ f[i] \in Wildcards \/ f[i] = n[j]

LEMMA AsFarStart ==
    ASSUME NEW f \in Strings, NEW n \in Strings
    PROVE  AsFar(f, n, 1, 1)
  <1>1. 0 \in Bounds(f) /\ 0 \in Bounds(n) /\ Len(f) \in Nat /\ Len(n) \in Nat
    BY BoundsProperties
  <1>2. InLevel(f, 0, 0+1) /\ InLevel(n, 0, 0+1)
    BY <1>1, LevelBegins
  <1>3. Rank(f, 0) = 0 /\ Rank(n, 0) = 0
    BY <1>1, RankProperties
  <1>4. SameLevels(f, n, 0, 0)
    BY <1>3 DEF SameLevels
  <1>5. Literally(f, n, 0, 0, 1, 1)
    BY <1>2 DEF Literally
  <1>6. QED
    BY <1>1, <1>2, <1>4, <1>5 DEF AsFar, Reached

LEMMA AsFarStep ==
    ASSUME NEW f \in Strings, NEW n \in Strings, WellFormed(f),
           NEW i \in 1..Len(f), NEW j \in 1..Len(n),
           AsFar(f, n, i, j), GoesOn(f, n, i, j)
    PROVE  AsFar(f, n, i+1, Round(f, n, i, j)) /\ Round(f, n, i, j) \in 1..Len(n)+1
  <1>1. Len(f) \in Nat /\ Len(n) \in Nat /\ i <= Len(f) /\ j <= Len(n) /\ j \in Nat
    BY BoundsProperties
  <1>2. PICK b \in Bounds(f), d \in Bounds(n) : Reached(f, n, b, d, i, j)
    BY DEF AsFar
  <1>3. InLevel(f, b, i) /\ SameLevels(f, n, b, d)
    BY <1>2 DEF Reached
  <1>4. /\ b \in Nat /\ b < i
        /\ f[i] \in Wildcards \/ f[i] = n[j]
        /\ n[j] = Separator => f[i] = Separator
    BY <1>3, InLevelProperties DEF GoesOn
  <1>5. /\ f[i] = SingleLevel => Round(f, n, i, j) = LevelEnd(n, j) + 1
        /\ f[i] = MultiLevel => Round(f, n, i, j) = Len(n) + 1
        /\ f[i] \notin Wildcards => Round(f, n, i, j) = j + 1
    BY <1>1, <1>4, Characters DEF Round
  <1>6. ~BehindHash(f, n, b, d, i, j)
    BY <1>1 DEF BehindHash
  <1>7. Literally(f, n, b, d, i, j) \/ BehindPlus(f, n, b, d, i, j)
    BY <1>2, <1>6 DEF Reached
  <1>8. InLevel(n, d, j)
    BY <1>7 DEF Literally, BehindPlus
  <1>9. d \in Nat /\ d <= Len(n) /\ d < j
    BY <1>1, <1>8, InLevelProperties
  <1>10. CASE f[i] = Separator
    <2>1. n[j] = Separator /\ Round(f, n, i, j) = j + 1
      BY <1>4, <1>5, <1>10, Characters
    <2>2. AsFar(f, n, i+1, j+1)
      BY <2>1, <1>1, <1>3, <1>7, <1>10, NextLevel
    <2>3. QED
      BY <2>1, <2>2, <1>1
  <1>11. CASE f[i] \in Wildcards
    <2>1. /\ i = b + 1 /\ InLevel(f, b, i+1)
          /\ f[i] = MultiLevel => i = Len(f)
      BY <1>1, <1>3, <1>11, WildcardAlone
    <2>2. n[j] # Separator
      BY <1>4, <1>11, Characters
    <2>3. CASE f[i] = SingleLevel
      <3>1. PICK e \in 1..Len(n)+1 : e = LevelEnd(n, j) + 1
        <4>1. LevelEnd(n, j) \in j..Len(n)
          BY LevelEndProperties
        <4>2. QED
          BY <4>1, <1>1
      <3>2. InLevel(n, d, e) /\ (e = Len(n) + 1 \/ n[e] = Separator)
        BY <2>2, <3>1, <1>1, <1>8, LevelSkipped
      <3>3. BehindPlus(f, n, b, d, i+1, e)
        BY <2>1, <2>3, <3>2, <1>4 DEF BehindPlus
      <3>4. AsFar(f, n, i+1, e)
        BY <2>1, <3>3, <1>3 DEF AsFar, Reached
      <3>5. QED
        BY <2>3, <3>1, <3>4, <1>5
    <2>4. CASE f[i] = MultiLevel
      <3>1. BehindHash(f, n, b, d, i+1, Len(n)+1)
        BY <2>1, <2>4, <1>4, <1>9 DEF BehindHash
      <3>2. AsFar(f, n, i+1, Len(n)+1)
        BY <2>1, <3>1, <1>3 DEF AsFar, Reached
      <3>3. QED
        BY <2>4, <3>2, <1>1, <1>5
    <2>5. QED
      BY <2>3, <2>4, <1>11, Characters
  <1>12. CASE f[i] # Separator /\ f[i] \notin Wildcards
    <2>1. f[i] = n[j] /\ n[j] # Separator
      BY <1>4, <1>12
    <2>2. InLevel(f, b, i+1) /\ InLevel(n, d, j+1)
      BY <2>1, <1>1, <1>3, <1>8, <1>12, LevelGrows
    <2>3. ~BehindPlus(f, n, b, d, i, j)
      BY <2>1, <1>1 DEF BehindPlus
    <2>4. Literally(f, n, b, d, i, j)
      BY <2>3, <1>7
    <2>5. (j + 1) - d = (i + 1) - b /\ j - d = i - b
      BY <2>4, <1>1, <1>4, <1>9 DEF Literally
    <2>6. ASSUME NEW x \in 1..(i+1)-b-1
          PROVE  f[b+x] = n[d+x] /\ f[b+x] \notin Wildcards
      <3>1. CASE x \in 1..i-b-1
        BY <2>4, <3>1 DEF Literally
      <3>2. CASE x \notin 1..i-b-1
        <4>1. b + x = i /\ d + x = j
          BY <2>5, <3>2, <1>1, <1>4, <1>9
        <4>2. QED
          BY <4>1, <2>1, <1>12
      <3>3. QED
        BY <3>1, <3>2
    <2>7. Literally(f, n, b, d, i+1, j+1)
      BY <2>2, <2>5, <2>6 DEF Literally
    <2>8. AsFar(f, n, i+1, j+1)
      BY <2>2, <2>7, <1>3 DEF AsFar, Reached
    <2>9. QED
      BY <2>8, <1>1, <1>5, <1>12
  <1>13. QED
    BY <1>10, <1>11, <1>12

\* The filter and the name end together.
LEMMA AsFarSound ==
    ASSUME NEW f \in Strings, NEW n \in Strings, WellFormed(f),
           AsFar(f, n, Len(f)+1, Len(n)+1)
    PROVE  Matches(f, n)
  <1> DEFINE i == Len(f) + 1
             j == Len(n) + 1
  <1>1. Len(f) \in Nat /\ Len(n) \in Nat /\ i \in Bounds(f) /\ j \in Bounds(n)
    BY BoundsProperties
  <1>2. PICK b \in Bounds(f), d \in Bounds(n) : Reached(f, n, b, d, i, j)
    BY DEF AsFar
  <1>3. /\ InLevel(f, b, i) /\ SameLevels(f, n, b, d)
        /\ Rank(f, i) = LevelCount(f) /\ Rank(n, j) = LevelCount(n)
        /\ LevelCount(f) \in Nat /\ LevelCount(n) \in Nat
    BY <1>1, <1>2, LastRank DEF Reached
  <1> HIDE DEF i, j
  <1>4. CASE Literally(f, n, b, d, i, j) \/ BehindPlus(f, n, b, d, i, j)
    <2>1. SameLevels(f, n, i, j)
      BY <1>1, <1>3, <1>4, LevelDone
    <2>2. /\ LevelCount(f) = LevelCount(n)
          /\ \A k \in 1..LevelCount(f) : LevelMatches(f, n, k)
      BY <2>1, <1>3 DEF SameLevels
    <2>3. QED
      BY <2>2, <1>3 DEF Matches
  <1>5. CASE BehindHash(f, n, b, d, i, j)
    <2>1. /\ b \in Nat /\ b < i /\ Rank(f, i) = Rank(f, b) + 1
          /\ Rank(f, b) = Rank(n, d) /\ Rank(n, d) <= LevelCount(n) /\ Rank(f, b) \in Nat
      BY <1>1, <1>3, InLevelProperties, RankNext, LastRank, RankProperties DEF SameLevels
    <2>2. i = b + 2 /\ f[b+1] = MultiLevel /\ b + 1 <= Len(f)
      BY <2>1, <1>1, <1>5 DEF BehindHash, i
    <2>3. InLevel(f, b, b+1)
      BY <2>1, <2>2, <1>1, LevelBegins
    <2>4. Level(f, Rank(f, (b+1)+1)) = <<MultiLevel>>
      BY <2>2, <2>3, Characters, WildcardAlone
    <2>5. Level(f, LevelCount(f)) = <<MultiLevel>>
      BY <2>1, <2>2, <2>4, <1>3
    <2>6. LevelCount(f) - 1 = Rank(f, b)
      BY <2>1, <1>3
    <2>7. \A k \in 1..LevelCount(f)-1 : LevelMatches(f, n, k)
      BY <2>6, <1>3 DEF SameLevels
    <2>8. QED
      BY <2>1, <2>5, <2>6, <2>7 DEF Matches
  <1>6. QED
    BY <1>2, <1>4, <1>5 DEF Reached

-----------------------------------------------------------------------------
(* A name that matches is not left                                          *)

\* n is a name that the filter f matches, and none of the two kinds that
\* isTopicMatched refuses nevertheless
Acceptable(f, n) ==
    f \in Strings /\ n \in Strings /\ WellFormed(f)
    /\ Matches(f, n) /\ NoEmptyLevel(n) /\ ~ParentOf(f, n)

LEMMA LevelText ==
    ASSUME NEW s \in Strings, NEW b, NEW e \in Bounds(s), InLevel(s, b, e)
    PROVE  /\ Level(s, Rank(s, e)) \in Strings
           /\ Len(Level(s, Rank(s, e))) = e - b - 1
           /\ \A x \in 1..e-b-1 : Level(s, Rank(s, e))[x] = s[b+x]
  <1>1. /\ b \in Nat /\ e \in Nat /\ b < e /\ e <= Len(s) + 1 /\ Len(s) \in Nat
        /\ s \in Seq(STRING)
    BY InLevelProperties DEF Strings
  <1>2. PICK m \in Nat : m = e - b - 1
    BY <1>1
  <1>3. \A x \in b+1..e-1 : s[x] \in STRING
    BY <1>1, ElementOfSeq
  <1>4. b + 1 \in Int /\ e - 1 \in Int
    BY <1>1
  <1>5. /\ SubSeq(s, b+1, e-1) \in Seq(STRING)
        /\ Len(SubSeq(s, b+1, e-1)) = IF b+1 <= e-1 THEN e-1 - (b+1) + 1 ELSE 0
        /\ \A x \in 1..e-1-(b+1)+1 : SubSeq(s, b+1, e-1)[x] = s[b+1+x-1]
    BY <1>3, <1>4, SubSeqProperties
  <1>6. Len(SubSeq(s, b+1, e-1)) = e - b - 1
    BY <1>1, <1>5
  <1>7. ASSUME NEW x \in 1..e-b-1 PROVE SubSeq(s, b+1, e-1)[x] = s[b+x]
    <2>1. x \in 1..e-1-(b+1)+1 /\ b+1+x-1 = b+x
      BY <1>1
    <2>2. QED
      BY <2>1, <1>5
  <1>8. QED
    BY <1>5, <1>6, <1>7, LevelBetween DEF Strings

\* Where a level of the filter is followed by another, so is that of the name.
LEMMA NameGoesOn ==
    ASSUME NEW f, NEW n, Acceptable(f, n),
           NEW e \in Bounds(f), NEW g \in Bounds(n), e <= Len(f),
           Rank(f, e) = Rank(n, g)
    PROVE  g <= Len(n)
  <1>1. f \in Strings /\ n \in Strings
    BY DEF Acceptable
  <1>2. /\ Len(f) \in Nat /\ Len(n) \in Nat /\ e \in Nat /\ g \in Nat /\ g <= Len(n) + 1
    BY <1>1, BoundsProperties
  <1>3. /\ LevelCount(f) \in Nat /\ LevelCount(n) \in Nat /\ Rank(f, e) \in Nat
        /\ Rank(f, e) < LevelCount(f)
        /\ Rank(n, g) = LevelCount(n) <=> g = Len(n) + 1
    <2>1. e # Len(f) + 1
      BY <1>2
    <2>2. /\ LevelCount(f) \in Nat /\ LevelCount(n) \in Nat /\ Rank(f, e) \in Nat
          /\ Rank(f, e) <= LevelCount(f) /\ Rank(f, e) # LevelCount(f)
          /\ Rank(n, g) = LevelCount(n) <=> g = Len(n) + 1
      BY <2>1, <1>1, LastRank, RankProperties
    <2>3. QED
      BY <2>2
  <1>4. ASSUME g = Len(n) + 1 PROVE FALSE
    <2>1. LevelCount(n) < LevelCount(f)
      BY <1>3, <1>4
    <2>2. /\ Level(f, LevelCount(f)) = <<MultiLevel>>
          /\ LevelCount(f) - 1 <= LevelCount(n)
      BY <2>1, <1>3 DEF Acceptable, Matches
    <2>3. LevelCount(n) = LevelCount(f) - 1
      BY <2>1, <2>2, <1>3
    <2>4. QED
      BY <2>2, <2>3 DEF Acceptable, ParentOf
  <1>5. QED
    BY <1>2, <1>4

\* A level that has not ended in either matches, unless it is a '#'.
LEMMA LevelIsMatched ==
    ASSUME NEW f, NEW n, Acceptable(f, n),
           NEW b, NEW d, NEW e \in Bounds(f), NEW g \in Bounds(n),
           InLevel(f, b, e), InLevel(n, d, g), Rank(f, b) = Rank(n, d)
    PROVE  LET K == Rank(f, e)
           IN  /\ K = Rank(n, g)
               /\ Level(n, K) # <<>>
               /\ LevelMatches(f, n, K) \/ Level(f, K) = <<MultiLevel>>
  <1>1. f \in Strings /\ n \in Strings
    BY DEF Acceptable
  <1>2. PICK K \in Nat : K = Rank(f, e) /\ K = Rank(n, g) /\ K >= 1
    <2>1. Rank(f, b) \in Nat
      BY <1>1, InLevelProperties, RankProperties
    <2>2. Rank(f, e) = Rank(f, b) + 1 /\ Rank(n, g) = Rank(n, d) + 1
      BY <1>1, RankNext
    <2>3. QED
      BY <2>1, <2>2
  <1>3. /\ LevelCount(f) \in Nat /\ LevelCount(n) \in Nat
        /\ K <= LevelCount(f) /\ K <= LevelCount(n)
    BY <1>1, <1>2, LastRank
  <1>4. Level(n, K) # <<>>
    BY <1>2, <1>3 DEF Acceptable, NoEmptyLevel
  <1>5. LevelMatches(f, n, K) \/ Level(f, K) = <<MultiLevel>>
    <2>1. CASE Level(f, LevelCount(f)) = <<MultiLevel>>
      <3>1. \A k \in 1..LevelCount(f)-1 : LevelMatches(f, n, k)
        BY <2>1 DEF Acceptable, Matches
      <3>2. K \in 1..LevelCount(f)-1 \/ K = LevelCount(f)
        BY <1>2, <1>3
      <3>3. QED
        BY <2>1, <3>1, <3>2
    <2>2. CASE Level(f, LevelCount(f)) # <<MultiLevel>>
      <3>1. \A k \in 1..LevelCount(f) : LevelMatches(f, n, k)
        BY <2>2 DEF Acceptable, Matches
      <3>2. QED
        BY <3>1, <1>2, <1>3
    <2>3. QED
      BY <2>1, <2>2
  <1>6. QED
    BY <1>2, <1>4, <1>5

\* a level of one wildcard
LEMMA WildcardLevel ==
    ASSUME NEW s \in Strings, NEW b, NEW e \in Bounds(s), InLevel(s, b, e),
           NEW w \in Wildcards, Level(s, Rank(s, e)) = <<w>>
    PROVE  e = b + 2 /\ s[b+1] = w
  <1>1. Len(Level(s, Rank(s, e))) = 1 /\ Level(s, Rank(s, e))[1] = w
    OBVIOUS
  <1>2. b \in Nat /\ e \in Nat
    BY InLevelProperties
  <1>3. e - b - 1 = 1
    BY <1>1, LevelText
  <1>4. 1 \in 1..e-b-1
    BY <1>3
  <1>5. Level(s, Rank(s, e))[1] = s[b+1]
    BY <1>4, LevelText
  <1>6. QED
    BY <1>1, <1>2, <1>3, <1>5

LEMMA AsFarGoesOn ==
    ASSUME NEW f, NEW n, Acceptable(f, n), NEW i \in 1..Len(f), NEW j,
           AsFar(f, n, i, j)
    PROVE  j \in 1..Len(n) /\ GoesOn(f, n, i, j)
  <1>1. f \in Strings /\ n \in Strings /\ WellFormed(f)
    BY DEF Acceptable
  <1>2. PICK b \in Bounds(f), d \in Bounds(n) : Reached(f, n, b, d, i, j)
    BY DEF AsFar
  <1>3. InLevel(f, b, i) /\ SameLevels(f, n, b, d)
    BY <1>2 DEF Reached
  <1>4. Len(f) \in Nat /\ Len(n) \in Nat /\ i <= Len(f) /\ b \in Nat /\ b < i
    BY <1>1, <1>3, BoundsProperties, InLevelProperties
  <1>5. ~BehindHash(f, n, b, d, i, j)
    BY <1>4 DEF BehindHash
  <1>6. Literally(f, n, b, d, i, j) \/ BehindPlus(f, n, b, d, i, j)
    BY <1>2, <1>5 DEF Reached
  <1>7. InLevel(n, d, j)
    BY <1>6 DEF Literally, BehindPlus
  <1>8. d \in Nat /\ j \in Nat /\ d < j /\ j <= Len(n) + 1 /\ j >= 1
    BY <1>1, <1>7, InLevelProperties
  <1>9. Rank(f, b) = Rank(n, d)
    BY <1>3 DEF SameLevels
  <1>10. PICK e \in Bounds(f) : i <= e /\ InLevel(f, b, e)
    BY <1>1, <1>3, NextBound
  <1>11. PICK g \in Bounds(n) : j <= g /\ InLevel(n, d, g)
    BY <1>1, <1>7, NextBound
  <1>12. e \in Nat /\ g \in Nat /\ g <= Len(n) + 1
    BY <1>1, BoundsProperties
  <1>13. PICK K : K = Rank(f, e)
    OBVIOUS
  <1>14. /\ K = Rank(n, g) /\ Level(n, K) # <<>>
         /\ LevelMatches(f, n, K) \/ Level(f, K) = <<MultiLevel>>
    BY <1>9, <1>10, <1>11, <1>13, LevelIsMatched
  <1>15. ASSUME j < g PROVE j \in 1..Len(n) /\ n[j] # Separator
    <2>1. j \in 1..Len(n)
      BY <1>8, <1>12, <1>15, <1>4
    <2>2. j \notin Bounds(n)
      BY <1>8, <1>11, <1>15 DEF InLevel
    <2>3. QED
      BY <2>1, <2>2, <1>1, BoundsProperties
  <1>16. CASE BehindPlus(f, n, b, d, i, j)
    <2>1. i = b + 2 /\ f[b+1] = SingleLevel /\ (j = Len(n) + 1 \/ n[j] = Separator)
      BY <1>16 DEF BehindPlus
    <2>2. InLevel(f, b, b+1)
      BY <2>1, <1>1, <1>4, LevelBegins
    <2>3. b + 1 <= Len(f) /\ b + 1 # Len(f) /\ (b + 1) + 1 = i
      BY <2>1, <1>4
    <2>4. f[i] = Separator /\ i \in Bounds(f)
      <3>1. f[b+1] \in Wildcards
        BY <2>1, Characters
      <3>2. f[(b+1)+1] = Separator /\ (b + 1) + 1 \in Bounds(f)
        BY <3>1, <2>2, <2>3, <1>1, WildcardAlone
      <3>3. QED
        BY <3>2, <2>3
    <2>5. ASSUME j = Len(n) + 1 PROVE FALSE
      <3>1. j \in Bounds(n)
        BY <2>5, <1>1, BoundsProperties
      <3>2. Rank(f, i) = Rank(f, b) + 1 /\ Rank(n, j) = Rank(n, d) + 1
        BY <3>1, <2>4, <1>1, <1>3, <1>7, RankNext
      <3>3. Rank(f, i) = Rank(n, j)
        BY <3>2, <1>9
      <3>4. j <= Len(n)
        BY <3>1, <3>3, <2>4, <1>4, NameGoesOn
      <3>5. QED
        BY <3>4, <2>5, <1>4
    <2>6. j \in 1..Len(n) /\ n[j] = Separator
      BY <2>1, <2>5, <1>4, <1>8
    <2>7. QED
      BY <2>4, <2>6, <1>4 DEF GoesOn
  <1>17. CASE Literally(f, n, b, d, i, j)
    <2>1. /\ j - d = i - b
          /\ \A x \in 1..i-b-1 : f[b+x] = n[d+x] /\ f[b+x] \notin Wildcards
      BY <1>17 DEF Literally
    <2>2. /\ Len(Level(f, K)) = e - b - 1 /\ Len(Level(n, K)) = g - d - 1
          /\ \A x \in 1..e-b-1 : Level(f, K)[x] = f[b+x]
          /\ \A x \in 1..g-d-1 : Level(n, K)[x] = n[d+x]
          /\ Level(n, K) \in Strings
      <3>1. /\ Len(Level(f, K)) = e - b - 1
            /\ \A x \in 1..e-b-1 : Level(f, K)[x] = f[b+x]
        BY <1>1, <1>10, <1>13, LevelText
      <3>2. K = Rank(n, g)
        BY <1>14
      <3>3. /\ Len(Level(n, K)) = g - d - 1 /\ Level(n, K) \in Strings
            /\ \A x \in 1..g-d-1 : Level(n, K)[x] = n[d+x]
        BY <3>2, <1>1, <1>11, LevelText
      <3>4. QED
        BY <3>1, <3>3
    <2>3. CASE f[i] \in Wildcards
      <3>1. i = b + 1
        BY <2>3, <1>1, <1>3, <1>4, WildcardAlone
      <3>2. j = d + 1
        BY <3>1, <2>1, <1>4, <1>8
      <3>3. Len(Level(n, K)) # 0
        BY <2>2, <1>14, EmptySeq DEF Strings
      <3>4. j < g
        BY <3>2, <3>3, <2>2, <1>8, <1>11, <1>12
      <3>5. QED
        BY <3>4, <2>3, <1>15, <1>4 DEF GoesOn
    <2>4. ASSUME f[i] \notin Wildcards
          PROVE  Level(f, K) = Level(n, K)
      <3>1. ASSUME NEW w \in Wildcards, Level(f, K) = <<w>> PROVE FALSE
        <4>1. e = b + 2 /\ f[b+1] = w
          BY <3>1, <1>1, <1>10, <1>13, WildcardLevel
        <4>2. CASE i = b + 1
          BY <4>1, <4>2, <2>4
        <4>3. CASE i # b + 1
          <5>1. 1 \in 1..i-b-1
            BY <4>3, <1>4
          <5>2. f[b+1] \notin Wildcards
            BY <5>1, <2>1
          <5>3. QED
            BY <5>2, <4>1
        <4>4. QED
          BY <4>2, <4>3
      <3>2. QED
        BY <3>1, <1>14, Characters DEF LevelMatches
    <2>5. CASE f[i] = Separator
      <3>1. i \in Bounds(f)
        BY <2>5, <1>1, BoundsProperties
      <3>2. ~(b < i /\ i < e)
        BY <3>1, <1>10 DEF InLevel
      <3>3. i = e
        BY <3>2, <1>4, <1>10, <1>12
      <3>4. e - b - 1 = g - d - 1
        BY <2>2, <2>4, <2>5, Characters
      <3>5. j = g
        BY <3>3, <3>4, <2>1, <1>4, <1>8, <1>12
      <3>6. j <= Len(n)
        BY <3>3, <3>5, <1>4, <1>13, <1>14, NameGoesOn
      <3>7. j \in 1..Len(n) /\ n[j] = Separator
        BY <3>5, <3>6, <1>1, <1>4, <1>8, BoundsProperties
      <3>8. QED
        BY <3>7, <2>5, <1>4 DEF GoesOn
    <2>6. CASE f[i] # Separator /\ f[i] \notin Wildcards
      <3>1. i \notin Bounds(f)
        BY <2>6, <1>1, BoundsProperties
      <3>2. i < e
        BY <3>1, <1>4, <1>10, <1>12
      <3>3. e - b - 1 = g - d - 1
        BY <2>2, <2>4, <2>6
      <3>4. PICK x \in Nat : x = i - b /\ x = j - d
        BY <2>1, <1>4
      <3>5. x \in 1..e-b-1 /\ x \in 1..g-d-1 /\ b + x = i /\ d + x = j /\ j < g
        BY <3>2, <3>3, <3>4, <1>4, <1>8, <1>12
      <3>6. f[i] = n[j]
        BY <3>5, <2>2, <2>4, <2>6
      <3>7. QED
        BY <3>5, <3>6, <1>15, <1>4 DEF GoesOn
    <2>7. QED
      BY <2>3, <2>5, <2>6
  <1>18. QED
    BY <1>6, <1>16, <1>17

LEMMA AsFarEnds ==
    ASSUME NEW f, NEW n, Acceptable(f, n), NEW j, AsFar(f, n, Len(f)+1, j)
    PROVE  j = Len(n) + 1
  <1> DEFINE i == Len(f) + 1
  <1>1. f \in Strings /\ n \in Strings /\ WellFormed(f)
    BY DEF Acceptable
  <1>2. PICK b \in Bounds(f), d \in Bounds(n) : Reached(f, n, b, d, i, j)
    BY DEF AsFar
  <1>3. InLevel(f, b, i) /\ SameLevels(f, n, b, d)
    BY <1>2 DEF Reached
  <1>4. Len(f) \in Nat /\ Len(n) \in Nat /\ i \in Nat /\ b \in Nat /\ b < i /\ i \in Bounds(f)
    BY <1>1, <1>3, BoundsProperties, InLevelProperties
  <1> HIDE DEF i
  <1>5. CASE BehindHash(f, n, b, d, i, j)
    BY <1>5 DEF BehindHash
  <1>6. CASE Literally(f, n, b, d, i, j) \/ BehindPlus(f, n, b, d, i, j)
    <2>1. InLevel(n, d, j) /\ Rank(f, b) = Rank(n, d)
      BY <1>3, <1>6 DEF Literally, BehindPlus, SameLevels
    <2>2. d \in Nat /\ j \in Nat /\ d < j
      BY <2>1, <1>1, InLevelProperties
    <2>3. PICK g \in Bounds(n) : j <= g /\ InLevel(n, d, g)
      BY <2>1, <1>1, NextBound
    <2>4. PICK K : K = Rank(f, i)
      OBVIOUS
    <2>5. /\ K = Rank(n, g)
          /\ LevelMatches(f, n, K) \/ Level(f, K) = <<MultiLevel>>
      BY <2>1, <2>3, <2>4, <1>3, <1>4, LevelIsMatched
    <2>6. K = LevelCount(f)
      BY <2>4, <1>1, <1>4, LastRank DEF i
    <2>7. Level(f, K) # <<MultiLevel>>
      <3>1. ASSUME Level(f, K) = <<MultiLevel>> PROVE FALSE
        <4>1. i = b + 2 /\ f[b+1] = MultiLevel
          BY <3>1, <2>4, <1>1, <1>3, <1>4, Characters, WildcardLevel
        <4>2. CASE Literally(f, n, b, d, i, j)
          <5>1. 1 \in 1..i-b-1
            BY <4>1, <1>4
          <5>2. f[b+1] \notin Wildcards
            BY <4>2, <5>1 DEF Literally
          <5>3. QED
            BY <4>1, <5>2, Characters
        <4>3. CASE BehindPlus(f, n, b, d, i, j)
          BY <4>1, <4>3, Characters DEF BehindPlus
        <4>4. QED
          BY <4>2, <4>3, <1>6
      <3>2. QED
        BY <3>1
    <2>8. LevelCount(n) = K /\ LevelMatches(f, n, K)
      BY <2>5, <2>6, <2>7 DEF Acceptable, Matches
    <2>9. g = Len(n) + 1
      BY <2>5, <2>8, <1>1, LastRank
    <2>10. CASE BehindPlus(f, n, b, d, i, j)
      <3>1. ASSUME n[j] = Separator, j # Len(n) + 1 PROVE FALSE
        <4>1. j \in 1..Len(n)
          BY <3>1, <2>2, <2>3, <2>9, <1>4
        <4>2. j \in Bounds(n)
          BY <4>1, <3>1, <1>1, BoundsProperties
        <4>3. ~(d < j /\ j < g)
          BY <4>2, <2>3 DEF InLevel
        <4>4. QED
          BY <4>1, <4>3, <2>2, <2>9, <1>4
      <3>2. QED
        BY <3>1, <2>10 DEF BehindPlus
    <2>11. CASE Literally(f, n, b, d, i, j)
      <3>1. Level(f, K) # <<SingleLevel>>
        <4>1. ASSUME Level(f, K) = <<SingleLevel>> PROVE FALSE
          <5>1. i = b + 2 /\ f[b+1] = SingleLevel
            BY <4>1, <2>4, <1>1, <1>3, <1>4, Characters, WildcardLevel
          <5>2. 1 \in 1..i-b-1
            BY <5>1, <1>4
          <5>3. f[b+1] \notin Wildcards
            BY <2>11, <5>2 DEF Literally
          <5>4. QED
            BY <5>1, <5>3, Characters
        <4>2. QED
          BY <4>1
      <3>2. Level(f, K) = Level(n, K)
        BY <3>1, <2>8 DEF LevelMatches
      <3>3. /\ Len(Level(f, K)) = i - b - 1 /\ Len(Level(n, K)) = g - d - 1
        <4>1. Len(Level(f, K)) = i - b - 1
          BY <2>4, <1>1, <1>3, <1>4, LevelText
        <4>2. K = Rank(n, g)
          BY <2>5
        <4>3. Len(Level(n, K)) = g - d - 1
          BY <4>2, <2>3, <1>1, LevelText
        <4>4. QED
          BY <4>1, <4>3
      <3>4. i - b - 1 = g - d - 1 /\ j - d = i - b
        BY <3>2, <3>3, <2>11 DEF Literally
      <3>5. g \in Nat
        BY <2>9, <1>4
      <3>6. QED
        BY <3>4, <3>5, <2>2, <2>9, <1>4
    <2>12. QED
      BY <2>10, <2>11, <1>6
  <1>7. QED
    BY <1>2, <1>5, <1>6 DEF Reached

-----------------------------------------------------------------------------
(* The walk                                                                 *)

\* The loop comes to each character of the filter, or ends before.
LEMMA CurnProperties ==
    ASSUME NEW f \in Strings, NEW n \in Strings
    PROVE  Curn(f, n)[1] = 1
           /\ \A i \in 1..Len(f) : Curn(f, n)[i+1] = Round(f, n, i, Curn(f, n)[i])
  <1> DEFINE M == Len(f) + 1
             Step(i, j) == IF i = 1 THEN 1 ELSE Round(f, n, i-1, j)
             Part(m, g) == \A i \in 1..m : g[i] = Step(i, g[i-1])
             Bad == {m \in 1..M : ~\E g : Part(m, g)}
  <1>1. Len(f) \in Nat /\ M \in Nat
    BY BoundsProperties
  <1>2. ASSUME Bad # {} PROVE FALSE
    <2>1. Bad \in SUBSET Nat
      BY <1>1
    <2>2. PICK m \in Bad : \A y \in Bad : m <= y
      <3> HIDE DEF Bad
      <3>1. QED
        BY <1>2, <2>1, LeastOf
    <2>3. m \in 1..M /\ ~\E g : Part(m, g)
      OBVIOUS
    <2>4. CASE m = 1
      <3> DEFINE g == [i \in 1..1 |-> 1]
      <3>1. Part(1, g)
        OBVIOUS
      <3>2. QED
        BY <3>1, <2>3, <2>4
    <2>5. CASE m # 1
      <3>1. m - 1 \in 1..M /\ m - 1 \notin Bad
        <4>1. m \in Nat /\ m - 1 \in 1..M /\ ~(m <= m - 1)
          BY <1>1, <2>3, <2>5
        <4> HIDE DEF Bad
        <4>2. m - 1 \notin Bad
          BY <4>1, <2>2
        <4>3. QED
          BY <4>1, <4>2
      <3>2. PICK h : Part(m-1, h)
        BY <3>1
      <3> DEFINE g == [i \in 0..m |-> IF i = m THEN Step(m, h[m-1]) ELSE h[i]]
      <3>3. ASSUME NEW i \in 1..m PROVE g[i] = Step(i, g[i-1])
        <4>1. i - 1 \in 0..m /\ i - 1 # m /\ i \in 0..m
          BY <1>1, <2>3
        <4>2. g[i-1] = h[i-1]
          BY <4>1
        <4>3. CASE i = m
          BY <4>1, <4>2, <4>3
        <4>4. CASE i # m
          <5>1. i \in 1..m-1
            BY <4>4, <1>1, <2>3
          <5>2. QED
            BY <5>1, <4>1, <4>2, <4>4, <3>2
        <4>5. QED
          BY <4>3, <4>4
      <3>4. Part(m, g)
        BY <3>3
      <3> HIDE DEF g, Part
      <3>5. QED
        BY <3>4, <2>3
    <2>6. QED
      BY <2>4, <2>5
  <1>3. PICK h : Part(M, h)
    <2>1. M \in 1..M /\ M \notin Bad
      BY <1>1, <1>2
    <2>2. QED
      BY <2>1
  <1> DEFINE Eqn(at) == at = [i \in 1..M |-> IF i = 1 THEN 1 ELSE Round(f, n, i-1, at[i-1])]
             at0 == [i \in 1..M |-> h[i]]
  <1>4. Eqn(at0)
    <2>1. ASSUME NEW i \in 1..M
          PROVE  at0[i] = IF i = 1 THEN 1 ELSE Round(f, n, i-1, at0[i-1])
      <3>1. CASE i = 1
        BY <3>1, <1>3
      <3>2. CASE i # 1
        <4>1. i - 1 \in 1..M
          BY <3>2, <1>1
        <4>2. QED
          BY <3>2, <4>1, <1>3
      <3>3. QED
        BY <3>1, <3>2
    <2>2. QED
      BY <2>1
  <1>5. Curn(f, n) = CHOOSE at : Eqn(at)
    BY DEF Curn
  <1>6. Eqn(Curn(f, n))
    <2> HIDE DEF Eqn, at0
    <2>1. QED
      BY <1>4, <1>5
  <1>7. \A i \in 1..M : Curn(f, n)[i] = IF i = 1 THEN 1 ELSE Round(f, n, i-1, Curn(f, n)[i-1])
    BY <1>6
  <1>8. Curn(f, n)[1] = 1
    BY <1>1, <1>7
  <1>9. ASSUME NEW i \in 1..Len(f) PROVE Curn(f, n)[i+1] = Round(f, n, i, Curn(f, n)[i])
    <2>1. i + 1 \in 1..M /\ i + 1 # 1 /\ (i + 1) - 1 = i
      BY <1>1
    <2>2. QED
      BY <2>1, <1>7
  <1>10. QED
    BY <1>8, <1>9

LEMMA RoundStops ==
    ASSUME NEW f, NEW n \in Strings, NEW i, NEW j \in 0..Len(n)+1,
           ~(j \in 1..Len(n) /\ GoesOn(f, n, i, j))
    PROVE  Round(f, n, i, j) = 0
  <1>1. Len(n) \in Nat
    BY BoundsProperties
  <1>2. CASE j \in {0, Len(n) + 1}
    BY <1>2 DEF Round
  <1>3. CASE j \notin {0, Len(n) + 1}
    <2>1. j \in 1..Len(n) /\ j <= Len(n)
      BY <1>1, <1>3
    <2>2. \/ n[j] = Separator /\ f[i] # Separator
          \/ f[i] \notin Wildcards /\ f[i] # n[j]
      BY <2>1 DEF GoesOn
    <2>3. \/ n[j] = Separator /\ f[i] # Separator
          \/ f[i] \notin {SingleLevel, MultiLevel, n[j]}
      BY <2>2, Characters
    <2>4. QED
      BY <2>3 DEF Round
  <1>4. QED
    BY <1>2, <1>3

\* isTopicMatched accepts only names that the filter matches, level by level
\* (MQTTClient.c:134).
THEOREM MatchIsSound ==
    ASSUME NEW f \in Strings, NEW n \in Strings, WellFormed(f),
           isTopicMatched(f, n)
    PROVE  Matches(f, n)
  <1> DEFINE M == Len(f) + 1
             at == Curn(f, n)
             P(i) == at[i] \in 0..Len(n)+1 /\ (at[i] # 0 => AsFar(f, n, i, at[i]))
             Bad == {i \in 1..M : ~P(i)}
  <1>1. Len(f) \in Nat /\ Len(n) \in Nat /\ M \in Nat
    BY BoundsProperties
  <1>2. P(1)
    BY <1>1, CurnProperties, AsFarStart
  <1>3. ASSUME NEW i \in 1..Len(f), P(i) PROVE P(i+1)
    <2>1. PICK j \in 0..Len(n)+1 : j = at[i]
      BY <1>3
    <2>2. at[i+1] = Round(f, n, i, j)
      BY <2>1, CurnProperties
    <2>3. CASE j \in 1..Len(n) /\ GoesOn(f, n, i, j)
      <3>1. AsFar(f, n, i, j)
        BY <2>1, <2>3, <1>3
      <3>2. /\ AsFar(f, n, i+1, Round(f, n, i, j))
            /\ Round(f, n, i, j) \in 1..Len(n)+1
        BY <3>1, <2>3, AsFarStep
      <3>3. QED
        BY <3>2, <2>2, <1>1
    <2>4. CASE ~(j \in 1..Len(n) /\ GoesOn(f, n, i, j))
      <3>1. at[i+1] = 0
        BY <2>2, <2>4, RoundStops
      <3>2. QED
        BY <3>1, <1>1
    <2>5. QED
      BY <2>3, <2>4
  <1> HIDE DEF P, at
  <1>4. ASSUME Bad # {} PROVE FALSE
    <2>1. Bad \in SUBSET Nat
      BY <1>1
    <2>2. PICK m \in Bad : \A y \in Bad : m <= y
      <3> HIDE DEF Bad
      <3>1. QED
        BY <1>4, <2>1, LeastOf
    <2>3. m \in 1..M /\ ~P(m) /\ m # 1
      BY <1>2
    <2>4. m - 1 \in 1..Len(f) /\ (m - 1) + 1 = m /\ ~(m <= m - 1) /\ m - 1 \in 1..M
      BY <1>1, <2>3
    <2>5. m - 1 \notin Bad
      <3> HIDE DEF Bad
      <3>1. QED
        BY <2>2, <2>4
    <2>6. P(m-1)
      BY <2>4, <2>5
    <2>7. P((m-1)+1)
      BY <2>4, <2>6, <1>3
    <2>8. QED
      BY <2>3, <2>4, <2>7
  <1>5. P(M)
    BY <1>1, <1>4
  <1>6. at[M] = Len(n) + 1
    BY DEF isTopicMatched, at
  <1>7. AsFar(f, n, Len(f)+1, Len(n)+1)
    BY <1>1, <1>5, <1>6 DEF P
  <1>8. QED
    BY <1>7, AsFarSound

\* It accepts each of these names, but for one with an empty level and the
\* parent of a trailing '#' (MQTTClient.c:134).
THEOREM MatchIsComplete ==
    ASSUME NEW f \in Strings, NEW n \in Strings, WellFormed(f),
           Matches(f, n), NoEmptyLevel(n), ~ParentOf(f, n)
    PROVE  isTopicMatched(f, n)
  <1> DEFINE M == Len(f) + 1
             at == Curn(f, n)
             P(i) == AsFar(f, n, i, at[i])
             Bad == {i \in 1..M : ~P(i)}
  <1>1. Len(f) \in Nat /\ Len(n) \in Nat /\ M \in Nat
    BY BoundsProperties
  <1>2. Acceptable(f, n)
    BY DEF Acceptable
  <1>3. P(1)
    BY CurnProperties, AsFarStart
  <1>4. ASSUME NEW i \in 1..Len(f), P(i) PROVE P(i+1)
    <2>1. at[i] \in 1..Len(n) /\ GoesOn(f, n, i, at[i])
      BY <1>2, <1>4, AsFarGoesOn
    <2>2. AsFar(f, n, i+1, Round(f, n, i, at[i]))
      BY <2>1, <1>4, AsFarStep
    <2>3. QED
      BY <2>2, CurnProperties
  <1> HIDE DEF P, at
  <1>5. ASSUME Bad # {} PROVE FALSE
    <2>1. Bad \in SUBSET Nat
      BY <1>1
    <2>2. PICK m \in Bad : \A y \in Bad : m <= y
      <3> HIDE DEF Bad
      <3>1. QED
        BY <1>5, <2>1, LeastOf
    <2>3. m \in 1..M /\ ~P(m) /\ m # 1
      BY <1>3
    <2>4. m - 1 \in 1..Len(f) /\ (m - 1) + 1 = m /\ ~(m <= m - 1) /\ m - 1 \in 1..M
      BY <1>1, <2>3
    <2>5. m - 1 \notin Bad
      <3> HIDE DEF Bad
      <3>1. QED
        BY <2>2, <2>4
    <2>6. P(m-1)
      BY <2>4, <2>5
    <2>7. P((m-1)+1)
      BY <2>4, <2>6, <1>4
    <2>8. QED
      BY <2>3, <2>4, <2>7
  <1>6. P(M)
    BY <1>1, <1>5
  <1>7. at[M] = Len(n) + 1
    BY <1>2, <1>6, AsFarEnds DEF P
  <1>8. QED
    BY <1>7 DEF isTopicMatched, at

\* A filter matches the name that is written like it.
LEMMA EqualMatches ==
    ASSUME NEW f \in Strings
    PROVE  Matches(f, f)
  <1>1. LevelCount(f) \in Nat
    BY BoundsProperties, LastRank
  <1>2. \A k : LevelMatches(f, f, k)
    BY DEF LevelMatches
  <1>3. QED
    BY <1>1, <1>2 DEF Matches

\* The handlers that deliverMessage calls for a name are those it should call
\* (MQTTClient.c:170).
THEOREM SelectedIsSound ==
    ASSUME NEW f \in Strings, NEW n \in Strings, WellFormed(f), Selected(f, n)
    PROVE  Matches(f, n)
  BY MatchIsSound, EqualMatches DEF Selected
=============================================================================
