---------------------------- MODULE RankingProofs ----------------------------
(***************************************************************************)
(* What holds of every ranking: types, scores between 0 and 1, answers     *)
(* within the limit without repetitions, and filled up, for any users,     *)
(* products, quantities, scores of the ALS model and limits.               *)
(***************************************************************************)
EXTENDS Ranking, FiniteSetTheorems, SequenceTheorems, WellFoundedInduction, TLAPS

Distinct(s) == \A i, j \in DOMAIN s : s[i] = s[j] => i = j

(* A share: between 0 and 1, with a denominator. *)
Shares == { x \in [num : Nat, den : Nat] : x.num <= x.den /\ x.den # 0 }

Entries == [product : Products, source : {"hybrid", "popular"}, score : Scores]

Maps == [Products -> (SUBSET Categories) \cup {Removed}]

ProductsOf(items) == { items[i].product : i \in DOMAIN items }

ShopInv == orders \in Seq(Items) /\ shelf \in Maps

(* The list of popular products has none of them twice. *)
TrainingInv ==
    training # None =>
      /\ training \in [step : {"popular", "categories"}, items : Seq(Items), popular : Seq(Products)]
      /\ Len(training.popular) <= PopularSize
      /\ Distinct(training.popular)

(* Whatever the orders were, what an artifact has of scores are shares. *)
Sound(a) ==
    /\ a.matrix \in [users : Seq(Users), products : Seq(Products)]
    /\ a.bought \in [Users -> SUBSET Products]
    /\ a.popular \in Seq(Products) /\ Distinct(a.popular)
    /\ DOMAIN a.popularity = Range(a.matrix.products)
    /\ \A p \in DOMAIN a.popularity : a.popularity[p] \in Shares
    /\ a.categories \in Maps
    /\ \A u \in Users : \A c \in DOMAIN a.affinity[u] : a.affinity[u][c] \in Shares

ArtifactInv == artifact # None => Sound(artifact)

(* A ranking of at most n products, none twice, those of the model first. *)
IsRankingOf(s, n) ==
    /\ s \in Seq(Entries)
    /\ Len(s) <= n
    /\ \A i, j \in DOMAIN s :
         /\ s[i].product = s[j].product => i = j
         /\ s[i].source = "popular" /\ s[j].source = "hybrid" => j < i

ServingInv ==
    /\ request # None => request \in [user : Users, limit : Limits]
    /\ ranked # None => request # None /\ IsRankingOf(ranked, request.limit)
    /\ answer # None => /\ request # None
                        /\ answer.status \in {200, 404, 500}
                        /\ answer.body \in Seq(Entries)
                        /\ ranked # None => Len(answer.body) <= request.limit

IInv == ShopInv /\ TrainingInv /\ ArtifactInv /\ ServingInv
-----------------------------------------------------------------------------
(* Induction over the numbers, as a fact about sets. *)
LEMMA SetInduction ==
  ASSUME NEW T \in SUBSET Nat, 0 \in T, \A n \in T : n + 1 \in T
  PROVE  T = Nat
  <1> DEFINE Less == OpToRel(<, Nat)
  <1>1. IsWellFoundedOn(Less, Nat)
    BY NatLessThanWellFounded
  <1>2. \A x, y \in Nat : y < x => << y, x >> \in Less
    BY DEF OpToRel
  <1> HIDE DEF Less
  <1>3. SUFFICES ASSUME Nat \ T # {} PROVE FALSE
    OBVIOUS
  <1>4. PICK x \in Nat \ T : \A y \in Nat \ T : ~(<< y, x >> \in Less)
    BY <1>1, <1>3, WFMin
  <1>5. x # 0 /\ x - 1 \in Nat /\ x - 1 < x
    BY <1>4
  <1>6. x - 1 \in T
    BY <1>2, <1>4, <1>5
  <1> QED
    BY <1>4, <1>5, <1>6

(* A finite set of integers has a smallest and a largest element. *)
LEMMA ExtremesExist ==
  ASSUME NEW S \in SUBSET Int, IsFiniteSet(S), S # {}
  PROVE  \E low, high \in S : \A x \in S : low <= x /\ x <= high
  <1> DEFINE T == { n \in Nat : \A U \in SUBSET Int :
                      IsFiniteSet(U) /\ Cardinality(U) = n + 1 =>
                        \E low, high \in U : \A x \in U : low <= x /\ x <= high }
  <1>1. 0 \in T
    <2>1. SUFFICES ASSUME NEW U \in SUBSET Int, IsFiniteSet(U), Cardinality(U) = 0 + 1
                   PROVE  \E low, high \in U : \A x \in U : low <= x /\ x <= high
      OBVIOUS
    <2>2. U # {}
      BY <2>1, FS_EmptySet
    <2>3. PICK y \in U : TRUE
      BY <2>2
    <2>4. IsFiniteSet(U \ {y}) /\ Cardinality(U \ {y}) = 0
      BY <2>1, <2>3, FS_RemoveElement
    <2>5. U \ {y} = {}
      BY <2>4, FS_EmptySet
    <2> QED
      BY <2>3, <2>5
  <1>2. ASSUME NEW n \in T PROVE n + 1 \in T
    <2>1. SUFFICES ASSUME NEW U \in SUBSET Int, IsFiniteSet(U), Cardinality(U) = (n + 1) + 1
                   PROVE  \E low, high \in U : \A x \in U : low <= x /\ x <= high
      OBVIOUS
    <2>2. U # {}
      BY <2>1, FS_EmptySet
    <2>3. PICK y \in U : TRUE
      BY <2>2
    <2>4. IsFiniteSet(U \ {y}) /\ Cardinality(U \ {y}) = n + 1
      BY <2>1, <2>3, FS_RemoveElement
    <2>5. PICK l, h \in U \ {y} : \A x \in U \ {y} : l <= x /\ x <= h
      BY <2>4
    <2>6. l \in Int /\ h \in Int /\ y \in Int
      BY <2>3
    <2>7. PICK low, high \in {l, h, y} : /\ low <= l /\ low <= y
                                         /\ h <= high /\ y <= high
      BY <2>6
    <2>8. \A x \in U : low <= x /\ x <= high
      BY <2>5, <2>6, <2>7
    <2> QED
      BY <2>3, <2>7, <2>8
  <1> HIDE DEF T
  <1>3. T = Nat
    BY <1>1, <1>2, SetInduction DEF T
  <1>4. Cardinality(S) \in Nat /\ Cardinality(S) # 0
    BY FS_CardinalityType, FS_EmptySet
  <1>5. Cardinality(S) - 1 \in T /\ (Cardinality(S) - 1) + 1 = Cardinality(S)
    BY <1>3, <1>4
  <1> QED
    BY <1>5 DEF T

LEMMA Extremes ==
  ASSUME NEW S \in SUBSET Int, IsFiniteSet(S), S # {}
  PROVE  /\ Min(S) \in S /\ Max(S) \in S
         /\ \A x \in S : Min(S) <= x /\ x <= Max(S)
  <1>1. PICK low, high \in S : \A x \in S : low <= x /\ x <= high
    BY ExtremesExist
  <1>2. Min(S) \in S /\ \A x \in S : Min(S) <= x
    BY <1>1 DEF Min
  <1>3. Max(S) \in S /\ \A x \in S : Max(S) >= x
    BY <1>1 DEF Max
  <1> QED
    BY <1>2, <1>3

(* Positions of a sequence are finitely many. *)
LEMMA PositionsFinite ==
  ASSUME NEW V, NEW s \in Seq(V), NEW P \in SUBSET DOMAIN s
  PROVE  IsFiniteSet(P)
  <1>1. DOMAIN s = 1..Len(s) /\ Len(s) \in Int
    OBVIOUS
  <1>2. IsFiniteSet(1..Len(s))
    BY <1>1, FS_Interval
  <1> QED
    BY <1>1, <1>2, FS_Subset

-----------------------------------------------------------------------------
(* Each place from 1 to the size of P is taken by one position of P. *)
LEMMA Places ==
  ASSUME NEW P \in SUBSET Nat, IsFiniteSet(P)
  PROVE  LET Place(k) == Cardinality({ j \in P : j <= k }) IN
         /\ \A k \in P : Place(k) \in 1..Cardinality(P)
         /\ \A k, l \in P : k < l => Place(k) < Place(l)
         /\ \A n \in 1..Cardinality(P) : \E k \in P : Place(k) = n
  <1> DEFINE UpTo(k) == { j \in P : j <= k }
  <1> DEFINE Place(k) == Cardinality(UpTo(k))
  <1>1. \A k : IsFiniteSet(UpTo(k)) /\ Place(k) \in Nat /\ Place(k) <= Cardinality(P)
    <2>1. SUFFICES ASSUME NEW k
                   PROVE  IsFiniteSet(UpTo(k)) /\ Place(k) \in Nat /\ Place(k) <= Cardinality(P)
      OBVIOUS
    <2>2. UpTo(k) \in SUBSET P
      OBVIOUS
    <2> HIDE DEF UpTo
    <2> QED
      BY <2>2, FS_Subset, FS_CardinalityType
  <1>2. Cardinality(P) \in Nat
    BY FS_CardinalityType
  <1>3. ASSUME NEW k \in P PROVE Place(k) \in 1..Cardinality(P)
    <2>1. UpTo(k) # {}
      OBVIOUS
    <2> HIDE DEF UpTo
    <2>2. Place(k) # 0
      BY <1>1, <2>1, FS_EmptySet
    <2> QED
      BY <1>1, <1>2, <2>2
  <1>4. ASSUME NEW k \in P, NEW l \in P, k < l PROVE Place(k) < Place(l)
    <2>1. UpTo(k) \in SUBSET UpTo(l) /\ UpTo(k) # UpTo(l)
      <3>1. k \in Int /\ l \in Int
        OBVIOUS
      <3>2. l \in UpTo(l) /\ l \notin UpTo(k)
        BY <1>4, <3>1
      <3>3. \A j \in UpTo(k) : j \in UpTo(l)
        BY <1>4, <3>1
      <3> QED
        BY <3>2, <3>3
    <2> HIDE DEF UpTo
    <2>2. Place(k) <= Place(l) /\ Place(k) # Place(l)
      BY <1>1, <2>1, FS_Subset
    <2> QED
      BY <1>1, <2>2
  <1>5. ASSUME NEW n \in 1..Cardinality(P) PROVE \E k \in P : Place(k) = n
    <2> DEFINE f == [k \in P |-> Place(k)]
    <2>1. f \in [P -> 1..Cardinality(P)]
      BY <1>3
    <2>2. ASSUME NEW k \in P, NEW l \in P, Place(k) = Place(l) PROVE k = l
      <3>1. k \in Int /\ l \in Int /\ Place(k) \in Int /\ Place(l) \in Int
        BY <1>1
      <3>2. k < l \/ l < k \/ k = l
        BY <3>1
      <3> HIDE DEF Place
      <3> QED
        BY <1>4, <2>2, <3>1, <3>2
    <2>3. \A k \in P : f[k] = Place(k)
      OBVIOUS
    <2>4. DOMAIN f = P
      OBVIOUS
    <2> HIDE DEF f, Place
    <2>5. f \in Injection(P, 1..Cardinality(P))
      BY <2>1, <2>2, <2>3, <2>4 DEF Injection, IsInjective
    <2>6. IsFiniteSet(1..Cardinality(P)) /\ Cardinality(1..Cardinality(P)) = Cardinality(P)
      BY <1>2, FS_Interval
    <2>7. f \in Surjection(P, 1..Cardinality(P))
      BY <2>5, <2>6, FS_Injection
    <2> QED
      BY <2>3, <2>7 DEF Surjection
  <1> QED
    BY <1>3, <1>4, <1>5

(* What Pick takes out of a sequence: the elements at these positions and no
   others, each position once, in their order. *)
LEMMA PickFacts ==
  ASSUME NEW V, NEW s \in Seq(V), NEW P \in SUBSET DOMAIN s
  PROVE  /\ Pick(s, P) \in Seq(V)
         /\ Len(Pick(s, P)) <= Len(s)
         /\ \E at \in [DOMAIN Pick(s, P) -> P] :
              /\ \A i \in DOMAIN Pick(s, P) : Pick(s, P)[i] = s[at[i]]
              /\ \A i, j \in DOMAIN Pick(s, P) : at[i] = at[j] => i = j
              /\ \A k \in P : \E i \in DOMAIN Pick(s, P) : at[i] = k
  <1> DEFINE Place(k) == Cardinality({ j \in P : j <= k })
  <1> DEFINE At(n) == CHOOSE k \in P : Place(k) = n
  <1>1. DOMAIN s = 1..Len(s) /\ Len(s) \in Nat
    OBVIOUS
  <1>2. IsFiniteSet(1..Len(s)) /\ Cardinality(1..Len(s)) = Len(s)
    <2>1. \A n \in Nat : IsFiniteSet(1..n) /\ Cardinality(1..n) = n
      BY FS_Interval
    <2> QED
      BY <1>1, <2>1
  <1>3. P \in SUBSET (1..Len(s)) /\ P \in SUBSET Nat
    BY <1>1
  <1>4. IsFiniteSet(P) /\ Cardinality(P) <= Len(s) /\ Cardinality(P) \in Nat
    BY <1>2, <1>3, FS_Subset, FS_CardinalityType
  <1>5. /\ \A k \in P : Place(k) \in 1..Cardinality(P)
        /\ \A k, l \in P : k < l => Place(k) < Place(l)
        /\ \A n \in 1..Cardinality(P) : \E k \in P : Place(k) = n
    BY <1>3, <1>4, Places
  <1>6. Pick(s, P) = [n \in 1..Cardinality(P) |-> s[At(n)]]
    BY DEF Pick
  <1> HIDE DEF Place
  <1>7. \A n \in 1..Cardinality(P) : At(n) \in P /\ Place(At(n)) = n
    BY <1>5
  <1>8. ASSUME NEW k \in P PROVE At(Place(k)) = k
    <2>1. Place(k) \in 1..Cardinality(P)
      BY <1>5
    <2>2. At(Place(k)) \in P /\ Place(At(Place(k))) = Place(k)
      BY <1>7, <2>1
    <2> HIDE DEF At
    <2>3. k \in Int /\ At(Place(k)) \in Int /\ Place(k) \in Int
      BY <1>3, <2>1, <2>2
    <2>4. k < At(Place(k)) \/ At(Place(k)) < k \/ At(Place(k)) = k
      BY <2>3
    <2> QED
      BY <1>5, <2>2, <2>3, <2>4
  <1> HIDE DEF At
  <1>9. DOMAIN Pick(s, P) = 1..Cardinality(P)
    BY <1>6
  <1>10. \A n \in 1..Cardinality(P) : Pick(s, P)[n] = s[At(n)] /\ s[At(n)] \in V
    BY <1>1, <1>3, <1>6, <1>7
  <1>11. Pick(s, P) \in [1..Cardinality(P) -> V]
    BY <1>6, <1>10
  <1>12. Pick(s, P) \in Seq(V) /\ Len(Pick(s, P)) = Cardinality(P)
    BY <1>4, <1>11
  <1> DEFINE at == [n \in 1..Cardinality(P) |-> At(n)]
  <1>13. at \in [DOMAIN Pick(s, P) -> P]
    BY <1>7, <1>9
  <1>14. \A n \in DOMAIN Pick(s, P) : Pick(s, P)[n] = s[at[n]] /\ Place(at[n]) = n
    BY <1>7, <1>9, <1>10
  <1>15. \A k \in P : \E i \in DOMAIN Pick(s, P) : at[i] = k
    BY <1>5, <1>8, <1>9
  <1> HIDE DEF at
  <1>16. \A i, j \in DOMAIN Pick(s, P) : at[i] = at[j] => i = j
    BY <1>14
  <1>17. Len(Pick(s, P)) <= Len(s)
    BY <1>4, <1>12
  <1> QED
    BY <1>12, <1>13, <1>14, <1>15, <1>16, <1>17

(* Nothing is picked twice where positions do not repeat, and all is picked. *)
LEMMA PickRange ==
  ASSUME NEW V, NEW s \in Seq(V), NEW P \in SUBSET DOMAIN s
  PROVE  /\ Range(Pick(s, P)) = { s[k] : k \in P }
         /\ (\A k, l \in P : s[k] = s[l] => k = l) => Distinct(Pick(s, P))
  <1>1. PICK at \in [DOMAIN Pick(s, P) -> P] :
              /\ \A i \in DOMAIN Pick(s, P) : Pick(s, P)[i] = s[at[i]]
              /\ \A i, j \in DOMAIN Pick(s, P) : at[i] = at[j] => i = j
              /\ \A k \in P : \E i \in DOMAIN Pick(s, P) : at[i] = k
    BY PickFacts
  <1>2. Range(Pick(s, P)) = { s[k] : k \in P }
    BY <1>1 DEF Range
  <1>3. (\A k, l \in P : s[k] = s[l] => k = l) => Distinct(Pick(s, P))
    BY <1>1 DEF Distinct
  <1> QED
    BY <1>2, <1>3

(* The first appearances are all there is, without repetitions. *)
LEMMA FirstSeenFacts ==
  ASSUME NEW V, NEW s \in Seq(V)
  PROVE  FirstSeen(s) \in Seq(V) /\ Range(FirstSeen(s)) = Range(s)
  <1> DEFINE P == { n \in DOMAIN s : \A i \in 1..(n - 1) : s[i] # s[n] }
  <1>1. P \in SUBSET DOMAIN s /\ FirstSeen(s) = Pick(s, P)
    BY DEF FirstSeen
  <1>2. DOMAIN s = 1..Len(s) /\ Len(s) \in Nat
    OBVIOUS
  <1>3. ASSUME NEW m \in DOMAIN s PROVE \E k \in P : s[k] = s[m]
    <2> DEFINE Same == { n \in DOMAIN s : s[n] = s[m] }
    <2>1. Same \in SUBSET Int /\ Same # {}
      BY <1>2
    <2>2. Same \in SUBSET (1..Len(s)) /\ IsFiniteSet(1..Len(s))
      BY <1>2, FS_Interval
    <2> HIDE DEF Same
    <2>3. IsFiniteSet(Same)
      BY <2>2, FS_Subset
    <2>4. PICK k \in Same : \A x \in Same : k <= x
      BY <2>1, <2>3, ExtremesExist
    <2>5. k \in DOMAIN s /\ k \in 1..Len(s) /\ s[k] = s[m]
      BY <1>2, <2>4 DEF Same
    <2>6. ASSUME NEW i \in 1..(k - 1) PROVE s[i] # s[k]
      <3>1. i \in DOMAIN s /\ i < k /\ i \in Int /\ k \in Int
        BY <1>2, <2>5
      <3>2. SUFFICES ASSUME s[i] = s[k] PROVE FALSE
        OBVIOUS
      <3>3. i \in Same
        BY <2>5, <3>1, <3>2 DEF Same
      <3> QED
        BY <2>4, <3>1, <3>3
    <2> QED
      BY <2>5, <2>6
  <1> HIDE DEF P
  <1>4. Pick(s, P) \in Seq(V) /\ Range(Pick(s, P)) = { s[k] : k \in P }
    BY <1>1, PickFacts, PickRange
  <1>5. { s[k] : k \in P } = Range(s)
    BY <1>1, <1>3 DEF Range
  <1> QED
    BY <1>1, <1>4, <1>5
-----------------------------------------------------------------------------
(* Arithmetic of shares *)
LEMMA TimesKeepsOrder ==
  ASSUME NEW a \in Nat, NEW x \in Nat, NEW y \in Nat, x <= y
  PROVE  a * x <= a * y /\ x * a <= y * a
  OBVIOUS

LEMMA TimesIsNat ==
  ASSUME NEW a \in Nat, NEW b \in Nat
  PROVE  a * b \in Nat /\ (a # 0 /\ b # 0 => a * b # 0)
  OBVIOUS

LEMMA RoundedRange ==
  ASSUME NEW num \in Nat, NEW den \in Nat, den # 0, num <= den
  PROVE  Rounded(num, den) \in Scores
  <1> DEFINE b == 2 * den  a == 2 * 10000 * num + den  q == a \div b
  <1>1. a \in Nat /\ b \in Nat /\ b > 0 /\ 2 * a <= 20001 * b
    OBVIOUS
  <1>2. Rounded(num, den) = q
    BY DEF Rounded
  <1> HIDE DEF a, b
  <1>3. q \in Int /\ b * q <= a /\ a < b * (q + 1)
    BY <1>1
  <1> HIDE DEF q
  <1>4. q >= 0
    BY <1>1, <1>3
  <1>5. q <= 10000
    <2>1. SUFFICES ASSUME q >= 10001 PROVE FALSE
      BY <1>3
    <2>2. b * 10001 <= b * q
      BY <1>1, <1>3, <1>4, <2>1, TimesKeepsOrder
    <2> QED
      BY <1>1, <1>3, <2>2
  <1> QED
    BY <1>2, <1>3, <1>4, <1>5 DEF Scores

(* Weighted shares over their common denominator. *)
LEMMA BlendArithmetic ==
  ASSUME NEW a \in Nat, NEW b \in Nat, a <= b, NEW c \in Nat, NEW d \in Nat, c <= d,
         NEW e \in Nat, NEW f \in Nat, e <= f
  PROVE  75 * a * d * f + 15 * c * b * f + 10 * e * b * d <= 100 * b * d * f
  <1>1. a * (d * f) <= b * (d * f)
    BY TimesIsNat, TimesKeepsOrder
  <1>2. c * (b * f) <= d * (b * f)
    BY TimesIsNat, TimesKeepsOrder
  <1>3. e * (b * d) <= f * (b * d)
    BY TimesIsNat, TimesKeepsOrder
  <1> QED
    BY <1>1, <1>2, <1>3

LEMMA BlendRange ==
  ASSUME NEW cf \in Shares, NEW popularity \in Shares, NEW affinity \in Shares
  PROVE  Blend(cf, popularity, affinity) \in Scores
  <1> DEFINE num == 75 * cf.num * popularity.den * affinity.den
                      + 15 * popularity.num * cf.den * affinity.den
                      + 10 * affinity.num * cf.den * popularity.den
             den == 100 * cf.den * popularity.den * affinity.den
  <1>1. /\ cf.num \in Nat /\ cf.den \in Nat /\ cf.num <= cf.den /\ cf.den # 0
        /\ popularity.num \in Nat /\ popularity.den \in Nat
        /\ popularity.num <= popularity.den /\ popularity.den # 0
        /\ affinity.num \in Nat /\ affinity.den \in Nat
        /\ affinity.num <= affinity.den /\ affinity.den # 0
    BY DEF Shares
  <1>2. num <= den
    BY <1>1, BlendArithmetic
  <1>3. \A x, y, z, w \in Nat : w * x * y * z \in Nat
    BY TimesIsNat
  <1>4. num \in Nat /\ den \in Nat
    BY <1>1, <1>3
  <1>5. \A x, y, z \in Nat : x # 0 /\ y # 0 /\ z # 0 => 100 * x * y * z # 0
    BY TimesIsNat
  <1>6. den # 0
    BY <1>1, <1>5
  <1>7. Blend(cf, popularity, affinity) = Rounded(num, den)
    BY DEF Blend
  <1> HIDE DEF num, den
  <1> QED
    BY <1>2, <1>4, <1>6, <1>7, RoundedRange

(* What _normalize_score_map gives is a share for each key, also of negative
   scores and when all are the same. *)
LEMMA NormalizeFacts ==
  ASSUME NEW raw, IsFiniteSet(DOMAIN raw), \A k \in DOMAIN raw : raw[k] \in Int
  PROVE  /\ DOMAIN Normalize(raw) = DOMAIN raw
         /\ \A k \in DOMAIN raw : Normalize(raw)[k] \in Shares
  <1> DEFINE low == Min(Range(raw))  high == Max(Range(raw))
  <1>1. Normalize(raw) = [k \in DOMAIN raw |-> IF low = high THEN One
                             ELSE [num |-> raw[k] - low, den |-> high - low]]
    BY DEF Normalize
  <1>2. DOMAIN Normalize(raw) = DOMAIN raw
    BY <1>1
  <1>3. ASSUME NEW k \in DOMAIN raw PROVE Normalize(raw)[k] \in Shares
    <2>1. Range(raw) \in SUBSET Int /\ Range(raw) # {} /\ raw[k] \in Range(raw)
      BY DEF Range
    <2>2. IsFiniteSet(Range(raw))
      <3> DEFINE f == [x \in DOMAIN raw |-> raw[x]]
      <3>1. f \in Surjection(DOMAIN raw, Range(raw))
        BY DEF Surjection, Range
      <3> HIDE DEF f
      <3> QED
        BY <3>1, FS_Surjection
    <2>3. low \in Int /\ high \in Int /\ low <= raw[k] /\ raw[k] <= high /\ raw[k] \in Int
      BY <2>1, <2>2, Extremes
    <2>4. Normalize(raw)[k] = IF low = high THEN One
                              ELSE [num |-> raw[k] - low, den |-> high - low]
      BY <1>1
    <2> HIDE DEF low, high
    <2>5. CASE low = high
      BY <2>4, <2>5 DEF One, Shares
    <2>6. CASE low # high
      <3>1. raw[k] - low \in Nat /\ high - low \in Nat /\ raw[k] - low <= high - low /\ high - low # 0
        BY <2>3, <2>6
      <3> QED
        BY <2>4, <2>6, <3>1 DEF Shares
    <2> QED
      BY <2>5, <2>6
  <1> QED
    BY <1>2, <1>3

LEMMA GetShare ==
  ASSUME NEW scores, NEW k, \A x \in DOMAIN scores : scores[x] \in Shares
  PROVE  Get(scores, k) \in Shares
  BY DEF Get, Zero, Shares

(* Units of at least one item are a number of at least one. *)
LEMMA UnitsFacts ==
  ASSUME NEW items \in Seq(Items), NEW S \in SUBSET DOMAIN items
  PROVE  /\ Units(items, S) \in Nat
         /\ S # {} => Units(items, S) # 0
  <1> DEFINE Of(i) == {i} \X (1..Weight(items, i))
  <1> DEFINE All == UNION { Of(i) : i \in S }
  <1>1. \A i \in DOMAIN items : Weight(items, i) \in Nat /\ Weight(items, i) >= 1
    <2>1. \A x \in Items : x.quantity \in Int
      BY RankingAssumption DEF Items
    <2>2. \A i \in DOMAIN items : items[i] \in Items
      OBVIOUS
    <2>3. \A i \in DOMAIN items : items[i].quantity \in Int
      BY <2>1, <2>2
    <2> QED
      BY <2>3 DEF Weight, AtLeast
  <1>2. \A i \in S : IsFiniteSet(Of(i))
    <2>1. SUFFICES ASSUME NEW i \in S PROVE IsFiniteSet({i} \X (1..Weight(items, i)))
      OBVIOUS
    <2>2. IsFiniteSet({i})
      BY FS_Singleton
    <2>3. Weight(items, i) \in Int
      BY <1>1
    <2>4. IsFiniteSet(1..Weight(items, i))
      BY <2>3, FS_Interval
    <2> QED
      BY <2>2, <2>4, FS_Product
  <1>3. IsFiniteSet(S)
    BY PositionsFinite
  <1>4. IsFiniteSet({ Of(i) : i \in S })
    <2> DEFINE f == [i \in S |-> Of(i)]
    <2> DEFINE T == { Of(i) : i \in S }
    <2>1. f \in Surjection(S, T)
      BY DEF Surjection
    <2> HIDE DEF f, T
    <2>2. IsFiniteSet(T)
      BY <1>3, <2>1, FS_Surjection
    <2> QED
      BY <2>2 DEF T
  <1>5. IsFiniteSet(All)
    BY <1>2, <1>4, FS_UNION
  <1>6. ASSUME S # {} PROVE All # {}
    <2>1. PICK i \in S : TRUE
      BY <1>6
    <2>2. << i, 1 >> \in Of(i)
      BY <1>1, <2>1
    <2> QED
      BY <2>1, <2>2
  <1>7. Units(items, S) = Cardinality(All)
    BY DEF Units
  <1> HIDE DEF All
  <1> QED
    BY <1>5, <1>6, <1>7, FS_CardinalityType, FS_EmptySet
-----------------------------------------------------------------------------
(* The payload of a training *)

LEMMA ItemTypes ==
  ASSUME NEW items \in Seq(Items), NEW i \in DOMAIN items
  PROVE  items[i].user \in Users /\ items[i].product \in Products /\ items[i].quantity \in Int
  <1>1. items[i] \in Items
    OBVIOUS
  <1>2. \A x \in Items : x.user \in Users /\ x.product \in Products /\ x.quantity \in Int
    BY RankingAssumption DEF Items
  <1> QED
    BY <1>1, <1>2

LEMMA ProductsOfFacts ==
  ASSUME NEW items \in Seq(Items)
  PROVE  IsFiniteSet(ProductsOf(items)) /\ ProductsOf(items) \subseteq Products
  <1> DEFINE f == [i \in DOMAIN items |-> items[i].product]
  <1>1. IsFiniteSet(DOMAIN items)
    BY PositionsFinite
  <1>2. f \in Surjection(DOMAIN items, ProductsOf(items))
    BY DEF Surjection, ProductsOf
  <1> HIDE DEF f
  <1>3. IsFiniteSet(ProductsOf(items))
    BY <1>1, <1>2, FS_Surjection
  <1>4. ProductsOf(items) \subseteq Products
    BY ItemTypes DEF ProductsOf
  <1> QED
    BY <1>3, <1>4

LEMMA MatrixFacts ==
  ASSUME NEW items \in Seq(Items)
  PROVE  /\ Matrix(items) \in [users : Seq(Users), products : Seq(Products)]
         /\ Range(Matrix(items).products) = ProductsOf(items)
  <1> DEFINE us == [i \in DOMAIN items |-> items[i].user]
             ps == [i \in DOMAIN items |-> items[i].product]
  <1>1. DOMAIN items = 1..Len(items) /\ Len(items) \in Nat
    OBVIOUS
  <1>2. us \in Seq(Users) /\ ps \in Seq(Products)
    <2>1. us \in [1..Len(items) -> Users] /\ ps \in [1..Len(items) -> Products]
      BY <1>1, ItemTypes
    <2> HIDE DEF us, ps
    <2> QED
      BY <1>1, <2>1
  <1>3. Range(ps) = ProductsOf(items)
    BY DEF Range, ProductsOf
  <1>4. Matrix(items) = [users |-> FirstSeen(us), products |-> FirstSeen(ps)]
    BY DEF Matrix
  <1> HIDE DEF us, ps
  <1>5. FirstSeen(us) \in Seq(Users)
    BY <1>2, FirstSeenFacts
  <1>6. FirstSeen(ps) \in Seq(Products) /\ Range(FirstSeen(ps)) = Range(ps)
    BY <1>2, FirstSeenFacts
  <1> QED
    BY <1>3, <1>4, <1>5, <1>6

LEMMA PopularityFacts ==
  ASSUME NEW items \in Seq(Items)
  PROVE  /\ DOMAIN Popularity(items) = ProductsOf(items)
         /\ \A p \in ProductsOf(items) : Popularity(items)[p] \in Shares
  <1> DEFINE Bought(p) == Those(items, LAMBDA x : x.product = p)
  <1> DEFINE raw == [p \in ProductsOf(items) |-> Units(items, Bought(p))]
  <1>1. Popularity(items) = Normalize(raw)
    BY DEF Popularity, ProductsOf
  <1>2. \A p : Bought(p) \in SUBSET DOMAIN items
    BY DEF Those
  <1>3. DOMAIN raw = ProductsOf(items) /\ \A p \in DOMAIN raw : raw[p] = Units(items, Bought(p))
    OBVIOUS
  <1> HIDE DEF Bought, raw
  <1>4. \A p \in DOMAIN raw : raw[p] \in Int
    BY <1>2, <1>3, UnitsFacts
  <1>5. IsFiniteSet(DOMAIN raw)
    BY <1>3, ProductsOfFacts
  <1> QED
    BY <1>1, <1>3, <1>4, <1>5, NormalizeFacts

LEMMA CategoriesOfType ==
  ASSUME NEW map \in Maps, NEW p \in Products
  PROVE  CategoriesOf(map, p) \subseteq Categories
  BY DEF Maps, CategoriesOf

(* Each share is of the user's own largest total, and that is not zero. *)
LEMMA AffinityFacts ==
  ASSUME NEW items \in Seq(Items), NEW map \in Maps, NEW u
  PROVE  \A c \in DOMAIN Affinity(items, map, u) : Affinity(items, map, u)[c] \in Shares
  <1> DEFINE mine == Those(items, LAMBDA x : x.user = u)
             known == UNION { CategoriesOf(map, items[i].product) : i \in mine }
             In(c) == { i \in mine : c \in CategoriesOf(map, items[i].product) }
             total == [c \in known |-> Units(items, In(c))]
             most == Max(Range(total))
  <1>1. Affinity(items, map, u) = [c \in known |-> [num |-> total[c], den |-> most]]
    BY DEF Affinity
  <1>2. mine \in SUBSET DOMAIN items
    BY DEF Those
  <1>3. known \in SUBSET Categories
    <2> HIDE DEF mine
    <2>1. \A i \in mine : CategoriesOf(map, items[i].product) \subseteq Categories
      BY <1>2, ItemTypes, CategoriesOfType
    <2> QED
      BY <2>1
  <1>4. IsFiniteSet(known)
    BY <1>3, RankingAssumption, FS_Subset
  <1>5. \A c \in known : In(c) \in SUBSET DOMAIN items /\ In(c) # {}
    <2> HIDE DEF mine
    <2> QED
      BY <1>2
  <1>6. DOMAIN total = known /\ \A c \in known : total[c] = Units(items, In(c))
    OBVIOUS
  <1>7. Range(total) = { total[c] : c \in known }
    BY DEF Range
  <1>8. total \in Surjection(known, Range(total))
    BY <1>6, <1>7 DEF Surjection
  <1> HIDE DEF mine, known, In, total
  <1>9. \A c \in known : total[c] \in Nat /\ total[c] # 0
    BY <1>5, <1>6, UnitsFacts
  <1>10. IsFiniteSet(Range(total)) /\ Range(total) \in SUBSET Int
    BY <1>4, <1>7, <1>8, <1>9, FS_Surjection
  <1>11. \A c \in known : /\ most \in Int /\ total[c] <= most
    <2>1. SUFFICES ASSUME NEW c \in known PROVE most \in Int /\ total[c] <= most
      OBVIOUS
    <2>2. total[c] \in Range(total)
      BY <1>7
    <2>3. most \in Range(total) /\ total[c] <= most
      BY <1>10, <2>2, Extremes
    <2> QED
      BY <1>10, <2>3
  <1> HIDE DEF most
  <1>12. \A c \in known : [num |-> total[c], den |-> most] \in Shares
    <2>1. SUFFICES ASSUME NEW c \in known PROVE [num |-> total[c], den |-> most] \in Shares
      OBVIOUS
    <2>2. total[c] \in Nat /\ most \in Nat /\ total[c] <= most /\ most # 0
      BY <1>9, <1>11
    <2> QED
      BY <2>2 DEF Shares
  <1> QED
    BY <1>1, <1>12

LEMMA CategoryAffinityShare ==
  ASSUME NEW affinity, \A c \in DOMAIN affinity : affinity[c] \in Shares,
         NEW map \in Maps, NEW p \in Products
  PROVE  CategoryAffinity(affinity, map, p) \in Shares
  <1> DEFINE both == CategoriesOf(map, p) \cap DOMAIN affinity
             shares == { affinity[c] : c \in both }
             nums == { x.num : x \in shares }
             f == [c \in both |-> affinity[c].num]
  <1>1. CategoryAffinity(affinity, map, p) =
          IF shares = {} THEN Zero ELSE CHOOSE s \in shares : \A t \in shares : s.num >= t.num
    BY DEF CategoryAffinity
  <1>2. shares \subseteq Shares
    OBVIOUS
  <1>3. CASE shares = {}
    BY <1>1, <1>3 DEF Zero, Shares
  <1>4. CASE shares # {}
    <2>1. both \in SUBSET Categories
      BY CategoriesOfType
    <2>2. IsFiniteSet(both)
      BY <2>1, RankingAssumption, FS_Subset
    <2>3. f \in Surjection(both, nums)
      BY DEF Surjection
    <2>4. nums \in SUBSET Int /\ nums # {}
      BY <1>2, <1>4 DEF Shares
    <2>5. \A h \in nums : \E s \in shares : s.num = h
      OBVIOUS
    <2>6. \A t \in shares : t.num \in nums
      OBVIOUS
    <2> HIDE DEF f, nums, both, shares
    <2>7. IsFiniteSet(nums)
      BY <2>2, <2>3, FS_Surjection
    <2>8. PICK low, high \in nums : \A x \in nums : low <= x /\ x <= high
      BY <2>4, <2>7, ExtremesExist
    <2>9. PICK s \in shares : s.num = high
      BY <2>5, <2>8
    <2>10. \A t \in shares : s.num >= t.num
      BY <2>4, <2>6, <2>8, <2>9
    <2>11. (CHOOSE x \in shares : \A t \in shares : x.num >= t.num) \in shares
      BY <2>9, <2>10
    <2> QED
      BY <1>1, <1>2, <1>4, <2>11
  <1> QED
    BY <1>3, <1>4

Readings == [step : {"popular", "categories"}, items : Seq(Items), popular : Seq(Products)]

LEMMA PayloadSound ==
  ASSUME NEW read \in Readings, Distinct(read.popular), NEW map \in Maps
  PROVE  Sound(Payload(read, map))
  <1> DEFINE items == read.items
             a == Payload(read, map)
             mine(u) == Those(items, LAMBDA x : x.user = u)
  <1>1. items \in Seq(Items) /\ read.popular \in Seq(Products)
    BY DEF Readings
  <1>2. /\ a.matrix = Matrix(items)
        /\ a.bought = [u \in Users |-> { items[i].product : i \in mine(u) }]
        /\ a.popular = read.popular
        /\ a.popularity = Popularity(items)
        /\ a.categories = map
        /\ a.affinity = [u \in Users |-> Affinity(items, map, u)]
    BY DEF Payload
  <1>3. \A u : mine(u) \subseteq DOMAIN items
    BY DEF Those
  <1> HIDE DEF mine, items, a
  <1>4. a.bought \in [Users -> SUBSET Products]
    BY <1>1, <1>2, <1>3, ItemTypes
  <1>5. \A u \in Users : \A c \in DOMAIN a.affinity[u] : a.affinity[u][c] \in Shares
    <2>1. \A u \in Users : a.affinity[u] = Affinity(items, map, u)
      BY <1>2
    <2> QED
      BY <1>1, <2>1, AffinityFacts
  <1>6. /\ a.matrix \in [users : Seq(Users), products : Seq(Products)]
        /\ Range(a.matrix.products) = ProductsOf(items)
    BY <1>1, <1>2, MatrixFacts
  <1>7. /\ DOMAIN a.popularity = ProductsOf(items)
        /\ \A p \in ProductsOf(items) : a.popularity[p] \in Shares
    BY <1>1, <1>2, PopularityFacts
  <1>8. Sound(a)
    BY <1>1, <1>2, <1>4, <1>5, <1>6, <1>7 DEF Sound
  <1> QED
    BY <1>8 DEF a
-----------------------------------------------------------------------------
(* Rankings *)
LEMMA TakeFacts ==
  ASSUME NEW V, NEW s \in Seq(V), NEW n \in Nat
  PROVE  /\ Take(s, n) \in Seq(V)
         /\ Len(Take(s, n)) <= n /\ Len(Take(s, n)) <= Len(s)
         /\ \A i \in DOMAIN Take(s, n) : i \in DOMAIN s /\ Take(s, n)[i] = s[i]
         /\ Len(Take(s, n)) < n => DOMAIN Take(s, n) = DOMAIN s
  <1> DEFINE m == IF n < Len(s) THEN n ELSE Len(s)
  <1>1. m \in Nat /\ m <= n /\ m <= Len(s) /\ (m < n => m = Len(s))
    OBVIOUS
  <1>2. Take(s, n) = SubSeq(s, 1, m)
    BY DEF Take
  <1> HIDE DEF m
  <1>3. DOMAIN s = 1..Len(s) /\ Len(s) \in Nat /\ \A i \in 1..m : i \in DOMAIN s /\ s[i] \in V
    BY <1>1
  <1>4. /\ Take(s, n) \in Seq(V)
        /\ Len(Take(s, n)) = IF 1 <= m THEN m - 1 + 1 ELSE 0
        /\ \A i \in 1..(m - 1 + 1) : Take(s, n)[i] = s[1 + i - 1]
    <2>1. m \in Int /\ \A i \in 1..m : s[i] \in V
      <3>1. \A i \in 1..m : s[i] \in V
        BY ONLY <1>3
      <3>2. m \in Int
        BY <1>1
      <3> QED
        BY ONLY <3>1, <3>2
    <2>2. /\ SubSeq(s, 1, m) \in Seq(V)
          /\ Len(SubSeq(s, 1, m)) = IF 1 <= m THEN m - 1 + 1 ELSE 0
          /\ \A i \in 1..(m - 1 + 1) : SubSeq(s, 1, m)[i] = s[1 + i - 1]
      BY ONLY <2>1, SubSeqProperties
    <2> QED
      BY <1>2, <2>2
  <1>5. Len(Take(s, n)) = m /\ \A i \in 1..m : Take(s, n)[i] = s[i]
    <2>1. m - 1 + 1 = m /\ \A i \in 1..m : 1 + i - 1 = i
      BY <1>1
    <2>2. m = IF 1 <= m THEN m ELSE 0
      BY <1>1
    <2> QED
      BY <1>4, <2>1, <2>2
  <1>6. DOMAIN Take(s, n) = 1..m
    BY <1>4, <1>5
  <1>7. \A i \in DOMAIN Take(s, n) : i \in DOMAIN s /\ Take(s, n)[i] = s[i]
    BY <1>3, <1>5, <1>6
  <1>8. Len(Take(s, n)) < n => DOMAIN Take(s, n) = DOMAIN s
    BY <1>1, <1>3, <1>5, <1>6
  <1> QED
    BY <1>1, <1>4, <1>5, <1>7, <1>8

(* What MongoDB may answer: no product twice, and all of them if the limit
   leaves room. *)
LEMMA PopularListFacts ==
  ASSUME NEW items \in Seq(Items), NEW limit \in Nat, NEW s \in PopularLists(items, limit)
  PROVE  /\ s \in Seq(Products) /\ Len(s) <= limit /\ Distinct(s)
         /\ Len(s) < limit => Range(s) = ProductsOf(items)
  <1> DEFINE S == ProductsOf(items)
             c == Cardinality(S)
  <1>1. PICK t \in SetToSeqs(S) : s = Take(t, limit)
    BY DEF PopularLists, ProductsOf
  <1>2. IsFiniteSet(S) /\ S \subseteq Products /\ c \in Nat
    BY ProductsOfFacts, FS_CardinalityType
  <1>3. t \in [1..c -> S] /\ \A i, j \in 1..c : i # j => t[i] # t[j]
    BY <1>1 DEF SetToSeqs
  <1> HIDE DEF S
  <1>4. t \in Seq(Products) /\ DOMAIN t = 1..c
    BY <1>2, <1>3
  <1>5. Distinct(t)
    BY <1>3, <1>4 DEF Distinct
  <1>6. Range(t) = S
    <2>1. t \in Injection(1..c, S)
      BY <1>3, <1>4 DEF Injection, IsInjective
    <2>2. Cardinality(1..c) = c
      BY <1>2, FS_Interval
    <2>3. t \in Surjection(1..c, S)
      BY <1>2, <2>1, <2>2, FS_Injection
    <2> QED
      BY <1>3, <1>4, <2>3 DEF Surjection, Range
  <1>7. /\ s \in Seq(Products) /\ Len(s) <= limit
        /\ \A i \in DOMAIN s : i \in DOMAIN t /\ s[i] = t[i]
        /\ Len(s) < limit => DOMAIN s = DOMAIN t
    BY <1>1, <1>4, TakeFacts
  <1>8. Distinct(s)
    BY <1>5, <1>7 DEF Distinct
  <1>9. ASSUME Len(s) < limit PROVE Range(s) = S
    BY <1>6, <1>7, <1>9 DEF Range
  <1> QED
    BY <1>7, <1>8, <1>9 DEF S

LEMMA HybridEntry ==
  ASSUME NEW a, Sound(a), NEW u \in Users, NEW p \in Products, NEW cf, cf[p] \in Shares
  PROVE  /\ Hybrid(a, u, p, cf) \in Entries
         /\ Hybrid(a, u, p, cf).product = p /\ Hybrid(a, u, p, cf).source = "hybrid"
  <1>1. Get(a.popularity, p) \in Shares
    BY GetShare DEF Sound
  <1>2. CategoryAffinity(a.affinity[u], a.categories, p) \in Shares
    BY CategoryAffinityShare DEF Sound
  <1>3. Blend(cf[p], Get(a.popularity, p), CategoryAffinity(a.affinity[u], a.categories, p)) \in Scores
    BY <1>1, <1>2, BlendRange
  <1> QED
    BY <1>3 DEF Hybrid, Entries

LEMMA FallbackEntry ==
  ASSUME NEW a, Sound(a), NEW p \in Products
  PROVE  /\ Fallback(a, p) \in Entries
         /\ Fallback(a, p).product = p /\ Fallback(a, p).source = "popular"
  <1>1. Get(a.popularity, p) \in Shares
    BY GetShare DEF Sound
  <1>2. \A x \in Shares : Rounded(x.num, x.den) \in Scores
    BY RoundedRange DEF Shares
  <1> QED
    BY <1>1, <1>2 DEF Fallback, Entries

(* The model's list: distinct products, a score for each. *)
LEMMA AlsFacts ==
  ASSUME NEW a, Sound(a), NEW u \in Users, NEW als \in AlsAnswers(a, u)
  PROVE  /\ als.ids \in Seq(Products) /\ Distinct(als.ids)
         /\ \A i \in DOMAIN als.ids : als.scores[i] \in Int
  <1> DEFINE places == DOMAIN a.matrix.products \cap DOMAIN a.matrix.users
             known == { a.matrix.products[i] : i \in places }
             Lists(n) == [ids : [1..n -> known], scores : [1..n -> RawScores]]
             f == [i \in places |-> a.matrix.products[i]]
  <1>1. a.matrix.products \in Seq(Products)
    BY DEF Sound
  <1>2. IsFiniteSet(places) /\ places \subseteq DOMAIN a.matrix.products
    BY <1>1, PositionsFinite
  <1>3. f \in Surjection(places, known)
    BY DEF Surjection
  <1>4. known \subseteq Products
    BY <1>1
  <1>5. als \in UNION { Lists(n) : n \in 0..Cardinality(known) } /\ IsInjective(als.ids)
    BY DEF AlsAnswers
  <1> HIDE DEF places, known, f
  <1>6. Cardinality(known) \in Nat
    BY <1>2, <1>3, FS_Surjection, FS_CardinalityType
  <1>7. PICK n \in 0..Cardinality(known) : als \in Lists(n)
    BY <1>5
  <1>8. n \in Nat /\ als.ids \in [1..n -> known] /\ als.scores \in [1..n -> RawScores]
    BY <1>6, <1>7
  <1>9. als.ids \in Seq(Products) /\ DOMAIN als.ids = 1..n
    BY <1>4, <1>8
  <1>10. \A i \in 1..n : als.scores[i] \in Int
    BY <1>8, RankingAssumption
  <1>11. Distinct(als.ids)
    BY <1>5 DEF Distinct, IsInjective
  <1> QED
    BY <1>9, <1>10, <1>11

LEMMA CfShare ==
  ASSUME NEW als, als.ids \in Seq(Products), \A i \in DOMAIN als.ids : als.scores[i] \in Int,
         NEW p \in Range(als.ids)
  PROVE  CfScores(als)[p] \in Shares
  <1> DEFINE at(q) == CHOOSE i \in DOMAIN als.ids : als.ids[i] = q
             raw == [q \in Range(als.ids) |-> AtLeast(als.scores[at(q)], 0)]
             f == [i \in DOMAIN als.ids |-> als.ids[i]]
  <1>1. CfScores(als) = Normalize(raw)
    BY DEF CfScores
  <1>2. \A q \in Range(als.ids) : at(q) \in DOMAIN als.ids
    BY DEF Range
  <1>3. f \in Surjection(DOMAIN als.ids, Range(als.ids))
    BY DEF Surjection, Range
  <1>4. IsFiniteSet(DOMAIN als.ids)
    BY PositionsFinite
  <1>5. DOMAIN raw = Range(als.ids) /\ \A q \in DOMAIN raw : raw[q] = AtLeast(als.scores[at(q)], 0)
    OBVIOUS
  <1> HIDE DEF at, raw, f
  <1>6. IsFiniteSet(DOMAIN raw)
    BY <1>3, <1>4, <1>5, FS_Surjection
  <1>7. \A q \in DOMAIN raw : raw[q] \in Int
    BY <1>2, <1>5 DEF AtLeast
  <1> QED
    BY <1>1, <1>5, <1>6, <1>7, NormalizeFacts

(* A list of entries, the model's first, without a product twice. *)
IsList(s) ==
    /\ s \in Seq(Entries)
    /\ \A i, j \in DOMAIN s :
         /\ s[i].product = s[j].product => i = j
         /\ s[i].source = "popular" /\ s[j].source = "hybrid" => j < i

Shown(s) == { s[i].product : i \in DOMAIN s }

(* Cut at the limit it is a ranking, and a short one has lost nothing. *)
LEMMA CutFacts ==
  ASSUME NEW s, IsList(s), NEW n \in Nat
  PROVE  /\ IsRankingOf(Take(s, n), n)
         /\ Len(Take(s, n)) < n => Shown(Take(s, n)) = Shown(s)
  <1> DEFINE t == Take(s, n)
  <1>1. /\ t \in Seq(Entries) /\ Len(t) <= n
        /\ \A i \in DOMAIN t : i \in DOMAIN s /\ t[i] = s[i]
        /\ Len(t) < n => DOMAIN t = DOMAIN s
    BY TakeFacts DEF IsList
  <1> HIDE DEF t
  <1>2. IsRankingOf(t, n)
    BY <1>1 DEF IsList, IsRankingOf
  <1>3. Len(t) < n => Shown(t) = Shown(s)
    BY <1>1 DEF Shown
  <1> QED
    BY <1>2, <1>3 DEF t

(* The model's products, then others. *)
LEMMA JoinedFacts ==
  ASSUME NEW A \in Seq(Entries), NEW B \in Seq(Entries),
         \A i \in DOMAIN A : A[i].source = "hybrid",
         \A i \in DOMAIN B : B[i].source = "popular",
         \A i, j \in DOMAIN A : A[i].product = A[j].product => i = j,
         \A i, j \in DOMAIN B : B[i].product = B[j].product => i = j,
         \A i \in DOMAIN A, j \in DOMAIN B : A[i].product # B[j].product
  PROVE  IsList(A \o B) /\ Shown(A \o B) = Shown(A) \cup Shown(B)
  <1> DEFINE s == A \o B  a == Len(A)  b == Len(B)
  <1>1. a \in Nat /\ b \in Nat /\ DOMAIN A = 1..a /\ DOMAIN B = 1..b
    OBVIOUS
  <1>2. s \in Seq(Entries) /\ DOMAIN s = 1..(a + b)
    OBVIOUS
  <1>3. \A i \in 1..a : s[i] = A[i]
    OBVIOUS
  <1>4. \A i \in (a + 1)..(a + b) : i - a \in 1..b /\ s[i] = B[i - a]
    OBVIOUS
  <1> HIDE DEF s, a, b
  <1>5. \A i \in 1..(a + b) : i \in Int /\ (i \in 1..a \/ i \in (a + 1)..(a + b))
    BY <1>1
  <1>6. \A i \in 1..a : i \in 1..(a + b)
    BY <1>1
  <1>7. \A k \in 1..b : a + k \in (a + 1)..(a + b) /\ a + k \in 1..(a + b) /\ (a + k) - a = k
    BY <1>1
  <1>8. \A i \in 1..a, k \in (a + 1)..(a + b) : i < k
    BY <1>1
  <1>9. ASSUME NEW i \in DOMAIN s, NEW j \in DOMAIN s
        PROVE  /\ s[i].product = s[j].product => i = j
               /\ s[i].source = "popular" /\ s[j].source = "hybrid" => j < i
    <2>1. CASE i \in 1..a /\ j \in 1..a
      BY <1>1, <1>3, <2>1
    <2>2. CASE i \in 1..a /\ j \in (a + 1)..(a + b)
      BY <1>1, <1>3, <1>4, <2>2
    <2>3. CASE j \in 1..a /\ i \in (a + 1)..(a + b)
      BY <1>1, <1>3, <1>4, <1>8, <2>3
    <2>4. CASE i \in (a + 1)..(a + b) /\ j \in (a + 1)..(a + b)
      <3>1. s[i] = B[i - a] /\ s[j] = B[j - a] /\ i - a \in DOMAIN B /\ j - a \in DOMAIN B
        BY <1>1, <1>4, <2>4
      <3>2. s[i].product = s[j].product => i - a = j - a
        BY <3>1
      <3>3. i - a = j - a => i = j
        BY <1>1, <2>4
      <3> QED
        BY <3>1, <3>2, <3>3
    <2> QED
      BY <1>2, <1>5, <2>1, <2>2, <2>3, <2>4
  <1>10. IsList(s)
    BY <1>2, <1>9 DEF IsList
  <1>11. Shown(s) \subseteq Shown(A) \cup Shown(B)
    <2>1. SUFFICES ASSUME NEW i \in 1..(a + b) PROVE s[i].product \in Shown(A) \cup Shown(B)
      BY <1>2 DEF Shown
    <2>2. CASE i \in 1..a
      BY <1>1, <1>3, <2>2 DEF Shown
    <2>3. CASE i \in (a + 1)..(a + b)
      BY <1>1, <1>4, <2>3 DEF Shown
    <2> QED
      BY <1>5, <2>2, <2>3
  <1>12. Shown(A) \subseteq Shown(s)
    BY <1>1, <1>2, <1>3, <1>6 DEF Shown
  <1>13. Shown(B) \subseteq Shown(s)
    <2>1. \A k \in 1..b : a + k \in DOMAIN s /\ s[a + k] = B[k]
      BY <1>2, <1>4, <1>7
    <2> QED
      BY <1>1, <2>1 DEF Shown
  <1> QED
    BY <1>10, <1>11, <1>12, <1>13 DEF s

(* Popular products, as entries. *)
Fallbacks(a, q) == [i \in DOMAIN q |-> Fallback(a, q[i])]

LEMMA FallbackList ==
  ASSUME NEW a, Sound(a), NEW q \in Seq(Products), Distinct(q)
  PROVE  LET B == Fallbacks(a, q) IN
         /\ B \in Seq(Entries) /\ DOMAIN B = DOMAIN q
         /\ \A i \in DOMAIN B : B[i].source = "popular" /\ B[i].product = q[i]
         /\ \A i, j \in DOMAIN B : B[i].product = B[j].product => i = j
         /\ Shown(B) = Range(q)
  <1> DEFINE B == Fallbacks(a, q)
  <1>1. B = [i \in DOMAIN q |-> Fallback(a, q[i])]
    BY DEF Fallbacks
  <1>2. DOMAIN q = 1..Len(q) /\ Len(q) \in Nat /\ \A i \in DOMAIN q : q[i] \in Products
    OBVIOUS
  <1> HIDE DEF B
  <1>3. DOMAIN B = DOMAIN q
    BY <1>1
  <1>4. \A i \in DOMAIN q : /\ B[i] \in Entries
                            /\ B[i].source = "popular" /\ B[i].product = q[i]
    BY <1>1, <1>2, FallbackEntry
  <1>5. B \in Seq(Entries)
    <2>1. B \in [1..Len(q) -> Entries]
      BY <1>1, <1>2, <1>4
    <2> QED
      BY <1>2, <2>1
  <1>6. \A i, j \in DOMAIN B : B[i].product = B[j].product => i = j
    BY <1>3, <1>4 DEF Distinct
  <1>7. Shown(B) = Range(q)
    BY <1>3, <1>4 DEF Shown, Range
  <1> QED
    BY <1>3, <1>4, <1>5, <1>6, <1>7 DEF B

(* The products the model ranked, as entries. *)
Hybrids(a, u, als) == [i \in DOMAIN als.ids |-> Hybrid(a, u, als.ids[i], CfScores(als))]

LEMMA HybridList ==
  ASSUME NEW a, Sound(a), NEW u \in Users, NEW als \in AlsAnswers(a, u)
  PROVE  LET A == Hybrids(a, u, als) IN
         /\ A \in Seq(Entries) /\ DOMAIN A = DOMAIN als.ids
         /\ \A i \in DOMAIN A : A[i].source = "hybrid" /\ A[i].product = als.ids[i]
         /\ \A i, j \in DOMAIN A : A[i].product = A[j].product => i = j
         /\ Shown(A) = Range(als.ids)
  <1> DEFINE A == Hybrids(a, u, als)
             q == als.ids
  <1>1. A = [i \in DOMAIN q |-> Hybrid(a, u, q[i], CfScores(als))]
    BY DEF Hybrids
  <1>2. q \in Seq(Products) /\ Distinct(q) /\ \A i \in DOMAIN q : als.scores[i] \in Int
    BY AlsFacts
  <1>3. DOMAIN q = 1..Len(q) /\ Len(q) \in Nat /\ \A i \in DOMAIN q : q[i] \in Products
    BY <1>2
  <1>4. \A i \in DOMAIN q : CfScores(als)[q[i]] \in Shares
    <2>1. \A i \in DOMAIN q : q[i] \in Range(q)
      BY DEF Range
    <2> QED
      BY <1>2, <2>1, CfShare
  <1> HIDE DEF A, q
  <1>5. DOMAIN A = DOMAIN q
    BY <1>1
  <1>6. \A i \in DOMAIN q : /\ A[i] \in Entries
                            /\ A[i].source = "hybrid" /\ A[i].product = q[i]
    BY <1>1, <1>3, <1>4, HybridEntry
  <1>7. A \in Seq(Entries)
    <2>1. A \in [1..Len(q) -> Entries]
      BY <1>1, <1>3, <1>6
    <2> QED
      BY <1>3, <2>1
  <1>8. \A i, j \in DOMAIN A : A[i].product = A[j].product => i = j
    BY <1>2, <1>5, <1>6 DEF Distinct
  <1>9. Shown(A) = Range(q)
    BY <1>5, <1>6 DEF Shown, Range
  <1> QED
    BY <1>5, <1>6, <1>7, <1>8, <1>9 DEF A, q

LEMMA ColdFacts ==
  ASSUME NEW a, Sound(a), NEW n \in Nat
  PROVE  /\ IsRankingOf(Cold(a, n), n)
         /\ Len(Cold(a, n)) < n => Shown(Cold(a, n)) = Range(a.popular)
  <1> DEFINE B == Fallbacks(a, a.popular)
  <1>1. /\ B \in Seq(Entries)
        /\ \A i \in DOMAIN B : B[i].source = "popular"
        /\ \A i, j \in DOMAIN B : B[i].product = B[j].product => i = j
        /\ Shown(B) = Range(a.popular)
    BY FallbackList DEF Sound
  <1>2. Cold(a, n) = Take(B, n)
    BY DEF Cold, MapSeq, Fallbacks
  <1> HIDE DEF B
  <1>3. IsList(B)
    BY <1>1 DEF IsList
  <1> QED
    BY <1>1, <1>2, <1>3, CutFacts

LEMMA WarmFacts ==
  ASSUME NEW a, Sound(a), NEW u \in Users, NEW als \in AlsAnswers(a, u), NEW n \in Nat
  PROVE  /\ IsRankingOf(Warm(a, u, n, als), n)
         /\ Len(Warm(a, u, n, als)) < n => Range(a.popular) \subseteq Shown(Warm(a, u, n, als))
  <1> DEFINE A == Hybrids(a, u, als)
             rest == Unseen(a.popular, als.ids)
             B == Fallbacks(a, rest)
             P == { k \in DOMAIN a.popular : a.popular[k] \notin Range(als.ids) }
  <1>1. /\ A \in Seq(Entries)
        /\ \A i \in DOMAIN A : A[i].source = "hybrid"
        /\ \A i, j \in DOMAIN A : A[i].product = A[j].product => i = j
        /\ Shown(A) = Range(als.ids)
    BY HybridList
  <1>2. a.popular \in Seq(Products) /\ Distinct(a.popular)
    BY DEF Sound
  <1>3. rest = Pick(a.popular, P) /\ P \in SUBSET DOMAIN a.popular
    BY DEF Unseen
  <1>4. \A k \in P : a.popular[k] \notin Range(als.ids)
    OBVIOUS
  <1>5. Range(a.popular) \subseteq Range(als.ids) \cup { a.popular[k] : k \in P }
    BY DEF Range
  <1> HIDE DEF P, rest
  <1>6. rest \in Seq(Products) /\ Range(rest) = { a.popular[k] : k \in P }
    BY <1>2, <1>3, PickFacts, PickRange
  <1>7. Distinct(rest)
    BY <1>2, <1>3, PickRange DEF Distinct
  <1>8. /\ B \in Seq(Entries)
        /\ \A i \in DOMAIN B : B[i].source = "popular"
        /\ \A i, j \in DOMAIN B : B[i].product = B[j].product => i = j
        /\ Shown(B) = Range(rest)
    BY <1>6, <1>7, FallbackList
  <1>9. Warm(a, u, n, als) = Take(A \o B, n)
    BY DEF Warm, MapSeq, Hybrids, Fallbacks, rest
  <1> HIDE DEF A, B
  <1>10. \A i \in DOMAIN A, j \in DOMAIN B : A[i].product # B[j].product
    <2>1. \A i \in DOMAIN A : A[i].product \in Range(als.ids)
      BY <1>1 DEF Shown
    <2>2. \A j \in DOMAIN B : B[j].product \in { a.popular[k] : k \in P }
      BY <1>6, <1>8 DEF Shown
    <2> QED
      BY <1>4, <2>1, <2>2
  <1>11. IsList(A \o B) /\ Shown(A \o B) = Shown(A) \cup Shown(B)
    BY <1>1, <1>8, <1>10, JoinedFacts
  <1>12. Range(a.popular) \subseteq Shown(A \o B)
    BY <1>1, <1>5, <1>6, <1>8, <1>11
  <1> QED
    BY <1>9, <1>11, <1>12, CutFacts

LEMMA PopularFacts ==
  ASSUME NEW items \in Seq(Items), NEW n \in Nat, NEW s \in PopularLists(items, n)
  PROVE  /\ IsRankingOf(Popular(s), n)
         /\ Len(Popular(s)) < n => Shown(Popular(s)) = ProductsOf(items)
  <1> DEFINE B == Popular(s)
  <1>1. /\ s \in Seq(Products) /\ Len(s) <= n /\ Distinct(s)
        /\ Len(s) < n => Range(s) = ProductsOf(items)
    BY PopularListFacts
  <1>2. B = [i \in DOMAIN s |-> [product |-> s[i], source |-> "popular", score |-> 0]]
    BY DEF Popular, MapSeq
  <1>3. DOMAIN s = 1..Len(s) /\ Len(s) \in Nat /\ \A i \in DOMAIN s : s[i] \in Products
    BY <1>1
  <1> HIDE DEF B
  <1>4. \A i \in DOMAIN s : B[i] \in Entries /\ B[i].product = s[i] /\ B[i].source = "popular"
    BY <1>2, <1>3 DEF Entries, Scores
  <1>5. DOMAIN B = DOMAIN s
    BY <1>2
  <1>6. B \in Seq(Entries) /\ Len(B) = Len(s)
    <2>1. B \in [1..Len(s) -> Entries]
      BY <1>2, <1>3, <1>4
    <2> QED
      BY <1>3, <2>1
  <1>7. IsRankingOf(B, n)
    BY <1>1, <1>4, <1>5, <1>6 DEF IsRankingOf, Distinct
  <1>8. Shown(B) = Range(s)
    BY <1>4, <1>5 DEF Shown, Range
  <1> QED
    BY <1>1, <1>6, <1>7, <1>8 DEF B

(* What there is to fill up with. *)
Fill == IF artifact = None THEN ProductsOf(orders) ELSE Range(artifact.popular)

LEMMA RankingsFacts ==
  ASSUME ShopInv, ArtifactInv, NEW u \in Users, NEW n \in Nat, NEW s \in Rankings(u, n)
  PROVE  IsRankingOf(s, n) /\ (Len(s) < n => Fill \subseteq Shown(s))
  <1>1. CASE artifact = None
    <2>1. PICK q \in PopularLists(orders, n) : s = Popular(q)
      BY <1>1 DEF Rankings
    <2> QED
      BY <1>1, <2>1, PopularFacts DEF ShopInv, Fill
  <1>2. CASE artifact # None
    <2>1. Sound(artifact)
      BY <1>2 DEF ArtifactInv
    <2>2. s = Cold(artifact, n) \/ \E als \in AlsAnswers(artifact, u) : s = Warm(artifact, u, n, als)
      BY <1>2 DEF Rankings
    <2>3. CASE s = Cold(artifact, n)
      BY <1>2, <2>1, <2>3, ColdFacts DEF Fill
    <2>4. CASE \E als \in AlsAnswers(artifact, u) : s = Warm(artifact, u, n, als)
      BY <1>2, <2>1, <2>4, WarmFacts DEF Fill
    <2> QED
      BY <2>2, <2>3, <2>4
  <1> QED
    BY <1>1, <1>2
-----------------------------------------------------------------------------
(* The invariant *)
LEMMA InitIInv == Init => IInv
  <1> SUFFICES ASSUME Init PROVE IInv
    OBVIOUS
  <1>1. ShopInv
    BY RankingAssumption DEF Init, ShopInv, Maps
  <1>2. TrainingInv /\ ArtifactInv /\ ServingInv
    BY DEF Init, TrainingInv, ArtifactInv, ServingInv
  <1> QED
    BY <1>1, <1>2 DEF IInv

LEMMA OrderItemKeeps ==
  ASSUME IInv, NEW item \in Items, OrderItem(item)
  PROVE  IInv'
  <1>1. ShopInv'
    BY DEF IInv, ShopInv, OrderItem
  <1>2. TrainingInv' /\ ArtifactInv' /\ ServingInv'
    BY DEF IInv, OrderItem, serving, TrainingInv, ArtifactInv, ServingInv
  <1> QED
    BY <1>1, <1>2 DEF IInv

LEMMA RemoveProductKeeps ==
  ASSUME IInv, NEW p \in Products, RemoveProduct(p)
  PROVE  IInv'
  <1>1. ShopInv'
    BY DEF IInv, ShopInv, Maps, RemoveProduct
  <1>2. TrainingInv' /\ ArtifactInv' /\ ServingInv'
    BY DEF IInv, RemoveProduct, serving, TrainingInv, ArtifactInv, ServingInv
  <1> QED
    BY <1>1, <1>2 DEF IInv

LEMMA ReadInteractionsKeeps ==
  ASSUME IInv, ReadInteractions
  PROVE  IInv'
  <1>1. training' = [step |-> "popular", items |-> orders, popular |-> << >>]
    BY DEF ReadInteractions
  <1>2. TrainingInv'
    <2>1. orders \in Seq(Items) /\ << >> \in Seq(Products)
      BY DEF IInv, ShopInv
    <2>2. training' \in Readings
      BY <1>1, <2>1 DEF Readings
    <2>3. Len(training'.popular) <= PopularSize /\ Distinct(training'.popular)
      <3>1. training'.popular = << >>
        BY <1>1
      <3>2. Len(<< >>) <= PopularSize
        BY RankingAssumption
      <3> QED
        BY <3>1, <3>2 DEF Distinct
    <2> QED
      BY <2>2, <2>3 DEF TrainingInv, Readings, Distinct
  <1>3. ShopInv' /\ ArtifactInv' /\ ServingInv'
    BY DEF IInv, ReadInteractions, shop, serving, ShopInv, ArtifactInv, ServingInv
  <1> QED
    BY <1>2, <1>3 DEF IInv

LEMMA ReadPopularKeeps ==
  ASSUME IInv, ReadPopular
  PROVE  IInv'
  <1>1. PICK s \in PopularLists(orders, PopularSize) :
          training' = [training EXCEPT !.step = "categories", !.popular = s]
    BY DEF ReadPopular
  <1>2. training \in Readings
    BY DEF IInv, TrainingInv, ReadPopular, Readings
  <1>3. s \in Seq(Products) /\ Len(s) <= PopularSize /\ Distinct(s)
    BY RankingAssumption, PopularListFacts DEF IInv, ShopInv
  <1>4. training' \in Readings /\ training'.popular = s
    BY <1>1, <1>2, <1>3 DEF Readings
  <1>5. TrainingInv'
    BY <1>3, <1>4 DEF TrainingInv, Readings, Distinct
  <1>6. ShopInv' /\ ArtifactInv' /\ ServingInv'
    BY DEF IInv, ReadPopular, shop, serving, ShopInv, ArtifactInv, ServingInv
  <1> QED
    BY <1>5, <1>6 DEF IInv

LEMMA FinishTrainingKeeps ==
  ASSUME IInv, FinishTraining
  PROVE  IInv'
  <1>1. training \in Readings /\ Distinct(training.popular) /\ shelf \in Maps
    BY DEF IInv, TrainingInv, ShopInv, FinishTraining, Readings
  <1>2. artifact' = Payload(training, shelf) /\ training' = None
    BY DEF FinishTraining
  <1>3. Sound(artifact')
    BY <1>1, <1>2, PayloadSound
  <1>4. ArtifactInv'
    BY <1>3 DEF ArtifactInv, Sound, Distinct, Range
  <1>5. TrainingInv'
    BY <1>2 DEF TrainingInv
  <1>6. ShopInv' /\ ServingInv'
    BY DEF IInv, FinishTraining, shop, serving, ShopInv, ServingInv
  <1> QED
    BY <1>4, <1>5, <1>6 DEF IInv

LEMMA TrainingRaisesKeeps ==
  ASSUME IInv, TrainingRaises
  PROVE  IInv'
  <1>1. TrainingInv'
    BY DEF TrainingRaises, TrainingInv
  <1>2. ShopInv' /\ ArtifactInv' /\ ServingInv'
    BY DEF IInv, TrainingRaises, shop, serving, ShopInv, ArtifactInv, ServingInv
  <1> QED
    BY <1>1, <1>2 DEF IInv

(* A request is answered once, so nothing was ranked before. *)
LEMMA RequestIs ==
  ASSUME NEW u \in Users, NEW n \in Limits
  PROVE  /\ [user |-> u, limit |-> n] \in [user : Users, limit : Limits]
         /\ [user |-> u, limit |-> n] # None
         /\ n \in Nat
  BY RankingAssumption

LEMMA RecommendKeeps ==
  ASSUME IInv, NEW u \in Users, NEW n \in Limits, Recommend(u, n)
  PROVE  IInv'
  <1>1. /\ request' = [user |-> u, limit |-> n]
        /\ ranked' \in Rankings(u, n)
        /\ request = None /\ answer' = answer
    BY DEF Recommend
  <1>2. answer' = None
    BY <1>1 DEF IInv, ServingInv
  <1>3. IsRankingOf(ranked', n)
    BY <1>1, RankingsFacts, RequestIs DEF IInv
  <1>4. request' \in [user : Users, limit : Limits] /\ request' # None /\ request'.limit = n
    BY <1>1, RequestIs
  <1>5. IsRankingOf(ranked', request'.limit)
    BY <1>3, <1>4
  <1>6. ServingInv'
    BY <1>2, <1>4, <1>5 DEF ServingInv, IsRankingOf
  <1>7. ShopInv' /\ TrainingInv' /\ ArtifactInv'
    BY DEF IInv, Recommend, shop, ShopInv, TrainingInv, ArtifactInv
  <1> QED
    BY <1>6, <1>7 DEF IInv

LEMMA RecommendRaisesKeeps ==
  ASSUME IInv, NEW u \in Users, NEW n \in Limits, RecommendRaises(u, n)
  PROVE  IInv'
  <1>1. /\ request' = [user |-> u, limit |-> n] /\ request = None
        /\ answer' = [status |-> 500, body |-> << >>] /\ ranked' = ranked
    BY DEF RecommendRaises
  <1>2. ranked' = None
    BY <1>1 DEF IInv, ServingInv
  <1>3. request' \in [user : Users, limit : Limits] /\ request' # None
    BY <1>1, RequestIs
  <1>4. answer'.status = 500 /\ answer'.body \in Seq(Entries)
    BY <1>1
  <1>5. ServingInv'
    BY <1>2, <1>3, <1>4 DEF ServingInv
  <1>6. ShopInv' /\ TrainingInv' /\ ArtifactInv'
    BY DEF IInv, RecommendRaises, shop, ShopInv, TrainingInv, ArtifactInv
  <1> QED
    BY <1>5, <1>6 DEF IInv

LEMMA EnrichKeeps ==
  ASSUME IInv, Enrich
  PROVE  IInv'
  <1> DEFINE P == { k \in DOMAIN ranked : shelf[ranked[k].product] # Removed }
  <1>1. /\ request \in [user : Users, limit : Limits] /\ request # None
        /\ ranked \in Seq(Entries) /\ Len(ranked) <= request.limit
    BY DEF IInv, ServingInv, IsRankingOf, Enrich
  <1>2. /\ answer' = IF ranked = << >> THEN [status |-> 404, body |-> << >>]
                     ELSE [status |-> 200, body |-> Pick(ranked, P)]
        /\ request' = request /\ ranked' = ranked
    BY DEF Enrich
  <1>3. P \in SUBSET DOMAIN ranked
    OBVIOUS
  <1> HIDE DEF P
  <1>4. Pick(ranked, P) \in Seq(Entries) /\ Len(Pick(ranked, P)) <= Len(ranked)
    BY <1>1, <1>3, PickFacts
  <1>5. /\ answer'.status \in {200, 404, 500}
        /\ answer'.body \in Seq(Entries) /\ Len(answer'.body) <= Len(ranked)
    <2>1. CASE ranked = << >>
      BY <1>2, <2>1
    <2>2. CASE ranked # << >>
      BY <1>2, <1>4, <2>2
    <2> QED
      BY <2>1, <2>2
  <1>6. Len(answer'.body) <= request.limit
    <2>1. request.limit \in Nat
      <3>1. request.limit \in Limits /\ Limits \subseteq Nat
        BY <1>1, RankingAssumption
      <3> QED
        BY <3>1
    <2>2. \A s \in Seq(Entries) : Len(s) \in Nat
      OBVIOUS
    <2>3. Len(ranked) \in Nat /\ Len(answer'.body) \in Nat
      BY <1>1, <1>5, <2>2
    <2>4. Len(ranked) <= request.limit /\ Len(answer'.body) <= Len(ranked)
      BY <1>1, <1>5
    <2> QED
      BY <2>1, <2>3, <2>4
  <1>7. ServingInv'
    BY <1>1, <1>2, <1>5, <1>6 DEF IInv, ServingInv
  <1>8. ShopInv' /\ TrainingInv' /\ ArtifactInv'
    BY DEF IInv, Enrich, shop, ShopInv, TrainingInv, ArtifactInv
  <1> QED
    BY <1>7, <1>8 DEF IInv

(* What every request, order, removal and training keeps to. *)
THEOREM InductiveInvariant == Spec => []IInv
  <1>1. ASSUME IInv, Next PROVE IInv'
    <2>1. CASE \E item \in Items : OrderItem(item)
      BY <1>1, <2>1, OrderItemKeeps
    <2>2. CASE \E p \in Products : RemoveProduct(p)
      BY <1>1, <2>2, RemoveProductKeeps
    <2>3. CASE ReadInteractions
      BY <1>1, <2>3, ReadInteractionsKeeps
    <2>4. CASE ReadPopular
      BY <1>1, <2>4, ReadPopularKeeps
    <2>5. CASE FinishTraining
      BY <1>1, <2>5, FinishTrainingKeeps
    <2>6. CASE TrainingRaises
      BY <1>1, <2>6, TrainingRaisesKeeps
    <2>7. CASE \E u \in Users, n \in Limits : Recommend(u, n)
      BY <1>1, <2>7, RecommendKeeps
    <2>8. CASE \E u \in Users, n \in Limits : RecommendRaises(u, n)
      BY <1>1, <2>8, RecommendRaisesKeeps
    <2>9. CASE Enrich
      BY <1>1, <2>9, EnrichKeeps
    <2> QED
      BY <1>1, <2>1, <2>2, <2>3, <2>4, <2>5, <2>6, <2>7, <2>8, <2>9 DEF Next
  <1>2. ASSUME IInv, UNCHANGED vars PROVE IInv'
    BY <1>2 DEF vars, IInv, ShopInv, TrainingInv, ArtifactInv, ServingInv
  <1>3. IInv /\ [Next]_vars => IInv'
    BY <1>1, <1>2
  <1> QED
    BY <1>3, InitIInv, PTL DEF Spec

LEMMA EntriesAreRanking ==
  ASSUME NEW s \in Seq(Entries)
  PROVE  IsRanking(s)
  <1>1. \A i \in DOMAIN s : s[i] \in Entries
    OBVIOUS
  <1> QED
    BY <1>1 DEF IsRanking, Entries

(* Orders, catalogue, training, artifact and answer keep their types. *)
THEOREM TypeCorrect == Spec => []TypeOK
  <1>1. ASSUME IInv PROVE TypeOK
    <2>1. training # None =>
            /\ training.step \in {"popular", "categories"}
            /\ training.items \in Seq(Items)
            /\ training.popular \in Seq(Products) /\ Len(training.popular) <= PopularSize
      BY <1>1 DEF IInv, TrainingInv
    <2>2. artifact # None =>
            /\ artifact.matrix \in [users : Seq(Users), products : Seq(Products)]
            /\ artifact.bought \in [Users -> SUBSET Products]
            /\ artifact.popular \in Seq(Products)
            /\ DOMAIN artifact.popularity = Range(artifact.matrix.products)
            /\ artifact.categories \in [Products -> (SUBSET Categories) \cup {Removed}]
      BY <1>1 DEF IInv, ArtifactInv, Sound, Maps
    <2>3. request # None => request.user \in Users /\ request.limit \in Limits
      BY <1>1 DEF IInv, ServingInv
    <2>4. ranked # None => IsRanking(ranked)
      BY <1>1, EntriesAreRanking DEF IInv, ServingInv, IsRankingOf
    <2>5. answer # None => answer.status \in {200, 404, 500} /\ IsRanking(answer.body)
      BY <1>1, EntriesAreRanking DEF IInv, ServingInv
    <2> QED
      BY <1>1, <2>1, <2>2, <2>3, <2>4, <2>5 DEF IInv, ShopInv, Maps, TypeOK
  <1> QED
    BY <1>1, InductiveInvariant, PTL

(* Every score shown lies between 0 and 1, in ten-thousandths. *)
THEOREM ScoresBetween == Spec => []ScoresInRange
  <1>1. ASSUME IInv, ranked # None, NEW i \in DOMAIN ranked PROVE ranked[i].score \in Scores
    <2>1. ranked \in Seq(Entries)
      BY <1>1 DEF IInv, ServingInv, IsRankingOf
    <2>2. ranked[i] \in Entries
      BY <2>1
    <2> QED
      BY <2>2 DEF Entries
  <1>2. IInv => ScoresInRange
    BY <1>1 DEF ScoresInRange
  <1> QED
    BY <1>2, InductiveInvariant, PTL

(* An answer keeps to its limit, repeats nothing and has the model's first. *)
THEOREM AnswersFit == Spec => []AnswerFits
  <1>1. IInv => AnswerFits
    BY DEF IInv, ServingInv, IsRankingOf, AnswerFits
  <1> QED
    BY <1>1, InductiveInvariant, PTL

(* A short ranking has all the popular products there are. *)
THEOREM FilledUp == Spec => FallbackFills
  <1> DEFINE Filled ==
        ranked = None /\ ranked' # None /\ Len(ranked') < request'.limit =>
          (IF artifact = None THEN { orders[i].product : i \in DOMAIN orders }
           ELSE Range(artifact.popular))
            \subseteq { ranked'[i].product : i \in DOMAIN ranked' }
  <1>1. ASSUME IInv, [Next]_vars, ranked = None, ranked' # None, Len(ranked') < request'.limit
        PROVE  Fill \subseteq Shown(ranked')
    <2>1. PICK u \in Users, n \in Limits : Recommend(u, n)
      BY <1>1 DEF Next, vars, OrderItem, RemoveProduct, ReadInteractions, ReadPopular,
                  FinishTraining, TrainingRaises, RecommendRaises, Enrich, serving
    <2>2. ranked' \in Rankings(u, n) /\ request'.limit = n /\ n \in Nat
      BY <2>1, RequestIs DEF Recommend
    <2>3. Len(ranked') < n
      BY <1>1, <2>2
    <2> QED
      BY <1>1, <2>2, <2>3, RankingsFacts DEF IInv
  <1>2. IInv /\ [Next]_vars => [Filled]_vars
    BY <1>1 DEF Fill, Shown, ProductsOf
  <1> QED
    BY <1>2, InductiveInvariant, PTL DEF Spec, FallbackFills
=============================================================================
