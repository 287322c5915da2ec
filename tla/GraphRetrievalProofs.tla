------------------------ MODULE GraphRetrievalProofs ------------------------
(***************************************************************************)
(* Proofs about TextWindows, RankFusion and GraphRetrieval, for every text *)
(* in which the assumptions of these modules hold, every size of window,   *)
(* chunk, overlap and radius, every graph and whatever the retrievers      *)
(* answer.                                                                 *)
(***************************************************************************)
EXTENDS GraphRetrieval, FiniteSetTheorems, WellFoundedInduction, TLAPS

-----------------------------------------------------------------------------
(* Least and greatest numbers. *)

(* A set of numbers that is not empty has a least one.                     *)
LEMMA LeastNumber ==
  ASSUME NEW S, S \subseteq Nat, S # {}
  PROVE  Min(S) \in S /\ \A m \in S : Min(S) <= m
  <1>1. PICK x \in S : \A y \in S : ~ <<y, x>> \in OpToRel(<, Nat)
    BY NatLessThanWellFounded, WFMin, Zenon
  <1>2. \A y, z \in Nat : y < z => <<y, z>> \in OpToRel(<, Nat)
    BY Zenon DEF OpToRel
  <1>3. \A y \in S : ~ y < x
    BY <1>1, <1>2, Zenon
  <1>4. \A y \in S : x <= y
    BY <1>3
  <1> QED
    BY <1>4 DEF Min

(* A set of numbers that is not empty and has a bound has a greatest one.  *)
LEMMA GreatestNumber ==
  ASSUME NEW S, S \subseteq Nat, S # {}, NEW n \in Nat, \A m \in S : m <= n
  PROVE  Max(S) \in S /\ \A m \in S : m <= Max(S)
  <1> DEFINE bounds == {b \in Nat : \A m \in S : m <= b}
             least == Min(bounds)
  <1>1. bounds \subseteq Nat /\ n \in bounds
    OBVIOUS
  <1>2. least \in bounds /\ \A b \in bounds : least <= b
    BY <1>1, LeastNumber, Zenon
  <1>3. least \in Nat /\ \A m \in S : m <= least
    BY <1>2
  <1>4. least \in S
    <2>1. SUFFICES ASSUME least \notin S PROVE FALSE
      OBVIOUS
    <2> HIDE DEF least
    <2>2. \A m \in S : m <= least - 1
      BY <1>3, <2>1
    <2>3. PICK m \in S : m \in Nat
      OBVIOUS
    <2>4. m <= least - 1
      BY <2>2
    <2>5. least - 1 \in Nat
      BY <1>3, <2>3, <2>4
    <2> QED
      BY <1>2, <1>3, <2>2, <2>5
  <1> QED
    BY <1>3, <1>4 DEF Max

(* Of two numbers. *)
LEMMA OfTwo ==
  ASSUME NEW a \in Int, NEW b \in Int
  PROVE  /\ Min({a, b}) = IF a <= b THEN a ELSE b
         /\ Max({a, b}) = IF a >= b THEN a ELSE b
  BY DEF Min, Max

-----------------------------------------------------------------------------
(* Sums. *)

(* One unit for every one that is summed up. *)
Units(f, S) == {p \in S \X Nat : p[2] < f[p[1]]}

(* One element adds its units to those of the others.                      *)
LEMMA UnitsOfOneMore ==
  ASSUME NEW f, NEW S, IsFiniteSet(Units(f, S)), NEW x, x \notin S, NEW n \in Nat, f[x] = n
  PROVE  /\ IsFiniteSet(Units(f, S \union {x}))
         /\ Cardinality(Units(f, S \union {x})) = n + Cardinality(Units(f, S))
  <1> DEFINE own == {x} \X (0..(n - 1))
  <1>1. IsFiniteSet({x}) /\ Cardinality({x}) = 1
    BY FS_Singleton, Zenon
  <1>2. IsFiniteSet(0..(n - 1)) /\ Cardinality(0..(n - 1)) = n
    <2>1. 0 \in Int /\ n - 1 \in Int
      OBVIOUS
    <2>2. /\ IsFiniteSet(0..(n - 1))
          /\ Cardinality(0..(n - 1)) = IF 0 > n - 1 THEN 0 ELSE n - 1 - 0 + 1
      BY <2>1, FS_Interval
    <2> QED
      BY <2>2
  <1>3. IsFiniteSet(own) /\ Cardinality(own) = n
    <2>1. /\ IsFiniteSet(own)
          /\ Cardinality(own) = Cardinality({x}) * Cardinality(0..(n - 1))
      BY <1>1, <1>2, FS_Product, Zenon
    <2> QED
      BY <1>1, <1>2, <2>1
  <1>4. Units(f, S \union {x}) = own \union Units(f, S)
    BY DEF Units
  <1>5. own \intersect Units(f, S) = {}
    BY DEF Units
  <1> HIDE DEF own
  <1>6. /\ IsFiniteSet(own \union Units(f, S))
        /\ Cardinality(own \union Units(f, S))
             = Cardinality(own) + Cardinality(Units(f, S))
                 - Cardinality(own \intersect Units(f, S))
    BY <1>3, FS_Union, Zenon
  <1>7. Cardinality(own \intersect Units(f, S)) = 0 /\ Cardinality(Units(f, S)) \in Nat
    BY <1>5, FS_EmptySet, FS_CardinalityType
  <1>8. Cardinality(own \union Units(f, S)) = n + Cardinality(Units(f, S))
    BY <1>3, <1>6, <1>7
  <1> QED
    BY <1>4, <1>6, <1>8, Zenon

(* A sum of finitely many numbers has that many units, and counts them.    *)
LEMMA UnitsAreFinite ==
  ASSUME NEW f, NEW S, IsFiniteSet(S), \A x \in S : f[x] \in Nat
  PROVE  IsFiniteSet(Units(f, S)) /\ Cardinality(Units(f, S)) \in Nat
  <1> DEFINE bad == {n \in Nat : \E T \in SUBSET S :
                       Cardinality(T) = n /\ ~ IsFiniteSet(Units(f, T))}
             least == Min(bad)
  <1>1. \A T \in SUBSET S : IsFiniteSet(T) /\ Cardinality(T) \in Nat
    BY FS_Subset, FS_CardinalityType
  <1>2. SUFFICES ASSUME bad # {} PROVE FALSE
    <2>1. IsFiniteSet(Units(f, S))
      BY <1>1, <1>2
    <2> QED
      BY <2>1, FS_CardinalityType
  <1>3. bad \subseteq Nat
    OBVIOUS
  <1>4. least \in bad /\ \A n \in bad : least <= n
    BY <1>2, <1>3, LeastNumber, Zenon
  <1>5. PICK T \in SUBSET S : Cardinality(T) = least /\ ~ IsFiniteSet(Units(f, T))
    BY <1>4
  <1> HIDE DEF least
  <1>6. T # {}
    <2>1. Units(f, {}) = {}
      BY DEF Units
    <2> QED
      BY <1>5, <2>1, FS_EmptySet
  <1>7. PICK x \in T : TRUE
    BY <1>6
  <1>8. Cardinality(T \ {x}) = Cardinality(T) - 1 /\ Cardinality(T \ {x}) \in Nat
    BY <1>1, <1>7, FS_RemoveElement
  <1>9. Cardinality(T \ {x}) \notin bad
    BY <1>4, <1>5, <1>8
  <1>10. IsFiniteSet(Units(f, T \ {x}))
    BY <1>8, <1>9
  <1>11. x \notin T \ {x} /\ (T \ {x}) \union {x} = T /\ f[x] \in Nat
    BY <1>7
  <1> QED
    BY <1>5, <1>10, <1>11, UnitsOfOneMore

(* A sum of finitely many numbers counts their units, in whatever order    *)
(* they are summed up.                                                     *)
LEMMA SumCounts ==
  ASSUME NEW f, NEW S, IsFiniteSet(S), \A x \in S : f[x] \in Nat
  PROVE  SumFunctionOnSet(f, S) = Cardinality(Units(f, S))
  <1> DEFINE one(s) == CHOOSE x \in s : TRUE
             body(g) == [s \in SUBSET S |->
                           IF s = {} THEN 0 ELSE f[one(s)] + g[s \ {one(s)}]]
             count == [s \in SUBSET S |-> Cardinality(Units(f, s))]
             iter == CHOOSE g : g = body(g)
             bad == {n \in Nat : \E s \in SUBSET S : Cardinality(s) = n /\ iter[s] # count[s]}
             least == Min(bad)
  <1>1. SumFunctionOnSet(f, S) = iter[S]
    BY DEF SumFunctionOnSet, FoldFunctionOnSet, MapThenFoldSet
  <1>2. \A s \in SUBSET S : s # {} => one(s) \in s
    OBVIOUS
  <1>3. \A s \in SUBSET S : IsFiniteSet(s) /\ Cardinality(s) \in Nat
    BY FS_Subset, FS_CardinalityType
  <1> HIDE DEF one
  <1>4. count[{}] = 0
    <2>1. Units(f, {}) = {}
      BY DEF Units
    <2> QED
      BY <2>1, FS_EmptySet
  <1>5. ASSUME NEW s \in SUBSET S, s # {}
        PROVE  count[s] = f[one(s)] + count[s \ {one(s)}]
    <2>1. /\ IsFiniteSet(s \ {one(s)}) /\ one(s) \in s /\ s \ {one(s)} \in SUBSET S
          /\ (s \ {one(s)}) \union {one(s)} = s /\ one(s) \notin s \ {one(s)}
          /\ f[one(s)] \in Nat
      BY <1>2, <1>3, <1>5
    <2>2. IsFiniteSet(Units(f, s \ {one(s)}))
      BY <2>1, UnitsAreFinite
    <2>3. Cardinality(Units(f, s)) = f[one(s)] + Cardinality(Units(f, s \ {one(s)}))
      BY <2>1, <2>2, UnitsOfOneMore
    <2> QED
      BY <2>1, <2>3
  <1>6. count = body(count)
    BY <1>4, <1>5
  <1>7. iter = body(iter)
    BY <1>6
  <1> HIDE DEF iter, count
  <1>8. iter[{}] = 0 /\ \A s \in SUBSET S : s # {} => iter[s] = f[one(s)] + iter[s \ {one(s)}]
    BY <1>7
  <1>9. ASSUME bad # {} PROVE FALSE
    <2>1. bad \subseteq Nat
      OBVIOUS
    <2>2. least \in bad /\ \A n \in bad : least <= n
      BY <1>9, <2>1, LeastNumber, Zenon
    <2>3. PICK s \in SUBSET S : Cardinality(s) = least /\ iter[s] # count[s]
      BY <2>2
    <2> HIDE DEF least
    <2>4. s # {}
      BY <1>4, <1>8, <2>3
    <2>5. one(s) \in s /\ s \ {one(s)} \in SUBSET S
      BY <1>2, <2>4
    <2>6. Cardinality(s \ {one(s)}) = Cardinality(s) - 1 /\ Cardinality(s \ {one(s)}) \in Nat
      BY <1>3, <2>5, FS_RemoveElement
    <2>7. Cardinality(s \ {one(s)}) \notin bad
      <3>1. Cardinality(s) \in Nat /\ ~ least <= Cardinality(s \ {one(s)})
        BY <1>3, <2>3, <2>6
      <3> QED
        BY <2>2, <3>1, Zenon
    <2>8. iter[s \ {one(s)}] = count[s \ {one(s)}]
      BY <2>5, <2>6, <2>7
    <2> QED
      BY <1>5, <1>8, <2>3, <2>4, <2>8
  <1>10. iter[S] = count[S]
    BY <1>3, <1>9
  <1> QED
    BY <1>1, <1>10 DEF count

-----------------------------------------------------------------------------
(* The best of the scored chunks. *)

Before(values, k) ==
  {j \in DOMAIN values : values[j] > values[k] \/ (values[j] = values[k] /\ j < k)}

(* Scores of finitely many chunks. *)
Scored(values) ==
  /\ IsFiniteSet(DOMAIN values)
  /\ DOMAIN values \subseteq Nat
  /\ \A k \in DOMAIN values : values[k] \in Nat

(* Of two chunks one comes before the other, and so does what is before it.*)
LEMMA BeforeIsOrder ==
  ASSUME NEW values, Scored(values), NEW j \in DOMAIN values, NEW k \in DOMAIN values
  PROVE  /\ IsFiniteSet(Before(values, k))
         /\ Cardinality(Before(values, k)) \in 0..(Cardinality(DOMAIN values) - 1)
         /\ j \in Before(values, k)
              => Cardinality(Before(values, j)) < Cardinality(Before(values, k))
         /\ Cardinality(Before(values, j)) = Cardinality(Before(values, k)) => j = k
  <1> DEFINE D == DOMAIN values
  <1>1. \A n \in D : /\ Before(values, n) \in SUBSET D /\ IsFiniteSet(Before(values, n))
                     /\ Cardinality(Before(values, n)) \in Nat
    <2>1. \A n \in D : Before(values, n) \in SUBSET D
      BY DEF Before
    <2> QED
      BY <2>1, FS_Subset, FS_CardinalityType DEF Scored
  <1>2. ASSUME NEW m \in D, NEW n \in D, m \in Before(values, n)
        PROVE  Cardinality(Before(values, m)) < Cardinality(Before(values, n))
    <2>1. Before(values, m) \in SUBSET Before(values, n) /\ m \notin Before(values, m)
      BY <1>2 DEF Before, Scored
    <2>2. /\ Cardinality(Before(values, m)) <= Cardinality(Before(values, n))
          /\ Cardinality(Before(values, m)) # Cardinality(Before(values, n))
      BY <1>1, <1>2, <2>1, FS_Subset
    <2> QED
      BY <1>1, <2>2
  <1>3. j # k => j \in Before(values, k) \/ k \in Before(values, j)
    BY DEF Before, Scored
  <1>4. Cardinality(Before(values, j)) = Cardinality(Before(values, k)) => j = k
    BY <1>1, <1>2, <1>3
  <1>5. Cardinality(Before(values, k)) <= Cardinality(D) - 1
    <2>1. k \notin Before(values, k)
      BY DEF Before, Scored
    <2>2. Before(values, k) \in SUBSET D /\ Before(values, k) # D
      BY <1>1, <2>1
    <2>3. /\ Cardinality(Before(values, k)) <= Cardinality(D)
          /\ Cardinality(Before(values, k)) # Cardinality(D)
          /\ Cardinality(D) \in Nat
      BY <2>2, FS_Subset, FS_CardinalityType DEF Scored
    <2> QED
      BY <1>1, <2>3
  <1> QED
    BY <1>1, <1>2, <1>4, <1>5

(* Every place below the number of chunks is somebody's.                   *)
LEMMA PlacesAreTaken ==
  ASSUME NEW values, Scored(values), NEW n \in 0..(Cardinality(DOMAIN values) - 1)
  PROVE  \E k \in DOMAIN values : Cardinality(Before(values, k)) = n
  <1> DEFINE D == DOMAIN values
             T == 0..(Cardinality(D) - 1)
             place == [k \in D |-> Cardinality(Before(values, k))]
  <1>1. Cardinality(D) \in Nat
    BY FS_CardinalityType DEF Scored
  <1>2. IsFiniteSet(T) /\ Cardinality(T) = Cardinality(D)
    <2>1. 0 \in Int /\ Cardinality(D) - 1 \in Int
      BY <1>1
    <2>2. /\ IsFiniteSet(T)
          /\ Cardinality(T) = IF 0 > Cardinality(D) - 1 THEN 0 ELSE Cardinality(D) - 1 - 0 + 1
      BY <2>1, FS_Interval
    <2> QED
      BY <1>1, <2>2
  <1>3. place \in Injection(D, T)
    BY BeforeIsOrder DEF Injection, IsInjective
  <1>4. place \in Surjection(D, T)
    BY <1>2, <1>3, FS_Injection
  <1> QED
    BY <1>4 DEF Surjection

(* What BestFirst returns: different chunks, as many as asked for if there *)
(* are, each one preceded by all that are better.                          *)
LEMMA BestFirstMeaning ==
  ASSUME NEW values, Scored(values), NEW limit \in Nat
  PROVE  LET best == BestFirst(values, limit)
         IN  /\ DOMAIN best = 1..Min({limit, Cardinality(DOMAIN values)})
             /\ Min({limit, Cardinality(DOMAIN values)}) \in Nat
             /\ \A p \in DOMAIN best : best[p] \in DOMAIN values
             /\ \A p, q \in DOMAIN best : best[p] = best[q] => p = q
             /\ \A p \in DOMAIN best : \A j \in Before(values, best[p]) :
                  \E q \in 1..(p - 1) : best[q] = j
  <1> DEFINE D == DOMAIN values
             best == BestFirst(values, limit)
             last == Min({limit, Cardinality(D)})
  <1>1. Cardinality(D) \in Nat /\ last \in Nat /\ last <= Cardinality(D)
    BY FS_CardinalityType, OfTwo DEF Scored
  <1>2. best = [p \in 1..last |-> CHOOSE k \in D : Cardinality(Before(values, k)) = p - 1]
    BY DEF BestFirst, Before
  <1> HIDE DEF best, last
  <1>3. ASSUME NEW p \in 1..last
        PROVE  best[p] \in D /\ Cardinality(Before(values, best[p])) = p - 1
    <2>1. p - 1 \in 0..(Cardinality(D) - 1)
      BY <1>1
    <2>2. \E k \in D : Cardinality(Before(values, k)) = p - 1
      BY <2>1, PlacesAreTaken
    <2> QED
      BY <1>2, <2>2
  <1>4. \A p, q \in 1..last : best[p] = best[q] => p = q
    BY <1>1, <1>3
  <1>5. ASSUME NEW p \in 1..last, NEW j \in Before(values, best[p])
        PROVE  \E q \in 1..(p - 1) : best[q] = j
    <2> DEFINE q == Cardinality(Before(values, j)) + 1
    <2>1. j \in D
      BY DEF Before
    <2>2. /\ Cardinality(Before(values, j)) \in Nat
          /\ Cardinality(Before(values, j)) < Cardinality(Before(values, best[p]))
      BY <1>3, <2>1, BeforeIsOrder
    <2>3. q \in 1..(p - 1) /\ q \in 1..last
      BY <1>1, <1>3, <2>2
    <2>4. best[q] \in D /\ Cardinality(Before(values, best[q])) = Cardinality(Before(values, j))
      BY <1>3, <2>2, <2>3
    <2>5. best[q] = j
      BY <2>1, <2>4, BeforeIsOrder
    <2> QED
      BY <2>3, <2>5
  <1>6. DOMAIN best = 1..last
    BY <1>2
  <1> QED
    BY <1>1, <1>3, <1>4, <1>5, <1>6 DEF best, last

-----------------------------------------------------------------------------
(* Fusion. *)

(* A sum with one summand more, or none.                                   *)
LEMMA SumOfOneMore ==
  ASSUME NEW f, NEW S, IsFiniteSet(S), \A y \in S : f[y] \in Nat,
         NEW x, x \notin S, f[x] \in Nat
  PROVE  SumFunctionOnSet(f, S \union {x}) = f[x] + SumFunctionOnSet(f, S)
  <1>1. IsFiniteSet(S \union {x}) /\ \A y \in S \union {x} : f[y] \in Nat
    BY FS_AddElement
  <1>2. /\ SumFunctionOnSet(f, S \union {x}) = Cardinality(Units(f, S \union {x}))
        /\ SumFunctionOnSet(f, S) = Cardinality(Units(f, S))
        /\ IsFiniteSet(Units(f, S))
    BY <1>1, SumCounts, UnitsAreFinite, Zenon
  <1> QED
    BY <1>2, UnitsOfOneMore

(* The sum of nothing.                                                     *)
LEMMA EmptySum ==
  ASSUME NEW f
  PROVE  SumFunctionOnSet(f, {}) = 0
  <1>1. IsFiniteSet({}) /\ Cardinality({}) = 0
    BY FS_EmptySet
  <1>2. SumFunctionOnSet(f, {}) = Cardinality(Units(f, {}))
    BY <1>1, SumCounts
  <1>3. Units(f, {}) = {}
    BY DEF Units
  <1> QED
    BY <1>1, <1>2, <1>3

(* What one retriever may return.                                          *)
Ranking(list) == list \in Seq(Nat) /\ Len(list) <= top_k /\ IsInjective(list)

(* The worth of a place. *)
Worth(rank) == ScoreUnit \div (rrf_k + rank)

(* A better place is worth more; two places anywhere are worth more than   *)
(* one, and three more than two.                                           *)
LEMMA WorthOfPlaces ==
  /\ top_k \in Nat \ {0}
  /\ \A r \in 1..top_k : Worth(r) \in Nat \ {0}
  /\ \A q, r \in 1..top_k : q < r => Worth(q) > Worth(r)
  /\ \A r \in 1..top_k : Worth(top_k) <= Worth(r) /\ Worth(r) <= Worth(1)
  /\ 2 * Worth(top_k) > Worth(1)
  /\ 3 * Worth(top_k) > 2 * Worth(1)
  <1>1. rrf_k \in Nat /\ top_k \in Nat /\ rrf_k > 0 /\ top_k > 0 /\ ScoreUnit \in Nat /\ ScoreUnit > 0
    BY ConfigAssumption, UnitAssumption
  <1>2. ASSUME NEW r \in 1..top_k
        PROVE  Worth(r) \in Nat /\ Worth(r) > 0 /\ Worth(r) * (rrf_k + r) = ScoreUnit
    <2>1. ScoreUnit % (rrf_k + r) = 0 /\ rrf_k + r \in Nat /\ rrf_k + r > 0
      BY <1>1, UnitAssumption
    <2> DEFINE d == rrf_k + r
    <2> HIDE DEF d
    <2>2. ScoreUnit = d * (ScoreUnit \div d) + (ScoreUnit % d) /\ ScoreUnit \div d \in Nat
      BY <1>1, <2>1 DEF d
    <2>3. ScoreUnit = d * (ScoreUnit \div d) /\ ScoreUnit \div d # 0
      BY <1>1, <2>1, <2>2 DEF d
    <2> DEFINE w == ScoreUnit \div d
    <2>4. w \in Nat /\ w # 0 /\ ScoreUnit = d * w /\ d \in Nat
      BY <2>1, <2>2, <2>3 DEF d
    <2> HIDE DEF w
    <2>5. w \in Nat /\ w > 0 /\ w * d = ScoreUnit
      BY <2>4
    <2> QED
      BY <2>5 DEF Worth, d, w
  <1>3. ASSUME NEW q \in 1..top_k, NEW r \in 1..top_k, q < r
        PROVE  Worth(q) > Worth(r)
    <2> DEFINE v == Worth(q)
               w == Worth(r)
    <2>1. v \in Nat /\ w \in Nat /\ w > 0 /\ v * (rrf_k + q) = w * (rrf_k + r)
      BY <1>2
    <2> HIDE DEF v, w
    <2>2. ASSUME v <= w PROVE FALSE
      <3>1. v * (rrf_k + q) <= w * (rrf_k + q)
        BY <1>1, <2>1, <2>2
      <3>2. w * (rrf_k + q) < w * (rrf_k + r)
        BY <1>1, <1>3, <2>1
      <3> QED
        BY <1>1, <2>1, <3>1, <3>2
    <2> QED
      BY <2>1, <2>2 DEF v, w
  <1>4. 1 \in 1..top_k /\ top_k \in 1..top_k
    BY <1>1
  <1>5. \A r \in 1..top_k : Worth(top_k) <= Worth(r) /\ Worth(r) <= Worth(1)
    <2> TAKE r \in 1..top_k
    <2>1. CASE r = 1 /\ r = top_k
      BY <1>2, <2>1
    <2>2. CASE r # 1 /\ r = top_k
      BY <1>1, <1>2, <1>3, <1>4, <2>2
    <2>3. CASE r = 1 /\ r # top_k
      BY <1>1, <1>2, <1>3, <1>4, <2>3
    <2>4. CASE r # 1 /\ r # top_k
      <3>1. r < top_k /\ 1 < r
        BY <1>1, <2>4
      <3>2. Worth(r) > Worth(top_k) /\ Worth(1) > Worth(r)
        BY <1>3, <1>4, <3>1
      <3> QED
        BY <1>2, <1>4, <3>2
    <2> QED
      BY <2>1, <2>2, <2>3, <2>4
  <1>6. 3 * Worth(top_k) > 2 * Worth(1)
    <2> DEFINE v == Worth(1)
               w == Worth(top_k)
    <2>1. v \in Nat /\ v > 0 /\ w \in Nat /\ v * (rrf_k + 1) = w * (rrf_k + top_k)
      BY <1>2, <1>4
    <2> HIDE DEF v, w
    <2>2. rrf_k + 3 > 2 * top_k
      BY DampingAssumption
    <2>3. ASSUME 3 * w <= 2 * v PROVE FALSE
      <3>1. (3 * w) * (rrf_k + top_k) <= (2 * v) * (rrf_k + top_k)
        BY <1>1, <2>1, <2>3
      <3>2. v * (2 * (rrf_k + top_k)) < v * (3 * (rrf_k + 1))
        BY <1>1, <2>1, <2>2
      <3> QED
        BY <1>1, <2>1, <3>1, <3>2
    <2> QED
      BY <2>1, <2>3 DEF v, w
  <1> QED
    BY <1>1, <1>2, <1>3, <1>4, <1>5, <1>6

(* The retrievers that found a chunk, its place in the list of one, and    *)
(* what the place is worth.                                                *)
Finders(ls, k) == {s \in RetrievalSource : k \in ToSet(ls[s])}
PlaceIn(ls, s, k) == CHOOSE r \in DOMAIN ls[s] : ls[s][r] = k
Share(ls, s, k) == IF k \in ToSet(ls[s]) THEN Worth(PlaceIn(ls, s, k)) ELSE 0

(* Each retriever lists a chunk at one place.                              *)
LEMMA OnePlace ==
  ASSUME NEW ls, \A s \in RetrievalSource : Ranking(ls[s]),
         NEW s \in RetrievalSource, NEW k \in ToSet(ls[s])
  PROVE  /\ PlaceIn(ls, s, k) \in DOMAIN ls[s] /\ PlaceIn(ls, s, k) \in 1..top_k
         /\ ls[s][PlaceIn(ls, s, k)] = k
         /\ \A r \in DOMAIN ls[s] : ls[s][r] = k => r = PlaceIn(ls, s, k)
  <1>1. \E r \in DOMAIN ls[s] : ls[s][r] = k
    BY DEF ToSet
  <1>2. PlaceIn(ls, s, k) \in DOMAIN ls[s] /\ ls[s][PlaceIn(ls, s, k)] = k
    BY <1>1 DEF PlaceIn
  <1>3. DOMAIN ls[s] \subseteq 1..top_k /\ IsInjective(ls[s])
    <2>1. DOMAIN ls[s] = 1..Len(ls[s]) /\ Len(ls[s]) \in Nat /\ Len(ls[s]) <= top_k /\ top_k \in Nat
      BY ConfigAssumption DEF Ranking
    <2> QED
      BY <2>1 DEF Ranking
  <1> QED
    BY <1>2, <1>3 DEF IsInjective

(* The score of a chunk is the sum of what its places are worth.           *)
LEMMA ScoreIsShares ==
  ASSUME NEW id, NEW ls, \A s \in RetrievalSource : Ranking(ls[s]), NEW k
  PROVE  /\ \A s \in RetrievalSource : Share(ls, s, k) \in Nat
         /\ rrf_score(Of(k, Stamped(id, ls)))
              = Share(ls, "SEMANTIC", k) + Share(ls, "LEXICAL", k) + Share(ls, "GRAPH", k)
  <1> DEFINE record(s) == [query_id |-> id, source |-> s, chunk |-> k, rank |-> PlaceIn(ls, s, k)]
             part(s) == IF k \in ToSet(ls[s]) THEN {record(s)} ELSE {}
             all == Of(k, Stamped(id, ls))
             f == [r \in all |-> ScoreUnit \div (rrf_k + r.rank)]
  <1>1. ASSUME NEW s \in RetrievalSource PROVE Share(ls, s, k) \in Nat
    BY OnePlace, WorthOfPlaces DEF Share
  <1>2. \A r : r \in all <=> \E s \in RetrievalSource : r \in part(s)
    <2>1. ASSUME NEW r \in all PROVE \E s \in RetrievalSource : r \in part(s)
      <3>0. PICK s \in RetrievalSource :
              \E n \in DOMAIN ls[s] : r = [query_id |-> id, source |-> s, chunk |-> ls[s][n], rank |-> n]
        BY DEF Of, Stamped
      <3>1. PICK n \in DOMAIN ls[s] : r = [query_id |-> id, source |-> s, chunk |-> ls[s][n], rank |-> n]
        BY <3>0
      <3>2. ls[s][n] = k
        BY <3>1 DEF Of
      <3>3. k \in ToSet(ls[s])
        BY <3>2 DEF ToSet
      <3>4. n = PlaceIn(ls, s, k)
        BY <3>2, <3>3, OnePlace
      <3> QED
        BY <3>1, <3>2, <3>3, <3>4
    <2>2. ASSUME NEW s \in RetrievalSource, NEW r \in part(s) PROVE r \in all
      <3>1. k \in ToSet(ls[s]) /\ r = record(s)
        BY <2>2
      <3>2. PlaceIn(ls, s, k) \in DOMAIN ls[s] /\ ls[s][PlaceIn(ls, s, k)] = k
        BY <3>1, OnePlace
      <3> QED
        BY <3>1, <3>2 DEF Of, Stamped
    <2> QED
      BY <2>1, <2>2
  <1>3. ASSUME NEW s \in RetrievalSource, NEW S, IsFiniteSet(S),
               \A r \in S : f[r] \in Nat /\ r.source # s
        PROVE  /\ IsFiniteSet(S \union part(s))
               /\ \A r \in S \union part(s) : f[r] \in Nat
               /\ SumFunctionOnSet(f, S \union part(s)) = Share(ls, s, k) + SumFunctionOnSet(f, S)
    <2>1. CASE k \notin ToSet(ls[s])
      <3>1. part(s) = {} /\ Share(ls, s, k) = 0 /\ S \union {} = S
        BY <2>1 DEF Share
      <3>2. SumFunctionOnSet(f, S) \in Nat
        BY <1>3, SumCounts, UnitsAreFinite, Zenon
      <3> HIDE DEF part, f
      <3> QED
        BY <1>3, <3>1, <3>2
    <2>2. CASE k \in ToSet(ls[s])
      <3>1. part(s) = {record(s)} /\ record(s) \in all
        BY <1>2, <2>2
      <3>2. f[record(s)] = Share(ls, s, k) /\ record(s) \notin S
        BY <1>3, <2>2, <3>1 DEF Share, Worth
      <3> HIDE DEF part, f, record
      <3>3. f[record(s)] \in Nat
        BY <1>1, <3>2
      <3>4. SumFunctionOnSet(f, S \union {record(s)}) = f[record(s)] + SumFunctionOnSet(f, S)
        BY <1>3, <3>2, <3>3, SumOfOneMore
      <3>5. IsFiniteSet(S \union {record(s)})
        BY <1>3, FS_AddElement
      <3> QED
        BY <1>3, <3>1, <3>2, <3>3, <3>4, <3>5
    <2> QED
      BY <2>1, <2>2
  <1>4. \A s : \A r \in part(s) : r.source = s
    OBVIOUS
  <1>5. SumFunctionOnSet(f, {}) = 0 /\ IsFiniteSet({})
    BY EmptySum, FS_EmptySet
  <1>6. all = (({} \union part("SEMANTIC")) \union part("LEXICAL")) \union part("GRAPH")
    BY <1>2 DEF RetrievalSource
  <1>7. rrf_score(all) = SumFunctionOnSet(f, all)
    BY DEF rrf_score, SumFunction
  <1> HIDE DEF part, f, all
  <1> DEFINE first == {} \union part("SEMANTIC")
             second == first \union part("LEXICAL")
  <1>8. /\ IsFiniteSet(first) /\ \A r \in first : f[r] \in Nat
        /\ SumFunctionOnSet(f, first) = Share(ls, "SEMANTIC", k) + 0
    BY <1>3, <1>5 DEF RetrievalSource
  <1>9. /\ IsFiniteSet(second) /\ \A r \in second : f[r] \in Nat
        /\ SumFunctionOnSet(f, second)
             = Share(ls, "LEXICAL", k) + SumFunctionOnSet(f, first)
    <2>1. \A r \in first : f[r] \in Nat /\ r.source # "LEXICAL"
      BY <1>4, <1>8
    <2> HIDE DEF first
    <2> QED
      BY <1>3, <1>8, <2>1 DEF RetrievalSource
  <1>10. SumFunctionOnSet(f, all) = Share(ls, "GRAPH", k) + SumFunctionOnSet(f, second)
    <2>1. \A r \in second : f[r] \in Nat /\ r.source # "GRAPH"
      BY <1>4, <1>9
    <2>2. all = second \union part("GRAPH")
      BY <1>6
    <2> HIDE DEF second
    <2> QED
      BY <1>3, <1>9, <2>1, <2>2 DEF RetrievalSource
  <1>11. /\ Share(ls, "SEMANTIC", k) \in Nat /\ Share(ls, "LEXICAL", k) \in Nat
         /\ Share(ls, "GRAPH", k) \in Nat
    BY <1>1 DEF RetrievalSource
  <1>12. rrf_score(all) = Share(ls, "SEMANTIC", k) + Share(ls, "LEXICAL", k) + Share(ls, "GRAPH", k)
    <2> HIDE DEF first, second
    <2> QED
      BY <1>7, <1>8, <1>9, <1>10, <1>11
  <1> QED
    BY <1>1, <1>12 DEF all

(* How many retrievers found a chunk.                                      *)
LEMMA CountingFinders ==
  ASSUME NEW ls, NEW k
  PROVE  LET one(s) == IF k \in ToSet(ls[s]) THEN 1 ELSE 0
         IN  Cardinality(Finders(ls, k)) = one("SEMANTIC") + one("LEXICAL") + one("GRAPH")
  <1> DEFINE one(s) == IF k \in ToSet(ls[s]) THEN 1 ELSE 0
             part(s) == IF k \in ToSet(ls[s]) THEN {s} ELSE {}
             first == part("SEMANTIC")
             second == first \union part("LEXICAL")
  <1>1. Finders(ls, k) = second \union part("GRAPH")
    BY DEF Finders, RetrievalSource
  <1>2. ASSUME NEW S, IsFiniteSet(S), NEW s, s \notin S
        PROVE  /\ IsFiniteSet(S \union part(s))
               /\ Cardinality(S \union part(s)) = Cardinality(S) + one(s)
    <2>1. CASE k \notin ToSet(ls[s])
      <3>1. part(s) = {} /\ one(s) = 0 /\ S \union {} = S
        BY <2>1
      <3>2. Cardinality(S) \in Nat
        BY <1>2, FS_CardinalityType
      <3> HIDE DEF part, one
      <3> QED
        BY <1>2, <3>1, <3>2
    <2>2. CASE k \in ToSet(ls[s])
      <3>1. part(s) = {s} /\ one(s) = 1
        BY <2>2
      <3> HIDE DEF part, one
      <3> QED
        BY <1>2, <3>1, FS_AddElement
    <2> QED
      BY <2>1, <2>2
  <1>3. IsFiniteSet({}) /\ Cardinality({}) = 0
    BY FS_EmptySet
  <1>4. IsFiniteSet(first) /\ Cardinality(first) = one("SEMANTIC") /\ "LEXICAL" \notin first
    <2>1. CASE k \in ToSet(ls["SEMANTIC"])
      BY <2>1, FS_Singleton
    <2>2. CASE k \notin ToSet(ls["SEMANTIC"])
      BY <2>2, <1>3
    <2> QED
      BY <2>1, <2>2
  <1>5. "GRAPH" \notin second
    OBVIOUS
  <1> HIDE DEF first, one, part
  <1>6. IsFiniteSet(second) /\ Cardinality(second) = one("SEMANTIC") + one("LEXICAL")
    BY <1>2, <1>4
  <1> HIDE DEF second
  <1>7. Cardinality(Finders(ls, k)) = one("SEMANTIC") + one("LEXICAL") + one("GRAPH")
    BY <1>1, <1>2, <1>5, <1>6
  <1> QED
    BY <1>7 DEF one

(* A chunk that more retrievers found, or the same ones all ranked above   *)
(* another one, scores more.                                               *)
LEMMA AgreementPays ==
  ASSUME NEW id, NEW ls, \A s \in RetrievalSource : Ranking(ls[s]), NEW j, NEW k,
         \/ Cardinality(Finders(ls, j)) > Cardinality(Finders(ls, k))
         \/ /\ Finders(ls, j) = Finders(ls, k) /\ Finders(ls, k) # {}
            /\ \A s \in Finders(ls, k) : PlaceIn(ls, s, j) < PlaceIn(ls, s, k)
  PROVE  rrf_score(Of(j, Stamped(id, ls))) > rrf_score(Of(k, Stamped(id, ls)))
  <1> DEFINE low == Worth(top_k)
             high == Worth(1)
             in(n, s) == n \in ToSet(ls[s])
             share(n, s) == Share(ls, s, n)
  <1>1. \A n : rrf_score(Of(n, Stamped(id, ls)))
                = share(n, "SEMANTIC") + share(n, "LEXICAL") + share(n, "GRAPH")
    BY ScoreIsShares
  <1>2. /\ low \in Nat /\ low > 0 /\ high \in Nat
        /\ 2 * low > high /\ 3 * low > 2 * high
    BY WorthOfPlaces
  <1>3. \A n : \A s \in RetrievalSource :
          /\ share(n, s) \in Nat
          /\ in(n, s) => low <= share(n, s) /\ share(n, s) <= high
          /\ ~ in(n, s) => share(n, s) = 0
    BY OnePlace, WorthOfPlaces DEF Share
  <1>4. ASSUME NEW s \in RetrievalSource, in(j, s), in(k, s), PlaceIn(ls, s, j) < PlaceIn(ls, s, k)
        PROVE  share(j, s) > share(k, s)
    BY <1>4, OnePlace, WorthOfPlaces DEF Share
  <1>5. \A n : Cardinality(Finders(ls, n))
                = (IF in(n, "SEMANTIC") THEN 1 ELSE 0) + (IF in(n, "LEXICAL") THEN 1 ELSE 0)
                    + (IF in(n, "GRAPH") THEN 1 ELSE 0)
    BY CountingFinders
  <1>6. \A n : \A s \in RetrievalSource : s \in Finders(ls, n) <=> in(n, s)
    BY DEF Finders
  <1> HIDE DEF low, high, in, share
  <1>7. {"SEMANTIC", "LEXICAL", "GRAPH"} = RetrievalSource
    BY DEF RetrievalSource
  <1>8. CASE Cardinality(Finders(ls, j)) > Cardinality(Finders(ls, k))
    <2> DEFINE c(n) == Cardinality(Finders(ls, n))
               score(n) == rrf_score(Of(n, Stamped(id, ls)))
    <2>1. ASSUME NEW n
          PROVE  /\ c(n) \in {0, 1, 2, 3} /\ score(n) \in Nat
                 /\ c(n) = 0 => score(n) = 0
                 /\ c(n) = 1 => low <= score(n) /\ score(n) <= high
                 /\ c(n) = 2 => 2 * low <= score(n) /\ score(n) <= 2 * high
                 /\ c(n) = 3 => 3 * low <= score(n)
      <3> DEFINE a == share(n, "SEMANTIC")
                 b == share(n, "LEXICAL")
                 d == share(n, "GRAPH")
      <3>1. /\ a \in Nat /\ IF in(n, "SEMANTIC") THEN low <= a /\ a <= high ELSE a = 0
            /\ b \in Nat /\ IF in(n, "LEXICAL") THEN low <= b /\ b <= high ELSE b = 0
            /\ d \in Nat /\ IF in(n, "GRAPH") THEN low <= d /\ d <= high ELSE d = 0
        BY <1>3, <1>7
      <3>2. score(n) = a + b + d
        BY <1>1
      <3>3. c(n) = (IF in(n, "SEMANTIC") THEN 1 ELSE 0) + (IF in(n, "LEXICAL") THEN 1 ELSE 0)
                     + (IF in(n, "GRAPH") THEN 1 ELSE 0)
        BY <1>5
      <3> HIDE DEF a, b, d, c, score
      <3>4. CASE in(n, "SEMANTIC")
        BY <1>2, <3>1, <3>2, <3>3, <3>4
      <3>5. CASE ~ in(n, "SEMANTIC")
        BY <1>2, <3>1, <3>2, <3>3, <3>5
      <3> QED
        BY <3>4, <3>5
    <2>2. c(j) > c(k)
      BY <1>8
    <2> HIDE DEF c, score
    <2>3. score(j) > score(k)
      BY <1>2, <2>1, <2>2
    <2> QED
      BY <2>3 DEF score
  <1>9. CASE /\ Finders(ls, j) = Finders(ls, k) /\ Finders(ls, k) # {}
             /\ \A s \in Finders(ls, k) : PlaceIn(ls, s, j) < PlaceIn(ls, s, k)
    <2>1. \A s \in RetrievalSource : /\ in(j, s) => share(j, s) > share(k, s)
                                     /\ ~ in(j, s) => share(j, s) = 0 /\ share(k, s) = 0
      BY <1>3, <1>4, <1>6, <1>9
    <2>2. \E s \in RetrievalSource : in(j, s)
      BY <1>6, <1>9 DEF Finders
    <2> QED
      BY <1>1, <1>3, <1>7, <2>1, <2>2
  <1> QED
    BY <1>8, <1>9

(* The members of a list are finitely many numbers.                        *)
LEMMA MembersOfRanking ==
  ASSUME NEW list, Ranking(list)
  PROVE  ToSet(list) \subseteq Nat /\ IsFiniteSet(ToSet(list))
  <1>1. DOMAIN list = 1..Len(list) /\ Len(list) \in Nat /\ list \in [1..Len(list) -> Nat]
    BY DEF Ranking
  <1>2. list \in Surjection(1..Len(list), ToSet(list))
    BY <1>1 DEF Surjection, ToSet
  <1>3. IsFiniteSet(1..Len(list))
    BY <1>1, FS_Interval
  <1>4. IsFiniteSet(ToSet(list))
    BY <1>2, <1>3, FS_Surjection
  <1> QED
    BY <1>1, <1>4 DEF ToSet

(* What was found, and the scores of it.                                   *)
LEMMA FoundIsScored ==
  ASSUME NEW id, NEW ls, \A s \in RetrievalSource : Ranking(ls[s])
  PROVE  /\ Found(Stamped(id, ls)) = UNION {ToSet(ls[s]) : s \in RetrievalSource}
         /\ Scored([k \in Found(Stamped(id, ls)) |-> rrf_score(Of(k, Stamped(id, ls)))])
  <1> DEFINE found == UNION {ToSet(ls[s]) : s \in RetrievalSource}
             values == [k \in Found(Stamped(id, ls)) |-> rrf_score(Of(k, Stamped(id, ls)))]
  <1>1. \A k : k \in Found(Stamped(id, ls))
                 <=> \E s \in RetrievalSource : \E r \in DOMAIN ls[s] : k = ls[s][r]
    <2> TAKE k
    <2>1. ASSUME k \in Found(Stamped(id, ls))
          PROVE  \E s \in RetrievalSource : \E r \in DOMAIN ls[s] : k = ls[s][r]
      BY <2>1 DEF Found, Stamped
    <2>2. ASSUME NEW s \in RetrievalSource, NEW r \in DOMAIN ls[s], k = ls[s][r]
          PROVE  k \in Found(Stamped(id, ls))
      <3>1. [query_id |-> id, source |-> s, chunk |-> ls[s][r], rank |-> r] \in Stamped(id, ls)
        BY DEF Stamped
      <3>2. [query_id |-> id, source |-> s, chunk |-> ls[s][r], rank |-> r].chunk = k
        BY <2>2
      <3> QED
        BY <3>1, <3>2 DEF Found
    <2> QED
      BY <2>1, <2>2
  <1>2. Found(Stamped(id, ls)) = found
    BY <1>1 DEF ToSet
  <1>3. found = (ToSet(ls["SEMANTIC"]) \union ToSet(ls["LEXICAL"])) \union ToSet(ls["GRAPH"])
    BY DEF RetrievalSource
  <1>4. \A s \in {"SEMANTIC", "LEXICAL", "GRAPH"} :
          ToSet(ls[s]) \subseteq Nat /\ IsFiniteSet(ToSet(ls[s]))
    BY MembersOfRanking DEF RetrievalSource
  <1>5. IsFiniteSet(found) /\ found \subseteq Nat
    <2> HIDE DEF found
    <2>1. IsFiniteSet(ToSet(ls["SEMANTIC"]) \union ToSet(ls["LEXICAL"]))
      BY <1>4, FS_Union
    <2>2. IsFiniteSet((ToSet(ls["SEMANTIC"]) \union ToSet(ls["LEXICAL"])) \union ToSet(ls["GRAPH"]))
      BY <1>4, <2>1, FS_Union
    <2> QED
      BY <1>3, <1>4, <2>2
  <1>6. \A k : rrf_score(Of(k, Stamped(id, ls))) \in Nat
    <2> TAKE k
    <2>1. /\ Share(ls, "SEMANTIC", k) \in Nat /\ Share(ls, "LEXICAL", k) \in Nat
          /\ Share(ls, "GRAPH", k) \in Nat
      BY ScoreIsShares DEF RetrievalSource
    <2> QED
      BY <2>1, ScoreIsShares
  <1> HIDE DEF found
  <1>7. Scored(values)
    BY <1>2, <1>5, <1>6 DEF Scored
  <1> QED
    BY <1>2, <1>7 DEF found

(* The fused evidence rewards agreement, whatever the three lists are.     *)
LEMMA FusedByAgreement ==
  ASSUME \A s \in RetrievalSource : Ranking(lists[s]),
         NEW id, fused = fuse_evidence(Stamped(id, lists))
  PROVE  FusionRewardsAgreement
  <1> DEFINE finders(k) == {s \in RetrievalSource : k \in ToSet(lists[s])}
             rank(s, k) == CHOOSE r \in DOMAIN lists[s] : lists[s][r] = k
             better(j, k) ==
               \/ Cardinality(finders(j)) > Cardinality(finders(k))
               \/ /\ finders(j) = finders(k)
                  /\ \A s \in finders(k) : rank(s, j) < rank(s, k)
             found == UNION {ToSet(lists[s]) : s \in RetrievalSource}
             kept == {f.chunk : f \in ToSet(fused)}
             E == Stamped(id, lists)
             values == [k \in Found(E) |-> rrf_score(Of(k, E))]
             best == BestFirst(values, top_k_fused)
             last == Min({top_k_fused, Cardinality(found)})
             sources(k) == {record.source : record \in Of(k, E)}
  <1>1. Found(E) = found /\ Scored(values) /\ DOMAIN values = found
    BY FoundIsScored
  <1>2. top_k_fused \in Nat
    BY ConfigAssumption
  <1>3. /\ DOMAIN best = 1..last /\ last \in Nat
        /\ \A p \in 1..last : best[p] \in found
        /\ \A p, q \in 1..last : best[p] = best[q] => p = q
        /\ \A p \in 1..last : \A j \in Before(values, best[p]) :
             \E q \in 1..(p - 1) : best[q] = j
    <2>1. last = Min({top_k_fused, Cardinality(DOMAIN values)})
      BY <1>1
    <2> HIDE DEF values, found, last
    <2>2. /\ DOMAIN best = 1..Min({top_k_fused, Cardinality(DOMAIN values)})
          /\ Min({top_k_fused, Cardinality(DOMAIN values)}) \in Nat
          /\ \A p \in DOMAIN best : best[p] \in DOMAIN values
          /\ \A p, q \in DOMAIN best : best[p] = best[q] => p = q
          /\ \A p \in DOMAIN best : \A j \in Before(values, best[p]) :
               \E q \in 1..(p - 1) : best[q] = j
      BY <1>1, <1>2, BestFirstMeaning, Zenon
    <2> HIDE DEF best
    <2> QED
      BY <1>1, <2>1, <2>2
  <1>4. fused = [p \in 1..last |->
                   [chunk |-> best[p], contributing_sources |-> sources(best[p])]]
    <2>1. fused = [p \in DOMAIN best |->
                     [chunk |-> best[p], contributing_sources |-> sources(best[p])]]
      BY DEF fuse_evidence
    <2> HIDE DEF best, sources
    <2> QED
      BY <1>3, <2>1
  <1>5. \A j, k \in found : better(j, k) => j \in Before(values, k)
    <2> TAKE j, k \in found
    <2> HAVE better(j, k)
    <2>1. \A n : finders(n) = Finders(lists, n)
      BY DEF Finders
    <2>2. \A s, n : rank(s, n) = PlaceIn(lists, s, n)
      BY DEF PlaceIn
    <2>3. finders(k) # {}
      OBVIOUS
    <2>4. rrf_score(Of(j, E)) > rrf_score(Of(k, E))
      <3> HIDE DEF finders, rank
      <3> QED
        BY <2>1, <2>2, <2>3, AgreementPays
    <2>5. values[j] > values[k] /\ j \in DOMAIN values
      BY <1>1, <2>4
    <2> QED
      BY <2>5 DEF Before
  <1>6. \A k : sources(k) = finders(k)
    <2> TAKE k
    <2>1. ASSUME NEW s \in sources(k) PROVE s \in finders(k)
      <3>1. PICK t \in RetrievalSource :
              \E r \in DOMAIN lists[t] : s = t /\ lists[t][r] = k
        BY DEF Of, Stamped
      <3> QED
        BY <3>1 DEF ToSet
    <2>2. ASSUME NEW s \in finders(k) PROVE s \in sources(k)
      <3>1. PICK r \in DOMAIN lists[s] : lists[s][r] = k
        BY DEF ToSet
      <3>2. [query_id |-> id, source |-> s, chunk |-> k, rank |-> r] \in Of(k, E)
        BY <3>1 DEF Of, Stamped
      <3>3. [query_id |-> id, source |-> s, chunk |-> k, rank |-> r].source = s
        OBVIOUS
      <3> HIDE DEF E
      <3> QED
        BY <3>2, <3>3
    <2> HIDE DEF sources, finders
    <2> QED
      BY <2>1, <2>2
  <1> HIDE DEF E, values, best, last, finders, found, sources
  <1>7. /\ DOMAIN fused = 1..last /\ fused \in Seq({fused[p] : p \in 1..last}) /\ Len(fused) = last
    BY <1>3, <1>4
  <1>8. \A p \in 1..last : /\ fused[p].chunk = best[p]
                           /\ fused[p].contributing_sources = finders(best[p])
    BY <1>4, <1>6
  <1>9. kept = {best[p] : p \in 1..last}
    BY <1>7, <1>8 DEF ToSet
  <1>10. Cardinality(kept) = last
    <2> DEFINE place == [p \in 1..last |-> best[p]]
    <2>1. place \in Injection(1..last, kept) /\ place \in Surjection(1..last, kept)
      BY <1>3, <1>9 DEF Injection, Surjection, IsInjective
    <2>2. ExistsBijection(1..last, kept)
      BY <2>1 DEF ExistsBijection, Bijection
    <2> QED
      BY <1>3, <2>2, FS_CountingElements
  <1>11. kept \subseteq found
    BY <1>3, <1>9
  <1>12. \A p \in DOMAIN fused : \A j \in found :
           better(j, fused[p].chunk) => \E q \in 1..(p - 1) : fused[q].chunk = j
    <2> TAKE p \in DOMAIN fused
    <2> TAKE j \in found
    <2> HAVE better(j, fused[p].chunk)
    <2> HIDE DEF better
    <2>1. p \in 1..last /\ better(j, best[p]) /\ best[p] \in found
      <3>1. p \in 1..last
        BY <1>7
      <3>2. fused[p].chunk = best[p] /\ best[p] \in found
        BY <1>3, <1>8, <3>1
      <3> QED
        BY <3>1, <3>2
    <2>2. PICK q \in 1..(p - 1) : best[q] = j
      BY <1>3, <1>5, <2>1
    <2>3. q \in 1..last
      BY <1>3, <2>1
    <2> QED
      BY <1>8, <2>2, <2>3
  <1>13. graph_only(fused) = {k \in kept : finders(k) = {"GRAPH"}}
    <2>1. ASSUME NEW k
          PROVE  k \in graph_only(fused)
                   <=> \E p \in 1..last : k = best[p] /\ finders(k) = {"GRAPH"}
      <3>1. k \in graph_only(fused)
              <=> \E p \in DOMAIN fused : /\ fused[p].contributing_sources = {"GRAPH"}
                                         /\ k = fused[p].chunk
        BY DEF graph_only
      <3> QED
        BY <1>7, <1>8, <3>1
    <2>2. \A k : k \in kept <=> \E p \in 1..last : k = best[p]
      BY <1>9
    <2> HIDE DEF kept
    <2> QED
      BY <2>1, <2>2
  <1> QED
    BY <1>7, <1>10, <1>11, <1>12, <1>13 DEF FusionRewardsAgreement, finders, found, last

-----------------------------------------------------------------------------
(* Texts and their chapters. *)

(* A token is its word and white space.                                    *)
LEMMA WordOffsets ==
  ASSUME NEW t \in Texts
  PROVE  /\ Len(t.words) \in Nat /\ Len(t.words) > 0 /\ DOMAIN t.words = 1..Len(t.words)
         /\ t.words \in Seq(ToSet(t.words))
         /\ \A i \in 0..Len(t.words) : t.at[i] \in Nat
         /\ \A i \in 1..Len(t.words) :
              /\ t.words[i] \in Seq(ToSet(t.words[i])) /\ DOMAIN t.words[i] = 1..Len(t.words[i])
              /\ Len(t.words[i]) \in Nat /\ Len(t.words[i]) > 0
              /\ Blank(t, i) \in Nat /\ Blank(t, i) > 0
              /\ i - 1 \in 0..Len(t.words) /\ i \in 0..Len(t.words)
              /\ t.at[i] = t.at[i - 1] + Len(t.words[i]) + Blank(t, i)
  <1>1. Wording(t.words) /\ t.at \in [0..Len(t.words) -> Nat]
    BY TextAssumption
  <1>2. t.words \in Seq(ToSet(t.words)) /\ t.words # <<>>
    BY <1>1 DEF Wording
  <1>3. /\ Len(t.words) \in Nat /\ Len(t.words) > 0 /\ DOMAIN t.words = 1..Len(t.words)
    BY <1>2
  <1>4. ASSUME NEW i \in 1..Len(t.words)
        PROVE  /\ t.words[i] \in Seq(ToSet(t.words[i])) /\ DOMAIN t.words[i] = 1..Len(t.words[i])
               /\ Len(t.words[i]) \in Nat /\ Len(t.words[i]) > 0
    <2>1. t.words[i] \in Seq(ToSet(t.words[i])) /\ t.words[i] # <<>>
      BY <1>1, <1>3 DEF Wording
    <2> QED
      BY <2>1
  <1>5. ASSUME NEW i \in 1..Len(t.words) PROVE Blank(t, i) \in Nat /\ Blank(t, i) > 0
    BY SegmentationAssumption DEF Blank
  <1>6. \A i \in 1..Len(t.words) : t.at[i] = t.at[i - 1] + Len(t.words[i]) + Blank(t, i)
    BY TextAssumption
  <1>7. \A i \in 1..Len(t.words) : i - 1 \in 0..Len(t.words) /\ i \in 0..Len(t.words)
    BY <1>3
  <1>8. \A i \in 0..Len(t.words) : t.at[i] \in Nat
    BY <1>1
  <1> QED
    BY <1>2, <1>3, <1>4, <1>5, <1>6, <1>7, <1>8, Zenon

(* Later tokens end later, and a text is not empty.                        *)
LEMMA Offsets ==
  ASSUME NEW t \in Texts
  PROVE  /\ Len(t.words) \in Nat /\ Len(t.words) > 0 /\ DOMAIN t.words = 1..Len(t.words)
         /\ \A i \in 0..Len(t.words) : t.at[i] \in Nat
         /\ \A i, j \in 0..Len(t.words) : i < j => t.at[i] < t.at[j]
         /\ \A i, j \in 0..Len(t.words) : t.at[i] < t.at[j] => i < j
  <1>1. /\ Len(t.words) \in Nat /\ Len(t.words) > 0 /\ DOMAIN t.words = 1..Len(t.words)
        /\ \A i \in 0..Len(t.words) : t.at[i] \in Nat
    BY WordOffsets
  <1>2. \A i \in 1..Len(t.words) : t.at[i - 1] < t.at[i]
    <2> TAKE i \in 1..Len(t.words)
    <2> DEFINE a == t.at[i - 1]
               l == Len(t.words[i])
               b == Blank(t, i)
    <2>1. a \in Nat /\ l \in Nat /\ l > 0 /\ b \in Nat /\ t.at[i] = a + l + b
      BY WordOffsets
    <2> HIDE DEF a, l, b
    <2>2. a < t.at[i]
      BY <2>1
    <2> QED
      BY <2>2 DEF a
  <1>3. ASSUME NEW i \in 0..Len(t.words), NEW j \in 0..Len(t.words), i < j, ~ t.at[i] < t.at[j]
        PROVE  FALSE
    <2> DEFINE bad == {n \in Nat : n \in 0..Len(t.words) /\ i < n /\ ~ t.at[i] < t.at[n]}
               least == Min(bad)
    <2>1. bad \subseteq Nat /\ bad # {}
      BY <1>1, <1>3
    <2>2. least \in bad /\ \A n \in bad : least <= n
      BY <2>1, LeastNumber, Zenon
    <2> HIDE DEF least
    <2>3. /\ least \in Nat /\ least \in 1..Len(t.words) /\ i < least /\ ~ t.at[i] < t.at[least]
          /\ least - 1 \in 0..Len(t.words)
      BY <1>1, <2>2
    <2>4. least - 1 \notin bad
      <3>1. ~ least <= least - 1
        BY <2>3
      <3> QED
        BY <2>2, <3>1, Zenon
    <2>5. i = least - 1 \/ t.at[i] < t.at[least - 1]
      BY <1>1, <2>3, <2>4
    <2>6. t.at[least - 1] < t.at[least]
      BY <1>2, <2>3
    <2> QED
      BY <1>1, <2>3, <2>5, <2>6
  <1>4. \A i, j \in 0..Len(t.words) : i < j => t.at[i] < t.at[j]
    BY <1>3
  <1>5. \A i, j \in 0..Len(t.words) : t.at[i] < t.at[j] => i < j
    <2> TAKE i, j \in 0..Len(t.words)
    <2>1. i < j \/ i = j \/ j < i
      BY <1>1
    <2> QED
      BY <1>1, <1>4, <2>1
  <1> QED
    BY <1>1, <1>4, <1>5

(* Spans that follow each other, none empty. *)
Divided(spans, total) ==
  /\ spans \in Seq(Nat \X Nat)
  /\ \A c \in 1..Len(spans) : /\ spans[c][1] < spans[c][2] /\ spans[c][2] <= total
                              /\ c > 1 => spans[c - 1][2] = spans[c][1]

(* The headings that were chosen lie in the text, in its order.            *)
LEMMA HeadingsInOrder ==
  ASSUME text \in Texts
  PROVE  /\ ChapterHeadings \in Seq(0..(TotalTokens - 1))
         /\ \A i, j \in 1..Len(ChapterHeadings) :
              i < j => ChapterHeadings[i] < ChapterHeadings[j]
  <1> DEFINE enough == {p \in DOMAIN text.headings : Len(text.headings[p]) >= MIN_CHAPTERS}
  <1>1. text.headings \in Seq(Seq(0..(TotalTokens - 1)))
    BY TextAssumption DEF TotalTokens
  <1>2. CASE enough = {}
    <2>1. ChapterHeadings = <<>>
      BY <1>2 DEF ChapterHeadings
    <2> QED
      BY <2>1
  <1>3. CASE enough # {}
    <2>1. enough \subseteq DOMAIN text.headings /\ enough \subseteq Nat
      BY <1>1
    <2>2. Min(enough) \in DOMAIN text.headings
      BY <1>3, <2>1, LeastNumber, Zenon
    <2>3. ChapterHeadings = text.headings[Min(enough)]
      BY <1>3 DEF ChapterHeadings
    <2> HIDE DEF enough
    <2>4. ChapterHeadings \in Seq(0..(TotalTokens - 1))
      BY <1>1, <2>2, <2>3
    <2>5. DOMAIN ChapterHeadings = 1..Len(ChapterHeadings)
      BY <2>4
    <2>6. \A i, j \in DOMAIN ChapterHeadings : i < j => ChapterHeadings[i] < ChapterHeadings[j]
      BY <2>2, <2>3, TextAssumption
    <2> QED
      BY <2>4, <2>5, <2>6
  <1> QED
    BY <1>2, <1>3

(* Chapters follow each other, none empty; without headings there is one.  *)
LEMMA ChaptersDivide ==
  ASSUME text \in Texts
  PROVE  LET spans == _build_chapter_spans(ChapterHeadings)
         IN  /\ Divided(spans, TotalTokens)
             /\ spans # <<>>
             /\ Fallback => Len(spans) = 1
  <1> DEFINE h == ChapterHeadings
             starts == IF h = <<>> \/ h[1] > 0 THEN <<0>> \o h ELSE h
             spans == [i \in DOMAIN starts |->
                         <<starts[i], IF i < Len(starts) THEN starts[i + 1] ELSE TotalTokens>>]
  <1>1. TotalTokens \in Nat /\ TotalTokens > 0
    BY Offsets DEF TotalTokens
  <1>2. h \in Seq(0..(TotalTokens - 1)) /\ \A i, j \in 1..Len(h) : i < j => h[i] < h[j]
    BY HeadingsInOrder
  <1> HIDE DEF h
  <1>3. /\ starts \in Seq(0..(TotalTokens - 1)) /\ Len(starts) > 0
        /\ h = <<>> => Len(starts) = 1
        /\ \A i \in 1..(Len(starts) - 1) : starts[i] < starts[i + 1]
    <2>1. CASE h = <<>>
      <3>1. starts = <<0>>
        BY <1>2, <2>1
      <3> HIDE DEF starts
      <3> QED
        BY <1>1, <3>1
    <2>2. CASE h # <<>> /\ h[1] > 0
      <3>1. starts = <<0>> \o h
        BY <2>2
      <3>2. <<0>> \in Seq(0..(TotalTokens - 1)) /\ Len(<<0>>) = 1
        BY <1>1
      <3>3. starts \in Seq(0..(TotalTokens - 1)) /\ Len(starts) = 1 + Len(h) /\ Len(h) \in Nat
        <4> DEFINE S == 0..(TotalTokens - 1)
        <4>1. h \in Seq(S) /\ <<0>> \in Seq(S) /\ Len(<<0>>) = 1
          BY <1>2, <3>2
        <4> HIDE DEF S, starts
        <4>2. starts \in Seq(S) /\ Len(starts) = 1 + Len(h) /\ Len(h) \in Nat
          BY <3>1, <4>1
        <4> QED
          BY <4>2 DEF S
      <3>4. starts[1] = 0 /\ \A i \in 1..Len(h) : starts[i + 1] = h[i]
        BY <1>2, <3>1, <3>2
      <3>5. ASSUME NEW i \in 1..(Len(starts) - 1) PROVE starts[i] < starts[i + 1]
        <4>1. CASE i = 1
          BY <2>2, <3>3, <3>4, <4>1
        <4>2. CASE i # 1
          <5>1. i - 1 \in 1..Len(h) /\ i \in 1..Len(h) /\ i - 1 < i /\ i - 1 + 1 = i
            BY <3>3, <4>2
          <5>2. starts[i] = h[i - 1] /\ starts[i + 1] = h[i]
            BY <3>4, <5>1
          <5> QED
            BY <1>2, <5>1, <5>2
        <4> QED
          BY <4>1, <4>2
      <3> HIDE DEF starts
      <3> QED
        BY <2>2, <3>3, <3>5
    <2>3. CASE h # <<>> /\ ~ h[1] > 0
      <3>1. starts = h /\ Len(h) > 0
        BY <1>2, <2>3
      <3> QED
        BY <1>2, <2>3, <3>1
    <2> QED
      BY <2>1, <2>2, <2>3
  <1> HIDE DEF starts
  <1>4. DOMAIN starts = 1..Len(starts) /\ Len(starts) \in Nat
    BY <1>3
  <1>5. \A i \in 1..Len(starts) : starts[i] \in Nat /\ starts[i] < TotalTokens
    BY <1>1, <1>3
  <1>6. \A i \in 1..Len(starts) :
          /\ spans[i] \in Nat \X Nat /\ spans[i][1] < spans[i][2] /\ spans[i][2] <= TotalTokens
          /\ i > 1 => spans[i - 1][2] = spans[i][1]
    BY <1>1, <1>3, <1>4, <1>5
  <1>7. spans \in Seq(Nat \X Nat) /\ Len(spans) = Len(starts)
    <2>1. spans \in [1..Len(starts) -> Nat \X Nat]
      BY <1>4, <1>6
    <2> HIDE DEF spans
    <2> QED
      BY <1>4, <2>1
  <1>8. spans = _build_chapter_spans(ChapterHeadings)
    BY DEF _build_chapter_spans, starts, h
  <1> HIDE DEF spans
  <1>9. Divided(spans, TotalTokens)
    BY <1>6, <1>7 DEF Divided
  <1>10. spans # <<>> /\ (h = <<>> => Len(spans) = 1)
    BY <1>3, <1>7
  <1> QED
    BY <1>8, <1>9, <1>10 DEF Fallback, h

-----------------------------------------------------------------------------
(* Windows. *)

(* The budget of a window is more than the overlap.                        *)
LEMMA Budget ==
  /\ max_tokens \in Nat /\ WINDOW_OVERLAP_TOKENS \in Nat
  /\ WINDOW_OVERLAP_TOKENS < max_tokens
  BY SegmentationAssumption DEF max_tokens

(* Snapping leaves the end where it was meant to be, or moves it to a      *)
(* paragraph break of the chapter that the radius reaches.                 *)
LEMMA SnapMeaning ==
  ASSUME text \in Texts, NEW span \in Nat \X Nat, span[2] <= TotalTokens, span[1] < span[2],
         NEW n \in Nat, n <= TotalTokens
  PROVE  LET end == _snap_to_paragraph_break(span, n)
         IN  \/ end = n
             \/ /\ end \in 1..TotalTokens
                /\ text.at[end] <= text.at[span[2]]
                /\ text.at[end] > text.at[n] - SNAP_RADIUS
  <1> DEFINE offset == text.at[n]
             from == Max({text.at[span[1]], offset - SNAP_RADIUS})
             to == Min({text.at[span[2]], offset + SNAP_RADIUS})
             near == {b \in text.breaks : text.at[b] - BREAK_LENGTH >= from /\ text.at[b] <= to}
             far(b) == Distance(text.at[b], offset)
             nearest == {b \in near : \A c \in near : far(b) <= far(c)}
             end == _snap_to_paragraph_break(span, n)
  <1>1. end = IF near = {} THEN n ELSE Min(nearest)
    BY DEF _snap_to_paragraph_break
  <1>2. /\ TotalTokens \in Nat /\ \A i \in 0..TotalTokens : text.at[i] \in Nat
        /\ text.breaks \subseteq 1..TotalTokens
    BY Offsets, TextAssumption DEF TotalTokens
  <1>3. SNAP_RADIUS \in Nat /\ BREAK_LENGTH \in Nat /\ BREAK_LENGTH > 0
    BY SegmentationAssumption
  <1>4. offset \in Nat /\ text.at[span[1]] \in Nat /\ text.at[span[2]] \in Nat
    BY <1>2
  <1>5. from \in Int /\ from >= offset - SNAP_RADIUS /\ to \in Int /\ to <= text.at[span[2]]
    <2> HIDE DEF offset
    <2>1. offset - SNAP_RADIUS \in Int /\ offset + SNAP_RADIUS \in Int
      BY <1>3, <1>4
    <2>2. /\ from = IF text.at[span[1]] >= offset - SNAP_RADIUS
                    THEN text.at[span[1]] ELSE offset - SNAP_RADIUS
          /\ to = IF text.at[span[2]] <= offset + SNAP_RADIUS
                  THEN text.at[span[2]] ELSE offset + SNAP_RADIUS
      <3> DEFINE a == text.at[span[1]]
                 b == text.at[span[2]]
      <3> HIDE DEF a, b
      <3>1. /\ a \in Int /\ offset - SNAP_RADIUS \in Int
            /\ b \in Int /\ offset + SNAP_RADIUS \in Int
        BY <1>4, <2>1 DEF a, b
      <3>2. /\ Max({a, offset - SNAP_RADIUS})
                 = IF a >= offset - SNAP_RADIUS THEN a ELSE offset - SNAP_RADIUS
            /\ Min({b, offset + SNAP_RADIUS})
                 = IF b <= offset + SNAP_RADIUS THEN b ELSE offset + SNAP_RADIUS
        BY <3>1, OfTwo
      <3> QED
        BY <3>2 DEF a, b
    <2> HIDE DEF from, to
    <2> QED
      BY <1>4, <2>1, <2>2
  <1> HIDE DEF from, to
  <1>6. \A b \in near : /\ b \in 1..TotalTokens /\ text.at[b] \in Nat
                        /\ text.at[b] <= text.at[span[2]]
                        /\ text.at[b] > offset - SNAP_RADIUS
    BY <1>2, <1>3, <1>4, <1>5
  <1>7. CASE near = {}
    BY <1>1, <1>7
  <1>8. CASE near # {}
    <2> DEFINE fars == {far(b) : b \in near}
    <2>1. \A b \in near : far(b) \in Nat
      BY <1>4, <1>6 DEF Distance
    <2> HIDE DEF near, far
    <2>2. fars \subseteq Nat /\ fars # {}
      BY <1>8, <2>1
    <2>3. Min(fars) \in fars /\ \A m \in fars : Min(fars) <= m
      BY <2>2, LeastNumber, Zenon
    <2>4. PICK b \in near : \A c \in near : far(b) <= far(c)
      BY <2>3
    <2>5. nearest \subseteq near /\ nearest # {} /\ nearest \subseteq Nat
      BY <1>6, <2>4
    <2> HIDE DEF nearest
    <2>6. Min(nearest) \in near
      BY <2>5, LeastNumber, Zenon
    <2>7. end \in near
      BY <1>1, <1>8, <2>6
    <2> HIDE DEF end
    <2>8. /\ end \in 1..TotalTokens /\ text.at[end] <= text.at[span[2]]
          /\ text.at[end] > text.at[n] - SNAP_RADIUS
      BY <1>6, <2>7
    <2> QED
      BY <2>8 DEF end
  <1> QED
    BY <1>7, <1>8

(* A window that does not reach the end of its chapter keeps within the    *)
(* budget and the chapter, and ends not more than the overlap before the   *)
(* place it was meant to, and less than the radius.                        *)
LEMMA WindowEndMeaning ==
  ASSUME text \in Texts, NEW span \in Nat \X Nat, span[2] <= TotalTokens,
         NEW start \in Nat, span[1] <= start, start + max_tokens < span[2]
  PROVE  LET meant == start + max_tokens
             end == WindowEnd(span, start, meant)
         IN  /\ end \in Nat /\ end <= span[2] /\ end - start \in 1..max_tokens
             /\ end >= meant - WINDOW_OVERLAP_TOKENS
             /\ end = meant \/ text.at[end] > text.at[meant] - SNAP_RADIUS
  <1> DEFINE meant == start + max_tokens
             snapped == _snap_to_paragraph_break(span, meant)
             end == WindowEnd(span, start, meant)
             early == meant - WINDOW_OVERLAP_TOKENS
  <1>1. /\ max_tokens \in Nat /\ WINDOW_OVERLAP_TOKENS \in Nat
        /\ WINDOW_OVERLAP_TOKENS < max_tokens
        /\ meant \in Nat /\ meant < span[2] /\ meant <= TotalTokens /\ TotalTokens \in Nat
        /\ span[1] \in Nat /\ span[2] \in Nat /\ span[1] < span[2]
    BY Budget, Offsets DEF TotalTokens
  <1>2. end = IF snapped - start <= max_tokens THEN snapped ELSE meant
    BY DEF WindowEnd
  <1>3. \/ snapped = meant
        \/ /\ snapped \in 1..TotalTokens /\ text.at[snapped] <= text.at[span[2]]
           /\ text.at[snapped] > text.at[meant] - SNAP_RADIUS
    BY <1>1, SnapMeaning
  <1> HIDE DEF end, snapped
  <1>4. CASE end = meant
    <2>1. meant - start = max_tokens /\ meant >= meant - WINDOW_OVERLAP_TOKENS
      BY <1>1
    <2>2. meant - start \in 1..max_tokens
      BY <1>1, <2>1
    <2> QED
      BY <1>1, <1>4, <2>1, <2>2 DEF end
  <1>5. CASE end # meant
    <2>1. /\ end = snapped /\ snapped - start <= max_tokens /\ end \in 1..TotalTokens
          /\ text.at[end] <= text.at[span[2]] /\ text.at[end] > text.at[meant] - SNAP_RADIUS
      BY <1>2, <1>3, <1>5
    <2>2. early \in Nat /\ early \in 0..TotalTokens /\ end \in 0..TotalTokens /\ span[2] \in 0..TotalTokens
      BY <1>1, <2>1
    <2>3. text.at[meant] - text.at[early] >= SNAP_RADIUS
      <3>1. early \in 0..(TotalTokens - WINDOW_OVERLAP_TOKENS) /\ early + WINDOW_OVERLAP_TOKENS = meant
        BY <1>1, <2>2
      <3> HIDE DEF early, meant
      <3> QED
        BY <3>1, ProseAssumption DEF TotalTokens
    <2>4. \A i \in 0..TotalTokens : text.at[i] \in Nat
      BY Offsets DEF TotalTokens
    <2>5. text.at[early] < text.at[end]
      <3>1. meant \in 0..TotalTokens /\ SNAP_RADIUS \in Nat
        BY <1>1, SegmentationAssumption
      <3> HIDE DEF early, meant
      <3> QED
        BY <2>1, <2>2, <2>3, <2>4, <3>1
    <2>6. \A i, j \in 0..TotalTokens : text.at[i] < text.at[j] => i < j
      BY Offsets DEF TotalTokens
    <2>7. early < end
      BY <2>2, <2>5, <2>6
    <2>8. end <= span[2]
      <3>1. ~ text.at[span[2]] < text.at[end]
        BY <2>1, <2>2, <2>4
      <3>2. \A i, j \in 0..TotalTokens : i < j => text.at[i] < text.at[j]
        BY Offsets DEF TotalTokens
      <3> QED
        BY <1>1, <2>2, <3>1, <3>2
    <2>9. end - start \in 1..max_tokens
      BY <1>1, <2>1, <2>2, <2>7
    <2> HIDE DEF early, meant
    <2>10. end \in Nat /\ early <= end
      BY <2>1, <2>2, <2>7
    <2> QED
      BY <2>1, <2>7, <2>8, <2>9, <2>10 DEF end, early, meant
  <1> QED
    BY <1>4, <1>5

-----------------------------------------------------------------------------
(* The inductive invariant of the segmentation. *)

Window == [chapter_index : Nat, window_index : Nat \union {None}, start : Nat, end : Nat]

(* The windows of one index, and the chapter a window was taken from.      *)
OfChapter(list, index) == {i \in DOMAIN list : list[i].chapter_index = index}
Owner(w) == IF Fallback THEN 1 ELSE w.chapter_index + 1

ChaptersInv ==
  /\ text \in Texts
  /\ phase = "detect" => chapters = <<>>
  /\ phase # "detect" => /\ Divided(chapters, TotalTokens) /\ chapters # <<>>
                         /\ Fallback => Len(chapters) = 1

(* A chapter is left in the middle only after a window that is as long as  *)
(* the budget was meant to be, and only if there is more of it.            *)
CursorInv ==
  /\ windows \in Seq(Window) /\ chapter \in Nat /\ cursor \in Nat
  /\ phase = "detect" => chapter = 1 /\ cursor = 0 /\ windows = <<>>
  /\ phase = "window" => chapter \in 1..Len(chapters)
  /\ phase \notin {"detect", "window"} => chapter = Len(chapters) + 1 /\ cursor = 0
  /\ cursor # 0 =>
       /\ max_tokens <= cursor /\ cursor < chapters[chapter][2] - chapters[chapter][1]
       /\ windows # <<>>
       /\ windows[Len(windows)].start = chapters[chapter][1] + cursor - max_tokens
  /\ windows # <<>> =>
       Owner(windows[Len(windows)]) = IF cursor = 0 THEN chapter - 1 ELSE chapter

(* Every window lies in its chapter and within the budget, after the one   *)
(* before it, and no number is in use that its chapter has not given out.  *)
WindowsInv ==
  \A i \in 1..Len(windows) :
    LET w == windows[i]
        c == Owner(w)
    IN  /\ c \in 1..Len(chapters) /\ c <= chapter /\ (c = chapter => cursor # 0)
        /\ Fallback => w.chapter_index = i - 1
        /\ chapters[c][1] <= w.start /\ w.end <= chapters[c][2]
        /\ w.end - w.start \in 1..max_tokens
        /\ w.window_index # None =>
             w.window_index < Cardinality(OfChapter(windows, w.chapter_index))
        /\ i > 1 => /\ windows[i - 1].start < w.start
                    /\ w.chapter_index - windows[i - 1].chapter_index \in {0, 1}

NumberedApart ==
  \A i, j \in 1..Len(windows) : i # j =>
    <<windows[j].chapter_index, windows[j].window_index>>
      # <<windows[i].chapter_index, windows[i].window_index>>

(* A passage that a window overlaps far enough to hold it anywhere.        *)
Short(a, b) ==
  \/ b = a + 1
  \/ \A n \in 0..(TotalTokens - WINDOW_OVERLAP_TOKENS) :
       text.at[b] - text.at[a] + SNAP_RADIUS
         <= text.at[n + WINDOW_OVERLAP_TOKENS] - text.at[n]

(* Before the place where the next window begins, all that is short is     *)
(* whole in some window.                                                   *)
CoverInv ==
  \A c \in 1..Len(chapters) : \A a, b \in Nat :
    /\ chapters[c][1] <= a /\ a < b /\ b <= chapters[c][2] /\ Short(a, b)
    /\ c < chapter \/ (c = chapter /\ a < chapters[c][1] + WindowStart)
    => \E i \in 1..Len(windows) : windows[i].start <= a /\ b <= windows[i].end

(* What TakeWindow adds. *)
LEMMA NextWindow ==
  ASSUME ChaptersInv, CursorInv, WindowsInv, TakeWindow
  PROVE  LET span  == chapters[chapter]
             start == span[1] + WindowStart
             meant == start + max_tokens
             new   == windows'[Len(windows) + 1]
             prior == windows[Len(windows)]
         IN  /\ chapter \in 1..Len(chapters)
             /\ span[1] \in Nat /\ span[2] \in Nat /\ span[2] <= TotalTokens
             /\ windows' = Append(windows, new) /\ new \in Window
             /\ new.start = start /\ span[1] <= start
             /\ new.end <= span[2] /\ new.end - start \in 1..max_tokens
             /\ new.chapter_index = IF Fallback THEN Len(windows) ELSE chapter - 1
             /\ new.window_index # None =>
                  new.window_index = Cardinality(OfChapter(windows, new.chapter_index))
             /\ cursor # 0 /\ ~ Fallback => new.window_index # None
             /\ windows # <<>> =>
                  /\ prior.start < start
                  /\ new.chapter_index - prior.chapter_index \in {0, 1}
             /\ \/ /\ cursor' = 0 /\ chapter' = chapter + 1 /\ new.end = span[2]
                   /\ phase' = IF chapter = Len(chapters) THEN "chunk" ELSE phase
                \/ /\ meant < span[2] /\ cursor' = meant - span[1] /\ cursor' \in Nat
                   /\ chapter' = chapter /\ phase' = phase
                   /\ new.end >= meant - WINDOW_OVERLAP_TOKENS
                   /\ new.end = meant \/ text.at[new.end] > text.at[meant] - SNAP_RADIUS
  <1> DEFINE span  == chapters[chapter]
             start == span[1] + WindowStart
             meant == start + max_tokens
             prior == windows[Len(windows)]
             index == IF Fallback THEN Len(windows) ELSE chapter - 1
             earlier == Cardinality({i \in DOMAIN windows : windows[i].chapter_index = chapter - 1})
             last  == Min({span[2], meant}) = span[2]
             end   == IF last THEN span[2] ELSE WindowEnd(span, start, Min({span[2], meant}))
             number == IF Fallback \/ span[2] - span[1] <= max_tokens THEN None ELSE earlier
             new   == [chapter_index |-> index, window_index |-> number,
                       start |-> start, end |-> end]
  <1>1. /\ phase = "window" /\ windows' = Append(windows, new)
        /\ cursor' = (IF last THEN 0 ELSE Min({span[2], meant}) - span[1])
        /\ chapter' = (IF last THEN chapter + 1 ELSE chapter)
        /\ phase' = IF last /\ chapter = Len(chapters) THEN "chunk" ELSE phase
    BY DEF TakeWindow
  <1>2. /\ windows \in Seq(Window) /\ Len(windows) \in Nat /\ chapter \in 1..Len(chapters)
        /\ cursor \in Nat /\ text \in Texts /\ Divided(chapters, TotalTokens)
        /\ Len(chapters) \in Nat /\ (Fallback => Len(chapters) = 1)
    <2>1. phase = "window"
      BY <1>1
    <2>2. /\ windows \in Seq(Window) /\ Len(windows) \in Nat /\ chapter \in 1..Len(chapters)
          /\ cursor \in Nat
      BY <2>1 DEF CursorInv
    <2>3. text \in Texts /\ Divided(chapters, TotalTokens) /\ (Fallback => Len(chapters) = 1)
      BY <2>1 DEF ChaptersInv
    <2>4. Len(chapters) \in Nat
      BY <2>3 DEF Divided
    <2> QED
      BY <2>2, <2>3, <2>4
  <1>3. /\ span \in Nat \X Nat /\ span[1] \in Nat /\ span[2] \in Nat
        /\ span[1] < span[2] /\ span[2] <= TotalTokens
    BY <1>2 DEF Divided
  <1>4. /\ max_tokens \in Nat /\ WINDOW_OVERLAP_TOKENS \in Nat
        /\ WINDOW_OVERLAP_TOKENS < max_tokens
    BY Budget
  <1>5. /\ WindowStart \in Nat /\ (cursor = 0 => WindowStart = 0)
        /\ cursor # 0 => /\ WindowStart = cursor - WINDOW_OVERLAP_TOKENS
                         /\ cursor < span[2] - span[1] /\ max_tokens <= cursor
    BY <1>2, <1>4 DEF WindowStart, CursorInv
  <1>6. /\ start \in Nat /\ meant \in Nat /\ span[1] <= start /\ start < span[2]
        /\ meant = start + max_tokens
    <2> HIDE DEF span
    <2>1. start \in Nat /\ meant \in Nat /\ span[1] <= start /\ meant = start + max_tokens
      BY <1>3, <1>4, <1>5
    <2>2. start < span[2]
      <3>1. CASE cursor = 0
        BY <1>3, <1>5, <3>1
      <3>2. CASE cursor # 0
        BY <1>2, <1>3, <1>4, <1>5, <3>2
      <3> QED
        BY <3>1, <3>2
    <2> QED
      BY <2>1, <2>2
  <1>7. windows # <<>> => /\ Len(windows) \in 1..Len(windows) /\ prior \in Window
                          /\ prior.start \in Nat /\ prior.end \in Nat /\ prior.chapter_index \in Nat
    <2> SUFFICES ASSUME windows # <<>> PROVE /\ Len(windows) \in 1..Len(windows) /\ prior \in Window
                          /\ prior.start \in Nat /\ prior.end \in Nat /\ prior.chapter_index \in Nat
      OBVIOUS
    <2>1. windows \in Seq(Window) /\ Len(windows) \in Nat /\ Len(windows) > 0
      BY <1>2
    <2>2. Len(windows) \in 1..Len(windows) /\ prior \in Window
      BY <2>1
    <2> HIDE DEF prior
    <2> QED
      BY <2>2 DEF Window
  <1>8. windows # <<>> => prior.start < start
    <2>1. CASE cursor # 0
      <3>1. prior.start = span[1] + cursor - max_tokens
        BY <2>1 DEF CursorInv
      <3> QED
        BY <1>2, <1>3, <1>4, <1>5, <2>1, <3>1
    <2>2. CASE cursor = 0 /\ windows # <<>>
      <3> DEFINE c == Owner(prior)
      <3>1. c = chapter - 1
        BY <2>2 DEF CursorInv
      <3>2. /\ c \in 1..Len(chapters) /\ prior.end <= chapters[c][2]
            /\ prior.end - prior.start \in 1..max_tokens
        BY <1>7, <2>2 DEF WindowsInv
      <3> HIDE DEF c
      <3>3. chapters[c][2] = span[1]
        <4>1. chapter > 1
          BY <1>2, <3>1, <3>2
        <4> QED
          BY <1>2, <3>1, <4>1 DEF Divided
      <3>4. prior.start < prior.end
        BY <1>4, <1>7, <2>2, <3>2
      <3> HIDE DEF prior, span
      <3> QED
        BY <1>3, <1>5, <1>7, <2>2, <3>2, <3>3, <3>4
    <2> QED
      BY <2>1, <2>2
  <1>9. windows # <<>> => index - prior.chapter_index \in {0, 1}
    <2> SUFFICES ASSUME windows # <<>> PROVE index - prior.chapter_index \in {0, 1}
      OBVIOUS
    <2>1. CASE Fallback
      <3>1. prior.chapter_index = Len(windows) - 1
        BY <1>7, <2>1 DEF WindowsInv
      <3> QED
        BY <1>2, <2>1, <3>1
    <2>2. CASE ~ Fallback
      <3>1. prior.chapter_index + 1 = IF cursor = 0 THEN chapter - 1 ELSE chapter
        BY <2>2 DEF CursorInv, Owner
      <3> QED
        BY <1>2, <1>7, <2>2, <3>1
    <2> QED
      BY <2>1, <2>2
  <1>10. earlier \in Nat
    <2>1. DOMAIN windows = 1..Len(windows) /\ IsFiniteSet(1..Len(windows))
      BY <1>2, FS_Interval
    <2>2. {i \in DOMAIN windows : windows[i].chapter_index = chapter - 1} \in SUBSET (1..Len(windows))
      BY <2>1
    <2> QED
      BY <2>1, <2>2, FS_Subset, FS_CardinalityType
  <1>11. index \in Nat /\ number \in Nat \union {None}
    BY <1>2, <1>10
  <1>12. cursor # 0 /\ ~ Fallback => number # None
    <2> SUFFICES ASSUME cursor # 0, ~ Fallback PROVE number # None
      OBVIOUS
    <2>1. ~ span[2] - span[1] <= max_tokens
      <3> HIDE DEF span
      <3> QED
        BY <1>2, <1>3, <1>4, <1>5
    <2>2. number = earlier
      BY <2>1
    <2> HIDE DEF number, earlier
    <2> QED
      BY <1>10, <2>2, ProvenanceAssumption
  <1>13. number # None => number = Cardinality(OfChapter(windows, index))
    BY DEF OfChapter
  <1> HIDE DEF number, earlier, index
  <1> DEFINE taken == windows'[Len(windows) + 1]
  <1>14. ASSUME end \in Nat
         PROVE  /\ windows' = Append(windows, taken) /\ taken \in Window
                /\ taken.start = start /\ taken.end = end /\ taken.chapter_index = index
                /\ taken.window_index = number
    <2> HIDE DEF end, start
    <2>1. new \in Window
      BY <1>6, <1>11, <1>14 DEF Window
    <2>2. taken = new
      <3> HIDE DEF new
      <3> QED
        BY <1>1, <1>2, <2>1
    <2>3. /\ new.start = start /\ new.end = end /\ new.chapter_index = index
          /\ new.window_index = number
      OBVIOUS
    <2> HIDE DEF new, taken
    <2> QED
      BY <1>1, <2>1, <2>2, <2>3
  <1>15. CASE span[2] <= meant
    <2>1. Min({span[2], meant}) = span[2]
      BY <1>3, <1>6, <1>15, OfTwo
    <2>2. last /\ end = span[2]
      BY <2>1
    <2>3. end \in Nat /\ end <= span[2] /\ end - start \in 1..max_tokens
      <3> HIDE DEF end, start, meant, span
      <3> QED
        BY <1>3, <1>4, <1>6, <1>15, <2>2
    <2>4. cursor' = 0 /\ chapter' = chapter + 1 /\ phase' = IF chapter = Len(chapters) THEN "chunk" ELSE phase
      <3> HIDE DEF last
      <3> QED
        BY <1>1, <2>2
    <2> HIDE DEF start, meant, span, prior, last, end, taken
    <2>5. /\ windows' = Append(windows, taken) /\ taken \in Window
          /\ taken.start = start /\ taken.end = end /\ taken.chapter_index = index
          /\ taken.window_index = number
      BY <1>14, <2>3
    <2>6. /\ chapter \in 1..Len(chapters)
          /\ span[1] \in Nat /\ span[2] \in Nat /\ span[2] <= TotalTokens
          /\ windows' = Append(windows, taken) /\ taken \in Window
          /\ taken.start = start /\ span[1] <= start
          /\ taken.end <= span[2] /\ taken.end - start \in 1..max_tokens
          /\ taken.chapter_index = index
          /\ taken.window_index # None =>
               taken.window_index = Cardinality(OfChapter(windows, taken.chapter_index))
          /\ cursor # 0 /\ ~ Fallback => taken.window_index # None
          /\ windows # <<>> =>
               /\ prior.start < start
               /\ taken.chapter_index - prior.chapter_index \in {0, 1}
          /\ cursor' = 0 /\ chapter' = chapter + 1 /\ taken.end = span[2]
          /\ phase' = IF chapter = Len(chapters) THEN "chunk" ELSE phase
      BY <1>2, <1>3, <1>6, <1>8, <1>9, <1>12, <1>13, <2>2, <2>3, <2>4, <2>5
    <2> QED
      BY <2>6 DEF start, meant, span, prior, index, taken
  <1>16. CASE ~ span[2] <= meant
    <2>1. meant < span[2] /\ Min({span[2], meant}) = meant
      BY <1>3, <1>6, <1>16, OfTwo
    <2>2. ~ last /\ end = WindowEnd(span, start, meant)
      BY <1>3, <1>6, <2>1
    <2>3. /\ end \in Nat /\ end <= span[2] /\ end - start \in 1..max_tokens
          /\ end >= meant - WINDOW_OVERLAP_TOKENS
          /\ end = meant \/ text.at[end] > text.at[meant] - SNAP_RADIUS
      <3> HIDE DEF end, span
      <3> USE DEF meant
      <3> HIDE DEF start
      <3> QED
        BY <1>2, <1>3, <1>6, <2>1, <2>2, WindowEndMeaning
    <2>4. cursor' = meant - span[1] /\ chapter' = chapter /\ phase' = phase
      <3> HIDE DEF last
      <3> QED
        BY <1>1, <2>1, <2>2
    <2>5. cursor' \in Nat
      <3> HIDE DEF start, span, meant
      <3>1. meant - span[1] \in Nat
        BY <1>3, <1>4, <1>6
      <3> QED
        BY <2>4, <3>1
    <2> HIDE DEF start, meant, span, prior, last, end, taken
    <2>6. /\ windows' = Append(windows, taken) /\ taken \in Window
          /\ taken.start = start /\ taken.end = end /\ taken.chapter_index = index
          /\ taken.window_index = number
      BY <1>14, <2>3
    <2>7. /\ chapter \in 1..Len(chapters)
          /\ span[1] \in Nat /\ span[2] \in Nat /\ span[2] <= TotalTokens
          /\ windows' = Append(windows, taken) /\ taken \in Window
          /\ taken.start = start /\ span[1] <= start
          /\ taken.end <= span[2] /\ taken.end - start \in 1..max_tokens
          /\ taken.chapter_index = index
          /\ taken.window_index # None =>
               taken.window_index = Cardinality(OfChapter(windows, taken.chapter_index))
          /\ cursor # 0 /\ ~ Fallback => taken.window_index # None
          /\ windows # <<>> =>
               /\ prior.start < start
               /\ taken.chapter_index - prior.chapter_index \in {0, 1}
          /\ meant < span[2] /\ cursor' = meant - span[1] /\ cursor' \in Nat
          /\ chapter' = chapter /\ phase' = phase
          /\ taken.end >= meant - WINDOW_OVERLAP_TOKENS
          /\ taken.end = meant \/ text.at[taken.end] > text.at[meant] - SNAP_RADIUS
      BY <1>2, <1>3, <1>6, <1>8, <1>9, <1>12, <1>13, <2>1, <2>3, <2>4, <2>5, <2>6
    <2> QED
      BY <2>7 DEF start, meant, span, prior, index, taken
  <1> QED
    BY <1>15, <1>16

(* One more window is one more of its chapter's number and of no other.    *)
LEMMA OneMoreOfChapter ==
  ASSUME NEW list \in Seq(Window), NEW w \in Window, NEW index
  PROVE  LET more == Append(list, w)
             count == Cardinality(OfChapter(list, index))
         IN  /\ count \in Nat
             /\ Cardinality(OfChapter(more, index))
                  = IF w.chapter_index = index THEN count + 1 ELSE count
  <1> DEFINE more == Append(list, w)
             old == OfChapter(list, index)
             count == Cardinality(old)
             N == Len(list)
  <1>1. /\ N \in Nat /\ DOMAIN list = 1..N /\ DOMAIN more = 1..(N + 1)
        /\ \A i \in 1..N : more[i] = list[i]
        /\ more[N + 1] = w
    OBVIOUS
  <1> HIDE DEF more, N
  <1>2. old \subseteq 1..N
    BY <1>1 DEF OfChapter
  <1>3. IsFiniteSet(old) /\ count \in Nat
    <2>1. IsFiniteSet(1..N)
      BY <1>1, FS_Interval
    <2>2. IsFiniteSet(old)
      BY <1>2, <2>1, FS_Subset
    <2> QED
      BY <2>2, FS_CardinalityType
  <1>4. N + 1 \notin 1..N
    BY <1>1
  <1>5. CASE w.chapter_index = index
    <2>1. OfChapter(more, index) = old \union {N + 1}
      BY <1>1, <1>5 DEF OfChapter
    <2>2. N + 1 \notin old
      BY <1>2, <1>4
    <2> QED
      BY <1>3, <1>5, <2>1, <2>2, FS_AddElement DEF more
  <1>6. CASE w.chapter_index # index
    <2>1. OfChapter(more, index) = old
      BY <1>1, <1>4, <1>6 DEF OfChapter
    <2> QED
      BY <1>3, <1>6, <2>1 DEF more
  <1> QED
    BY <1>5, <1>6

(* Taking a window keeps the windows in their chapters, numbered apart and *)
(* leaving nothing short behind.                                           *)
LEMMA WindowTaken ==
  ASSUME ChaptersInv, CursorInv, WindowsInv, NumberedApart, CoverInv, TakeWindow
  PROVE  ChaptersInv' /\ CursorInv' /\ WindowsInv' /\ NumberedApart' /\ CoverInv'
  <1> DEFINE span  == chapters[chapter]
             start == span[1] + WindowStart
             meant == start + max_tokens
             N     == Len(windows)
             new   == windows'[N + 1]
             prior == windows[N]
             Done  == /\ cursor' = 0 /\ chapter' = chapter + 1 /\ new.end = span[2]
                      /\ phase' = IF chapter = Len(chapters) THEN "chunk" ELSE phase
             More  == /\ meant < span[2] /\ cursor' = meant - span[1] /\ cursor' \in Nat
                      /\ chapter' = chapter /\ phase' = phase
                      /\ new.end >= meant - WINDOW_OVERLAP_TOKENS
                      /\ new.end = meant \/ text.at[new.end] > text.at[meant] - SNAP_RADIUS
  <1>1. /\ chapter \in 1..Len(chapters)
        /\ span[1] \in Nat /\ span[2] \in Nat /\ span[2] <= TotalTokens
        /\ windows' = Append(windows, new) /\ new \in Window
        /\ new.start = start /\ span[1] <= start
        /\ new.end <= span[2] /\ new.end - start \in 1..max_tokens
        /\ new.chapter_index = IF Fallback THEN N ELSE chapter - 1
        /\ new.window_index # None =>
             new.window_index = Cardinality(OfChapter(windows, new.chapter_index))
        /\ cursor # 0 /\ ~ Fallback => new.window_index # None
        /\ windows # <<>> =>
             /\ prior.start < start
             /\ new.chapter_index - prior.chapter_index \in {0, 1}
        /\ Done \/ More
    BY NextWindow
  <1> HIDE DEF span, start, new, prior
  <1>2. /\ phase = "window" /\ text' = text /\ chapters' = chapters
    BY DEF TakeWindow
  <1>3. /\ windows \in Seq(Window) /\ N \in Nat /\ DOMAIN windows = 1..N /\ cursor \in Nat
        /\ chapter \in Nat /\ text \in Texts /\ Divided(chapters, TotalTokens)
        /\ Len(chapters) \in Nat /\ chapters # <<>> /\ (Fallback => Len(chapters) = 1)
    <2>1. windows \in Seq(Window) /\ cursor \in Nat /\ chapter \in Nat
      BY DEF CursorInv
    <2>2. /\ text \in Texts /\ Divided(chapters, TotalTokens) /\ chapters # <<>>
          /\ (Fallback => Len(chapters) = 1)
      BY <1>2 DEF ChaptersInv
    <2>3. N \in Nat /\ DOMAIN windows = 1..N
      BY <2>1
    <2>4. Len(chapters) \in Nat
      BY <2>2 DEF Divided
    <2> HIDE DEF N
    <2> QED
      BY <2>1, <2>2, <2>3, <2>4
  <1>4. /\ Fallback' = Fallback /\ max_tokens' = max_tokens /\ TotalTokens' = TotalTokens
    BY <1>2 DEF Fallback, ChapterHeadings, max_tokens, TotalTokens
  <1>5. /\ windows' \in Seq(Window) /\ Len(windows') = N + 1
        /\ \A i \in 1..N : windows'[i] = windows[i]
    BY <1>1, <1>3
  <1>6. /\ max_tokens \in Nat /\ WINDOW_OVERLAP_TOKENS \in Nat
        /\ WINDOW_OVERLAP_TOKENS < max_tokens
    BY Budget
  <1>7. /\ new.start \in Nat /\ new.end \in Nat /\ new.chapter_index \in Nat
    BY <1>1 DEF Window
  <1>8. start \in Nat /\ meant \in Nat /\ meant = start + max_tokens
    BY <1>1, <1>6, <1>7
  <1>9. WindowStart \in Nat /\ start = span[1] + WindowStart
    BY <1>3, <1>6 DEF WindowStart, start
  <1> HIDE DEF meant
  <1>10. Owner(new) = chapter /\ \A w : Owner(w)' = Owner(w)
    <2>1. Owner(new) = chapter
      <3>1. /\ Fallback => chapter = 1
            /\ ~ Fallback => new.chapter_index = chapter - 1
        <4>1. chapter \in 1..Len(chapters) /\ (Fallback => Len(chapters) = 1)
          BY <1>1, <1>3
        <4>2. ASSUME Fallback PROVE chapter = 1
          <5>1. chapter \in 1..1
            BY <4>1, <4>2
          <5> QED
            BY <5>1
        <4> QED
          BY <1>1, <4>2
      <3> QED
        BY <1>3, <3>1 DEF Owner
    <2> QED
      BY <1>4, <2>1 DEF Owner
  <1>11. More => /\ cursor' # 0 /\ max_tokens <= cursor' /\ cursor' < span[2] - span[1]
                 /\ start = span[1] + cursor' - max_tokens
    <2> SUFFICES ASSUME More
                 PROVE  /\ cursor' # 0 /\ max_tokens <= cursor' /\ cursor' < span[2] - span[1]
                        /\ start = span[1] + cursor' - max_tokens
      OBVIOUS
    <2>1. meant < span[2] /\ cursor' = meant - span[1] /\ cursor' \in Nat
      OBVIOUS
    <2>2. span[1] \in Nat /\ span[2] \in Nat
      BY <1>1
    <2> HIDE DEF More
    <2> QED
      BY <1>6, <1>8, <1>9, <2>1, <2>2
  <1>12. phase' \in {"window", "chunk"}
    BY <1>1, <1>2
  <1>13. ChaptersInv'
    BY <1>2, <1>3, <1>4, <1>12 DEF ChaptersInv
  <1>14. CursorInv'
    <2>1. windows'[Len(windows')] = new /\ windows' # <<>>
      BY <1>3, <1>5 DEF new
    <2>2. CASE Done
      <3>1. /\ chapter' \in Nat /\ cursor' = 0 /\ chapter' = chapter + 1
            /\ phase' = "window" => chapter' \in 1..Len(chapters)
            /\ phase' = "chunk" => chapter' = Len(chapters) + 1
        BY <1>1, <1>2, <1>3, <2>2
      <3>2. Owner(new) = chapter' - 1
        BY <1>3, <1>10, <3>1
      <3> QED
        BY <1>2, <1>5, <1>10, <1>12, <2>1, <3>1, <3>2 DEF CursorInv
    <2>3. CASE More
      <3>1. /\ chapter' = chapter /\ phase' = "window" /\ cursor' \in Nat /\ cursor' # 0
            /\ max_tokens' <= cursor' /\ cursor' < chapters'[chapter'][2] - chapters'[chapter'][1]
            /\ new.start = chapters'[chapter'][1] + cursor' - max_tokens'
        BY <1>1, <1>2, <1>4, <1>11, <2>3 DEF span
      <3> QED
        BY <1>1, <1>2, <1>3, <1>5, <1>10, <2>1, <3>1 DEF CursorInv
    <2> QED
      BY <1>1, <2>2, <2>3
  <1>15. \A i \in 1..N : /\ Owner(windows[i]) <= chapter /\ Owner(windows[i]) \in 1..Len(chapters)
                         /\ Owner(windows[i]) = chapter => cursor # 0
                         /\ Fallback => windows[i].chapter_index = i - 1
                         /\ windows[i].chapter_index \in Nat
                         /\ windows[i].window_index # None =>
                              /\ windows[i].window_index \in Nat
                              /\ windows[i].window_index
                                   < Cardinality(OfChapter(windows, windows[i].chapter_index))
    <2> TAKE i \in 1..N
    <2>1. windows[i] \in Window
      BY <1>3
    <2> QED
      BY <2>1 DEF WindowsInv, Window
  <1>16. \A index : /\ Cardinality(OfChapter(windows, index)) \in Nat
                    /\ Cardinality(OfChapter(windows', index))
                         = IF new.chapter_index = index
                           THEN Cardinality(OfChapter(windows, index)) + 1
                           ELSE Cardinality(OfChapter(windows, index))
    BY <1>1, <1>3, OneMoreOfChapter
  <1>17. ASSUME NEW i \in 1..(N + 1)
         PROVE  LET w == windows'[i]
                    c == Owner(w)
                IN  /\ c \in 1..Len(chapters) /\ c <= chapter' /\ (c = chapter' => cursor' # 0)
                    /\ Fallback => w.chapter_index = i - 1
                    /\ chapters[c][1] <= w.start /\ w.end <= chapters[c][2]
                    /\ w.end - w.start \in 1..max_tokens
                    /\ w.window_index # None =>
                         w.window_index < Cardinality(OfChapter(windows', w.chapter_index))
                    /\ i > 1 => /\ windows'[i - 1].start < w.start
                                /\ w.chapter_index - windows'[i - 1].chapter_index \in {0, 1}
    <2>1. CASE i = N + 1
      <3>1. windows'[i] = new
        BY <2>1 DEF new
      <3>2. chapter <= chapter' /\ (chapter = chapter' => cursor' # 0)
        BY <1>1, <1>3, <1>11
      <3>3. Fallback => new.chapter_index = i - 1
        BY <1>1, <1>3, <2>1
      <3>4. chapters[chapter][1] <= new.start /\ new.end <= chapters[chapter][2]
        BY <1>1 DEF span
      <3>5. new.window_index # None =>
              new.window_index < Cardinality(OfChapter(windows', new.chapter_index))
        <4> DEFINE count == Cardinality(OfChapter(windows, new.chapter_index))
                   now == Cardinality(OfChapter(windows', new.chapter_index))
        <4>1. count \in Nat /\ now = count + 1
          BY <1>16
        <4>2. new.window_index # None => new.window_index = count
          BY <1>1
        <4> HIDE DEF count, now, new
        <4>3. new.window_index # None => new.window_index < now
          BY <4>1, <4>2
        <4> QED
          BY <4>3 DEF now
      <3>6. i > 1 => /\ windows'[i - 1].start < new.start
                     /\ new.chapter_index - windows'[i - 1].chapter_index \in {0, 1}
        <4> SUFFICES ASSUME i > 1 PROVE /\ windows'[i - 1].start < new.start
                     /\ new.chapter_index - windows'[i - 1].chapter_index \in {0, 1}
          OBVIOUS
        <4>1. N \in 1..N /\ i - 1 = N /\ windows # <<>>
          BY <1>3, <2>1
        <4>2. windows'[i - 1] = prior
          BY <1>5, <4>1 DEF prior
        <4> QED
          BY <1>1, <4>1, <4>2
      <3> QED
        BY <1>1, <1>10, <3>1, <3>2, <3>3, <3>4, <3>5, <3>6
    <2>2. CASE i # N + 1
      <3>1. i \in 1..N /\ (i > 1 => i - 1 \in 1..N)
        BY <1>3, <2>2
      <3>2. windows'[i] = windows[i] /\ (i > 1 => windows'[i - 1] = windows[i - 1])
        BY <1>5, <3>1
      <3> DEFINE w == windows[i]
                 c == Owner(w)
      <3>3. /\ c \in 1..Len(chapters) /\ c <= chapter /\ (c = chapter => cursor # 0)
            /\ Fallback => w.chapter_index = i - 1
            /\ chapters[c][1] <= w.start /\ w.end <= chapters[c][2]
            /\ w.end - w.start \in 1..max_tokens
            /\ w.window_index # None =>
                 w.window_index < Cardinality(OfChapter(windows, w.chapter_index))
            /\ i > 1 => /\ windows[i - 1].start < w.start
                        /\ w.chapter_index - windows[i - 1].chapter_index \in {0, 1}
        BY <3>1 DEF WindowsInv
      <3>4. c <= chapter' /\ (c = chapter' => cursor' # 0)
        <4> HIDE DEF c
        <4> QED
          BY <1>1, <1>3, <1>11, <3>3
      <3>5. w.window_index # None =>
              w.window_index < Cardinality(OfChapter(windows', w.chapter_index))
        <4> DEFINE count == Cardinality(OfChapter(windows, w.chapter_index))
                   now == Cardinality(OfChapter(windows', w.chapter_index))
        <4>1. count \in Nat /\ now \in Nat /\ count <= now
          BY <1>16
        <4>2. w.window_index # None => w.window_index \in Nat /\ w.window_index < count
          BY <1>15, <3>1
        <4> HIDE DEF count, now, w
        <4>3. w.window_index # None => w.window_index < now
          BY <4>1, <4>2
        <4> QED
          BY <4>3 DEF now
      <3> QED
        BY <3>2, <3>3, <3>4, <3>5
    <2> QED
      BY <2>1, <2>2
  <1>18. WindowsInv'
    BY <1>2, <1>4, <1>5, <1>10, <1>17 DEF WindowsInv
  <1>19. ASSUME NEW i \in 1..N
         PROVE  <<windows[i].chapter_index, windows[i].window_index>>
                  # <<new.chapter_index, new.window_index>>
    <2> SUFFICES ASSUME windows[i].chapter_index = new.chapter_index,
                        windows[i].window_index = new.window_index
                 PROVE  FALSE
      OBVIOUS
    <2>1. ~ Fallback
      <3>1. /\ Fallback => windows[i].chapter_index = i - 1
            /\ Fallback => new.chapter_index = N
            /\ N \in Nat
        BY <1>1, <1>3, <1>15
      <3> HIDE DEF N, new
      <3> QED
        BY <1>19, <3>1
    <2>2. Owner(windows[i]) = chapter
      BY <1>10, <2>1 DEF Owner
    <2>3. new.window_index # None
      BY <1>1, <1>15, <2>1, <2>2
    <2>4. /\ windows[i].window_index = Cardinality(OfChapter(windows, new.chapter_index))
          /\ windows[i].window_index < Cardinality(OfChapter(windows, new.chapter_index))
          /\ windows[i].window_index \in Nat
      BY <1>1, <1>15, <2>3
    <2> QED
      BY <2>4
  <1>20. NumberedApart'
    <2> SUFFICES ASSUME NEW i \in 1..(N + 1), NEW j \in 1..(N + 1), i # j
                 PROVE  <<windows'[j].chapter_index, windows'[j].window_index>>
                          # <<windows'[i].chapter_index, windows'[i].window_index>>
      BY <1>5 DEF NumberedApart
    <2>1. CASE i = N + 1
      <3>1. j \in 1..N /\ windows'[j] = windows[j] /\ windows'[i] = new
        BY <1>3, <1>5, <2>1 DEF new
      <3> QED
        BY <1>19, <3>1
    <2>2. CASE j = N + 1
      <3>1. i \in 1..N /\ windows'[i] = windows[i] /\ windows'[j] = new
        BY <1>3, <1>5, <2>2 DEF new
      <3> QED
        BY <1>19, <3>1
    <2>3. CASE i # N + 1 /\ j # N + 1
      <3>1. i \in 1..N /\ j \in 1..N
        BY <1>3, <2>3
      <3> QED
        BY <1>5, <3>1 DEF NumberedApart
    <2> QED
      BY <2>1, <2>2, <2>3
  <1>21. ASSUME NEW c \in 1..Len(chapters), NEW a \in Nat, NEW b \in Nat,
                chapters[c][1] <= a, a < b, b <= chapters[c][2], Short(a, b),
                c < chapter' \/ (c = chapter' /\ a < chapters[c][1] + WindowStart')
         PROVE  \E i \in 1..(N + 1) : windows'[i].start <= a /\ b <= windows'[i].end
    <2>1. CASE c < chapter \/ (c = chapter /\ a < chapters[c][1] + WindowStart)
      <3>1. PICK i \in 1..N : windows[i].start <= a /\ b <= windows[i].end
        BY <1>21, <2>1 DEF CoverInv
      <3>2. i \in 1..(N + 1) /\ windows'[i] = windows[i]
        BY <1>3, <1>5, <3>1
      <3> QED
        BY <3>1, <3>2
    <2>2. CASE ~ (c < chapter \/ (c = chapter /\ a < chapters[c][1] + WindowStart))
      <3>1. c = chapter /\ start <= a /\ b <= span[2]
        <4>1. c = chapter
          <5>1. CASE Done
            <6>1. WindowStart' = 0
              BY <1>6, <5>1 DEF WindowStart
            <6>2. c # chapter + 1
              <7>1. chapters[c][1] \in Nat
                BY <1>3 DEF Divided
              <7> QED
                BY <1>21, <5>1, <6>1, <7>1
            <6> QED
              BY <1>3, <1>21, <2>2, <5>1, <6>2
          <5>2. CASE More
            BY <1>3, <1>21, <2>2, <5>2
          <5> QED
            BY <1>1, <5>1, <5>2
        <4>2. ~ a < start
          BY <1>9, <2>2, <4>1 DEF span
        <4> QED
          BY <1>8, <1>21, <4>1, <4>2 DEF span
      <3>2. b <= new.end
        <4>1. CASE Done
          BY <3>1, <4>1
        <4>2. CASE More
          <5>1. a + WINDOW_OVERLAP_TOKENS < meant
            <6>1. a < span[1] + WindowStart'
              BY <1>21, <3>1, <4>2 DEF span
            <6>2. WindowStart' = cursor' - WINDOW_OVERLAP_TOKENS
              BY <1>6, <1>11, <4>2 DEF WindowStart
            <6>3. cursor' = meant - span[1] /\ span[1] \in Nat
              BY <1>1, <4>2
            <6> HIDE DEF More
            <6> QED
              BY <1>6, <1>8, <6>1, <6>2, <6>3
          <5>2. CASE b = a + 1
            BY <1>6, <1>7, <1>8, <4>2, <5>1, <5>2
          <5>3. CASE b # a + 1
            <6> DEFINE to == a + WINDOW_OVERLAP_TOKENS
            <6>1. /\ TotalTokens \in Nat /\ meant \in 0..TotalTokens /\ to \in 0..TotalTokens
                  /\ new.end \in 0..TotalTokens /\ a \in 0..TotalTokens /\ b \in 0..TotalTokens
                  /\ a \in 0..(TotalTokens - WINDOW_OVERLAP_TOKENS) /\ to < meant
              <7>1. TotalTokens \in Nat
                BY <1>3, Offsets DEF TotalTokens
              <7>2. /\ span[2] \in Nat /\ span[2] <= TotalTokens /\ new.end <= span[2]
                    /\ meant < span[2] /\ b <= span[2]
                BY <1>1, <3>1, <4>2
              <7>3. /\ meant \in Nat /\ new.end \in Nat /\ a \in Nat /\ b \in Nat
                    /\ to \in Nat /\ to < meant /\ a <= to
                <8> HIDE DEF More, new, span
                <8>1. new.end \in Nat /\ a \in Nat /\ b \in Nat
                  BY <1>7, <1>8, <1>21
                <8>2. meant \in Nat
                  BY <1>8
                <8> HIDE DEF meant
                <8> QED
                  BY <1>6, <5>1, <8>1, <8>2
              <7> DEFINE e == new.end
                         s == span[2]
              <7>4. e \in Nat /\ s \in Nat /\ s <= TotalTokens /\ e <= s /\ meant < s /\ b <= s
                BY <7>2, <7>3
              <7> HIDE DEF More, new, span, meant, to, e, s
              <7>5. /\ TotalTokens \in Nat /\ meant \in 0..TotalTokens /\ to \in 0..TotalTokens
                    /\ e \in 0..TotalTokens /\ a \in 0..TotalTokens /\ b \in 0..TotalTokens
                    /\ to < meant
                BY <7>1, <7>3, <7>4
              <7>6. a \in 0..(TotalTokens - WINDOW_OVERLAP_TOKENS)
                BY <1>6, <7>3, <7>5 DEF to
              <7> QED
                BY <7>5, <7>6 DEF e
            <6>2. text.at[b] - text.at[a] + SNAP_RADIUS <= text.at[to] - text.at[a]
              BY <1>21, <5>3, <6>1 DEF Short
            <6>3. /\ \A i \in 0..TotalTokens : text.at[i] \in Nat
                  /\ \A i, j \in 0..TotalTokens : i < j => text.at[i] < text.at[j]
                  /\ \A i, j \in 0..TotalTokens : text.at[i] < text.at[j] => i < j
              BY <1>3, Offsets DEF TotalTokens
            <6>4. text.at[to] < text.at[meant]
              BY <6>1, <6>3
            <6> HIDE DEF to
            <6>5. SNAP_RADIUS \in Nat
              BY SegmentationAssumption
            <6>6. text.at[b] < text.at[meant] - SNAP_RADIUS
              <7>1. /\ text.at[a] \in Nat /\ text.at[b] \in Nat /\ text.at[to] \in Nat
                    /\ text.at[meant] \in Nat
                BY <6>1, <6>3
              <7> DEFINE p == text.at[a]
                         q == text.at[b]
                         r == text.at[to]
                         m == text.at[meant]
              <7>2. /\ p \in Nat /\ q \in Nat /\ r \in Nat /\ m \in Nat
                    /\ q - p + SNAP_RADIUS <= r - p /\ r < m
                BY <6>2, <6>4, <7>1
              <7> HIDE DEF p, q, r, m
              <7>3. q < m - SNAP_RADIUS
                BY <6>5, <7>2
              <7> QED
                BY <7>3 DEF q, m
            <6>7. text.at[b] < text.at[new.end]
              <7> DEFINE q == text.at[b]
                         m == text.at[meant]
                         e == text.at[new.end]
              <7>1. q \in Nat /\ m \in Nat /\ e \in Nat /\ q < m - SNAP_RADIUS
                BY <6>1, <6>3, <6>6
              <7>2. (new.end = meant => e = m) /\ (new.end = meant \/ e > m - SNAP_RADIUS)
                BY <4>2
              <7> HIDE DEF q, m, e
              <7>3. q < e
                BY <6>5, <7>1, <7>2
              <7> QED
                BY <7>3 DEF q, e
            <6>8. b < new.end
              BY <6>1, <6>3, <6>7
            <6> QED
              BY <1>7, <6>8
          <5> QED
            BY <5>2, <5>3
        <4> QED
          BY <1>1, <4>1, <4>2
      <3>3. N + 1 \in 1..(N + 1) /\ windows'[N + 1] = new
        BY <1>3 DEF new
      <3>4. new.start <= a /\ b <= new.end
        BY <1>1, <3>1, <3>2
      <3> QED
        BY <3>3, <3>4
    <2> QED
      BY <2>1, <2>2
  <1>22. \A a, b : Short(a, b)' = Short(a, b)
    BY <1>2, <1>4 DEF Short
  <1>23. CoverInv'
    BY <1>2, <1>5, <1>21, <1>22 DEF CoverInv
  <1> QED
    BY <1>13, <1>14, <1>18, <1>20, <1>23

(* Chunks begin at equal distances and are as long as asked for, but for   *)
(* the last one, which ends with the text.                                 *)
ChunksInv ==
  /\ chunks \in Seq(Nat \X Nat)
  /\ phase \in {"detect", "window"} => chunks = <<>>
  /\ \A k \in 1..Len(chunks) :
       /\ chunks[k][1] = (k - 1) * (chunk_size - overlap) /\ chunks[k][1] < TextLength
       /\ chunks[k][2] = IF chunks[k][1] + chunk_size <= TextLength
                         THEN chunks[k][1] + chunk_size ELSE TextLength
  /\ phase = "chunk" => \A k \in 1..Len(chunks) : chunks[k][2] < TextLength
  /\ phase \notin {"detect", "window", "chunk"} =>
       chunks # <<>> /\ chunks[Len(chunks)][2] = TextLength

TextInv ==
  /\ phase \in {"detect", "window", "chunk", "index", "built", "loaded"}
  /\ ChaptersInv /\ CursorInv /\ WindowsInv /\ NumberedApart /\ CoverInv
  /\ ChunksInv

(* Where the next chunk begins is one step on.                             *)
LEMMA ChunkSteps ==
  /\ chunk_size \in Nat /\ overlap \in Nat
  /\ chunk_size - overlap \in Nat /\ chunk_size - overlap > 0
  /\ chunk_size - overlap <= chunk_size /\ chunk_size > 0
  /\ \A k \in Nat : /\ k * (chunk_size - overlap) \in Nat
                    /\ (k + 1) * (chunk_size - overlap)
                         = k * (chunk_size - overlap) + (chunk_size - overlap)
  <1> DEFINE d == chunk_size - overlap
  <1>1. /\ chunk_size \in Nat /\ overlap \in Nat /\ d \in Nat /\ d > 0 /\ d <= chunk_size
        /\ chunk_size > 0
    BY ChunkingAssumption
  <1> HIDE DEF d
  <1>2. \A k \in Nat : k * d \in Nat /\ (k + 1) * d = k * d + d
    BY <1>1
  <1> QED
    BY <1>1, <1>2 DEF d

(* A text is not empty. *)
LEMMA TextHasLength ==
  ASSUME text \in Texts
  PROVE  TextLength \in Nat /\ TextLength > 0 /\ TotalTokens \in Nat /\ TotalTokens > 0
  <1>1. text.at[0] = 0
    BY TextAssumption
  <1>2. TotalTokens \in Nat /\ TotalTokens > 0
    BY Offsets DEF TotalTokens
  <1>3. 0 \in 0..TotalTokens /\ TotalTokens \in 0..TotalTokens
    BY <1>2
  <1>4. text.at[0] < text.at[TotalTokens] /\ text.at[TotalTokens] \in Nat
    BY <1>2, <1>3, Offsets DEF TotalTokens
  <1> QED
    BY <1>1, <1>2, <1>4 DEF TextLength

(* What does not touch the text, its windows and its chunks keeps the      *)
(* invariant, whether or not a graph comes into being.                     *)
LEMMA TextKept ==
  ASSUME TextInv, UNCHANGED textvars,
         phase' = phase \/ (phase = "index" /\ phase' \in {"built", "loaded"})
  PROVE  TextInv'
  <1>1. /\ text' = text /\ chapters' = chapters /\ chapter' = chapter /\ cursor' = cursor
        /\ windows' = windows /\ chunks' = chunks
    BY DEF textvars, segmentation
  <1>2. /\ TotalTokens' = TotalTokens /\ TextLength' = TextLength /\ Fallback' = Fallback
        /\ max_tokens' = max_tokens /\ WindowStart' = WindowStart
    BY <1>1 DEF TotalTokens, TextLength, Fallback, ChapterHeadings, max_tokens, WindowStart
  <1>3. /\ \A w : Owner(w)' = Owner(w)
        /\ \A a, b : Short(a, b)' = Short(a, b)
    BY <1>1, <1>2 DEF Owner, Short
  <1>4. ChaptersInv'
    BY <1>1, <1>2 DEF TextInv, ChaptersInv
  <1>5. CursorInv'
    BY <1>1, <1>2, <1>3 DEF TextInv, CursorInv
  <1>6. WindowsInv'
    BY <1>1, <1>2, <1>3 DEF TextInv, WindowsInv
  <1>7. NumberedApart'
    BY <1>1 DEF TextInv, NumberedApart
  <1>8. CoverInv'
    BY <1>1, <1>2, <1>3 DEF TextInv, CoverInv
  <1>9. ChunksInv'
    BY <1>1, <1>2 DEF TextInv, ChunksInv
  <1>10. phase' \in {"detect", "window", "chunk", "index", "built", "loaded"}
    BY DEF TextInv
  <1> QED
    BY <1>4, <1>5, <1>6, <1>7, <1>8, <1>9, <1>10 DEF TextInv

(* Before the first window nothing is behind.                              *)
LEMMA ChaptersDetected ==
  ASSUME TextInv, DetectChapters
  PROVE  TextInv'
  <1>1. /\ phase = "detect" /\ phase' = "window"
        /\ chapters' = _build_chapter_spans(ChapterHeadings)
        /\ text' = text /\ chapter' = chapter /\ cursor' = cursor /\ windows' = windows
        /\ chunks' = chunks
    BY DEF DetectChapters
  <1>2. /\ text \in Texts /\ chapter = 1 /\ cursor = 0 /\ windows = <<>> /\ chunks = <<>>
    BY <1>1 DEF TextInv, ChaptersInv, CursorInv, ChunksInv
  <1>3. /\ TotalTokens' = TotalTokens /\ TextLength' = TextLength /\ Fallback' = Fallback
    BY <1>1 DEF TotalTokens, TextLength, Fallback, ChapterHeadings
  <1>4. /\ Divided(chapters', TotalTokens) /\ chapters' # <<>>
        /\ (Fallback => Len(chapters') = 1)
    BY <1>1, <1>2, ChaptersDivide
  <1>5. ChaptersInv'
    BY <1>1, <1>2, <1>3, <1>4 DEF ChaptersInv
  <1>6. Len(chapters') \in Nat /\ Len(chapters') > 0
    BY <1>4 DEF Divided
  <1>7. windows' = <<>> /\ windows' \in Seq(Window) /\ Len(windows') = 0
    BY <1>1, <1>2
  <1>8. CursorInv'
    BY <1>1, <1>2, <1>6, <1>7 DEF CursorInv
  <1>9. WindowsInv' /\ NumberedApart'
    BY <1>7 DEF WindowsInv, NumberedApart
  <1>10. WindowStart' = 0
    BY <1>1, <1>2, Budget DEF WindowStart
  <1>11. CoverInv'
    <2> SUFFICES ASSUME NEW c \in 1..Len(chapters'), NEW a \in Nat, NEW b \in Nat,
                        chapters'[c][1] <= a,
                        c < chapter' \/ (c = chapter' /\ a < chapters'[c][1] + WindowStart')
                 PROVE  FALSE
      BY DEF CoverInv
    <2>1. chapters'[c][1] \in Nat
      BY <1>4 DEF Divided
    <2> QED
      BY <1>1, <1>2, <1>6, <1>10, <2>1
  <1>12. ChunksInv'
    <2>1. chunks' = <<>> /\ chunks' \in Seq(Nat \X Nat) /\ Len(chunks') = 0
      BY <1>1, <1>2
    <2> QED
      BY <1>1, <2>1 DEF ChunksInv
  <1> QED
    BY <1>1, <1>5, <1>8, <1>9, <1>11, <1>12 DEF TextInv

(* The next chunk begins inside the text, because the last one ended there.*)
LEMMA ChunkTaken ==
  ASSUME TextInv, TakeChunk
  PROVE  TextInv'
  <1> DEFINE N == Len(chunks)
             start == N * (chunk_size - overlap)
             stop == Min({start + chunk_size, TextLength})
             prior == chunks[N]
  <1>1. /\ phase = "chunk" /\ chunks' = Append(chunks, <<start, stop>>)
        /\ phase' = (IF stop = TextLength THEN "index" ELSE phase)
        /\ text' = text /\ chapters' = chapters /\ chapter' = chapter /\ cursor' = cursor
        /\ windows' = windows
    BY DEF TakeChunk, NextChunk, segmentation
  <1>2. /\ TotalTokens' = TotalTokens /\ TextLength' = TextLength /\ Fallback' = Fallback
        /\ max_tokens' = max_tokens /\ WindowStart' = WindowStart
    BY <1>1 DEF TotalTokens, TextLength, Fallback, ChapterHeadings, max_tokens, WindowStart
  <1>3. /\ \A w : Owner(w)' = Owner(w)
        /\ \A a, b : Short(a, b)' = Short(a, b)
    BY <1>1, <1>2 DEF Owner, Short
  <1>4. phase' \in {"chunk", "index"}
    BY <1>1
  <1>5. ChaptersInv'
    BY <1>1, <1>2, <1>4 DEF TextInv, ChaptersInv
  <1>6. CursorInv'
    BY <1>1, <1>2, <1>3, <1>4 DEF TextInv, CursorInv
  <1>7. WindowsInv'
    BY <1>1, <1>2, <1>3 DEF TextInv, WindowsInv
  <1>8. NumberedApart'
    BY <1>1 DEF TextInv, NumberedApart
  <1>9. CoverInv'
    BY <1>1, <1>2, <1>3 DEF TextInv, CoverInv
  <1>10. /\ chunks \in Seq(Nat \X Nat) /\ N \in Nat
         /\ \A k \in 1..N : /\ chunks[k] \in Nat \X Nat
                            /\ chunks[k][1] = (k - 1) * (chunk_size - overlap)
                            /\ chunks[k][1] < TextLength
                            /\ chunks[k][2] = IF chunks[k][1] + chunk_size <= TextLength
                                              THEN chunks[k][1] + chunk_size ELSE TextLength
                            /\ chunks[k][2] < TextLength
    BY <1>1 DEF TextInv, ChunksInv
  <1>11. TextLength \in Nat /\ TextLength > 0
    BY TextHasLength DEF TextInv, ChaptersInv
  <1>12. start \in Nat
    BY <1>10, ChunkSteps
  <1>13. start < TextLength
    <2>1. CASE N = 0
      <3>1. start = 0
        BY <2>1, ChunkSteps
      <3> QED
        BY <1>11, <3>1
    <2>2. CASE N # 0
      <3>1. N \in 1..N /\ N - 1 \in Nat /\ N - 1 + 1 = N
        BY <1>10, <2>2
      <3>2. /\ prior[1] \in Nat /\ prior[1] = (N - 1) * (chunk_size - overlap)
            /\ prior[1] + chunk_size < TextLength
        <4>1. chunks[N][1] \in Nat /\ chunks[N][1] = (N - 1) * (chunk_size - overlap)
          BY <1>10, <3>1
        <4>2. /\ chunks[N][2] = IF chunks[N][1] + chunk_size <= TextLength
                                THEN chunks[N][1] + chunk_size ELSE TextLength
              /\ chunks[N][2] < TextLength
          BY <1>10, <3>1
        <4> QED
          BY <1>11, <4>1, <4>2
      <3>3. start = (N - 1) * (chunk_size - overlap) + (chunk_size - overlap)
        BY <3>1, ChunkSteps
      <3> DEFINE d == chunk_size - overlap
      <3>4. d \in Nat /\ d <= chunk_size /\ chunk_size \in Nat
        BY ChunkSteps
      <3>5. start = prior[1] + d
        BY <3>2, <3>3
      <3> HIDE DEF start, prior, d
      <3> QED
        BY <1>11, <3>2, <3>4, <3>5
    <2> QED
      BY <2>1, <2>2
  <1>14. /\ stop = (IF start + chunk_size <= TextLength THEN start + chunk_size ELSE TextLength)
         /\ stop \in Nat /\ stop <= TextLength
    <2>1. chunk_size \in Nat
      BY ChunkSteps
    <2> HIDE DEF start
    <2>2. stop = IF start + chunk_size <= TextLength THEN start + chunk_size ELSE TextLength
      BY <1>11, <1>12, <2>1, OfTwo
    <2> HIDE DEF stop
    <2> QED
      BY <1>11, <1>12, <2>1, <2>2
  <1> HIDE DEF start, stop, prior
  <1>15. /\ chunks' \in Seq(Nat \X Nat) /\ Len(chunks') = N + 1
         /\ \A k \in 1..N : chunks'[k] = chunks[k]
         /\ chunks'[N + 1] = <<start, stop>>
    <2>1. <<start, stop>> \in Nat \X Nat
      BY <1>12, <1>14
    <2> QED
      BY <1>1, <1>10, <2>1
  <1>16. ASSUME NEW k \in 1..(N + 1)
         PROVE  /\ chunks'[k][1] = (k - 1) * (chunk_size - overlap) /\ chunks'[k][1] < TextLength
                /\ chunks'[k][2] = IF chunks'[k][1] + chunk_size <= TextLength
                                   THEN chunks'[k][1] + chunk_size ELSE TextLength
                /\ phase' = "chunk" => chunks'[k][2] < TextLength
    <2>1. CASE k = N + 1
      <3>1. chunks'[k][1] = start /\ chunks'[k][2] = stop /\ k - 1 = N
        BY <1>10, <1>15, <2>1
      <3>2. start = (k - 1) * (chunk_size - overlap)
        BY <3>1 DEF start
      <3>3. phase' = "chunk" => stop < TextLength
        BY <1>1, <1>11, <1>14
      <3> QED
        BY <1>13, <1>14, <3>1, <3>2, <3>3
    <2>2. CASE k # N + 1
      <3>1. k \in 1..N
        BY <1>10, <2>2
      <3> QED
        BY <1>10, <1>15, <3>1
    <2> QED
      BY <2>1, <2>2
  <1>17. phase' # "chunk" => stop = TextLength
    BY <1>1
  <1>18. ChunksInv'
    <2>1. chunks' # <<>> /\ chunks'[Len(chunks')][2] = stop
      BY <1>10, <1>15
    <2> QED
      BY <1>2, <1>4, <1>15, <1>16, <1>17, <2>1 DEF ChunksInv
  <1> QED
    BY <1>4, <1>5, <1>6, <1>7, <1>8, <1>9, <1>18 DEF TextInv

(* Nothing is cut up at first.                                             *)
LEMMA TextStarts ==
  ASSUME Init
  PROVE  TextInv
  <1>1. /\ text \in Texts /\ chapters = <<>> /\ chapter = 1 /\ cursor = 0
        /\ windows = <<>> /\ chunks = <<>> /\ phase = "detect"
    BY DEF Init, TextInit
  <1>2. /\ windows \in Seq(Window) /\ Len(windows) = 0 /\ Len(chapters) = 0
        /\ chunks \in Seq(Nat \X Nat) /\ Len(chunks) = 0
    BY <1>1
  <1>3. ChaptersInv
    BY <1>1 DEF ChaptersInv
  <1>4. CursorInv
    BY <1>1, <1>2 DEF CursorInv
  <1>5. WindowsInv /\ NumberedApart /\ CoverInv
    BY <1>2 DEF WindowsInv, NumberedApart, CoverInv
  <1>6. ChunksInv
    BY <1>1, <1>2 DEF ChunksInv
  <1> QED
    BY <1>1, <1>3, <1>4, <1>5, <1>6 DEF TextInv

(* Every step keeps the invariant of the text.                             *)
LEMMA TextStep ==
  ASSUME TextInv, [Next]_vars
  PROVE  TextInv'
  <1>1. CASE Segment
    <2>1. CASE DetectChapters
      BY <2>1, ChaptersDetected
    <2>2. CASE TakeWindow
      <3>1. /\ phase = "window" /\ phase' \in {"window", "chunk"} /\ chunks' = chunks
            /\ text' = text
        BY <2>2 DEF TakeWindow
      <3>2. chunks = <<>>
        BY <3>1 DEF TextInv, ChunksInv
      <3>3. chunks' = <<>> /\ chunks' \in Seq(Nat \X Nat) /\ Len(chunks') = 0
        BY <3>1, <3>2
      <3>4. ChunksInv'
        BY <3>1, <3>3 DEF ChunksInv
      <3>5. ChaptersInv' /\ CursorInv' /\ WindowsInv' /\ NumberedApart' /\ CoverInv'
        BY <2>2, WindowTaken DEF TextInv
      <3> QED
        BY <3>1, <3>4, <3>5 DEF TextInv
    <2>3. CASE TakeChunk
      BY <2>3, ChunkTaken
    <2> QED
      BY <1>1, <2>1, <2>2, <2>3 DEF Segment
  <1>2. CASE ~ Segment
    <2>1. /\ UNCHANGED textvars
          /\ phase' = phase \/ (phase = "index" /\ phase' \in {"built", "loaded"})
      BY <1>2 DEF Next, vars, Locate, Index, LoadGraph, StartQuery, Expand, Answer, Fuse, Finish
    <2> QED
      BY <2>1, TextKept
  <1> QED
    BY <1>1, <1>2

(* The windows and the chunks of every text satisfy the invariant.         *)
THEOREM TextCorrect == Spec => []TextInv
  <1>1. Init => TextInv
    BY TextStarts
  <1>2. TextInv /\ [Next]_vars => TextInv'
    BY TextStep
  <1> QED
    BY <1>1, <1>2, PTL DEF Spec

(* No window exceeds its budget, and the windows are numbered apart, in    *)
(* order.                                                                  *)
THEOREM WindowsStayWithinBudget == Spec => []WindowsWithinBudget
  <1>1. TextInv => WindowsWithinBudget
    <2> SUFFICES ASSUME TextInv, NEW i \in DOMAIN windows
                 PROVE  LET w == windows[i]
                        IN  /\ w.end - w.start \in 1..max_tokens
                            /\ i > 1 => /\ windows[i - 1].start < w.start
                                        /\ w.chapter_index - windows[i - 1].chapter_index \in {0, 1}
                            /\ \A j \in DOMAIN windows \ {i} :
                                 <<windows[j].chapter_index, windows[j].window_index>>
                                   # <<w.chapter_index, w.window_index>>
      BY DEF WindowsWithinBudget
    <2>1. DOMAIN windows = 1..Len(windows)
      BY DEF TextInv, CursorInv
    <2> QED
      BY <2>1 DEF TextInv, WindowsInv, NumberedApart
  <1> QED
    BY <1>1, TextCorrect, PTL

(* A short passage lies whole in some window.                              *)
THEOREM NothingIsSeenInHalves == Spec => []PassagesStayWhole
  <1>1. TextInv => PassagesStayWhole
    <2> SUFFICES ASSUME TextInv, phase = "chunk",
                        NEW c \in DOMAIN chapters,
                        NEW a \in chapters[c][1]..(chapters[c][2] - 1),
                        NEW b \in (a + 1)..chapters[c][2],
                        Short(a, b)
                 PROVE  \E i \in DOMAIN windows : windows[i].start <= a /\ b <= windows[i].end
      BY DEF PassagesStayWhole, Short
    <2>1. DOMAIN windows = 1..Len(windows) /\ chapter = Len(chapters) + 1
      BY DEF TextInv, CursorInv
    <2>2. Divided(chapters, TotalTokens)
      BY DEF TextInv, ChaptersInv
    <2>3. DOMAIN chapters = 1..Len(chapters) /\ Len(chapters) \in Nat /\ chapters[c] \in Nat \X Nat
      BY <2>2 DEF Divided
    <2>4. a \in Nat /\ b \in Nat /\ chapters[c][1] <= a /\ a < b /\ b <= chapters[c][2]
      BY <2>3
    <2>5. c \in 1..Len(chapters) /\ c < chapter
      BY <2>1, <2>3
    <2> QED
      BY <2>1, <2>4, <2>5 DEF TextInv, CoverInv
  <1> QED
    BY <1>1, TextCorrect, PTL

-----------------------------------------------------------------------------
(* Provenance. *)

(* What a character of a word produces. *)
Produced(word, i) == [k \in DOMAIN Mapped(word[i]) |-> <<Mapped(word[i])[k], i - 1>>]

(* The canonical characters are produced one after the other.              *)
LEMMA CanonUnfolds ==
  ASSUME NEW word, Len(word) \in Nat
  PROVE  \E upto : /\ canonicalize_with_offsets(word) = upto[Len(word)]
                   /\ upto[0] = <<>>
                   /\ \A n \in 1..Len(word) : upto[n] = upto[n - 1] \o Produced(word, n)
  <1> DEFINE L == Len(word)
             joined(s, n) == s \o Produced(word, n)
             body(g, m) == [n \in 0..m |-> IF n = 0 THEN <<>> ELSE joined(g[n - 1], n)]
             without == {m \in 0..L : ~ \E g : g = body(g, m)}
             upto == CHOOSE g : g = body(g, L)
  <1>1. canonicalize_with_offsets(word) = upto[L]
    BY DEF canonicalize_with_offsets, Produced
  <1> HIDE DEF joined
  <1>2. \E g : g = body(g, 0)
    <2> DEFINE h == [n \in 0..0 |-> <<>>]
    <2>1. h = body(h, 0)
      OBVIOUS
    <2> QED
      BY <2>1
  <1>3. ASSUME NEW m \in Nat \ {0}, NEW g, g = body(g, m - 1)
        PROVE  \E h : h = body(h, m)
    <2> DEFINE h == [n \in 0..m |-> IF n = m THEN joined(g[m - 1], m) ELSE g[n]]
               b == [n \in 0..m |-> IF n = 0 THEN <<>> ELSE joined(h[n - 1], n)]
    <2>1. ASSUME NEW n \in 0..m
          PROVE  h[n] = b[n]
      <3>1. CASE n = m
        <4>1. m - 1 \in 0..m /\ m - 1 # m /\ m # 0
          OBVIOUS
        <4>2. h[m - 1] = g[m - 1]
          BY <4>1
        <4> QED
          BY <3>1, <4>1, <4>2
      <3>2. CASE n # m
        <4>1. n \in 0..(m - 1) /\ (n # 0 => n - 1 \in 0..m /\ n - 1 # m)
          BY <3>2
        <4>2. g[n] = IF n = 0 THEN <<>> ELSE joined(g[n - 1], n)
          BY <1>3, <4>1
        <4>3. h[n] = g[n] /\ (n # 0 => h[n - 1] = g[n - 1])
          BY <3>2, <4>1
        <4> QED
          BY <4>2, <4>3
      <3> QED
        BY <3>1, <3>2
    <2>2. h = b
      BY <2>1
    <2>3. h = body(h, m)
      BY <2>2
    <2> HIDE DEF h
    <2> QED
      BY <2>3
  <1>4. ASSUME without # {} PROVE FALSE
    <2> DEFINE m == Min(without)
    <2>1. without \subseteq Nat
      OBVIOUS
    <2>2. m \in without /\ \A k \in without : m <= k
      BY <1>4, <2>1, LeastNumber, Zenon
    <2> HIDE DEF m
    <2>3. m \in Nat /\ m <= L /\ ~ \E g : g = body(g, m)
      BY <2>2
    <2>4. m # 0
      BY <1>2, <2>3
    <2>5. m - 1 \in 0..L /\ ~ m <= m - 1
      BY <2>3, <2>4
    <2>6. PICK g : g = body(g, m - 1)
      BY <2>2, <2>5
    <2>7. m \in Nat \ {0}
      BY <2>3, <2>4
    <2>8. \E h : h = body(h, m)
      BY <1>3, <2>6, <2>7
    <2> QED
      BY <2>3, <2>8
  <1>5. upto = body(upto, L)
    <2>1. \E g : g = body(g, L)
      BY <1>4
    <2> QED
      BY <2>1
  <1> HIDE DEF upto
  <1>6. upto[0] = <<>> /\ \A n \in 1..L : upto[n] = joined(upto[n - 1], n)
    BY <1>5
  <1> QED
    BY <1>1, <1>6 DEF joined

(* Every character produces some, so a word that is not empty has a        *)
(* canonical form that is not, and later ones come from later ones.        *)
LEMMA CanonMeaning ==
  ASSUME NEW word, word \in Seq(ToSet(word)) \ {<<>>}
  PROVE  LET canon == canonicalize_with_offsets(word)
         IN  /\ \E S : canon \in Seq(S)
             /\ Len(canon) \in Nat /\ Len(canon) > 0 /\ DOMAIN canon = 1..Len(canon)
             /\ \A k \in 1..Len(canon) : canon[k][2] \in 0..(Len(word) - 1)
             /\ \A k, l \in 1..Len(canon) : k <= l => canon[k][2] <= canon[l][2]
             /\ canon[1][2] = 0 /\ canon[Len(canon)][2] = Len(word) - 1
  <1> DEFINE L == Len(word)
             values == UNION {ToSet(Mapped(word[i])) : i \in 1..L}
             S == values \X Nat
             InOrder(s, n) ==
               /\ s \in Seq(S) /\ (n # 0 => Len(s) > 0)
               /\ \A k \in 1..Len(s) : s[k][2] < n
               /\ \A k, l \in 1..Len(s) : k <= l => s[k][2] <= s[l][2]
               /\ n # 0 => s[1][2] = 0 /\ s[Len(s)][2] = n - 1
  <1>1. L \in Nat /\ L > 0 /\ DOMAIN word = 1..L
    OBVIOUS
  <1>2. PICK upto : /\ canonicalize_with_offsets(word) = upto[L]
                    /\ upto[0] = <<>>
                    /\ \A n \in 1..L : upto[n] = upto[n - 1] \o Produced(word, n)
    BY <1>1, CanonUnfolds
  <1>3. ASSUME NEW n \in 1..L
        PROVE  /\ Produced(word, n) \in Seq(S) /\ Len(Produced(word, n)) > 0
               /\ \A k \in 1..Len(Produced(word, n)) : Produced(word, n)[k][2] = n - 1
    <2> DEFINE m == Mapped(word[n])
    <2>1. m \in Seq(ToSet(m)) /\ m # <<>>
      <3>1. CASE word[n] \in DOMAIN _SMART_CHAR_MAP
        BY <3>1, CanonAssumption DEF Mapped
      <3>2. CASE word[n] \notin DOMAIN _SMART_CHAR_MAP
        <4>1. m = <<word[n]>>
          BY <3>2 DEF Mapped
        <4> QED
          BY <4>1 DEF ToSet
      <3> QED
        BY <3>1, <3>2
    <2>2. ToSet(m) \subseteq values
      OBVIOUS
    <2> HIDE DEF values, m
    <2>3. Len(m) \in Nat /\ Len(m) > 0 /\ DOMAIN m = 1..Len(m) /\ \A k \in 1..Len(m) : m[k] \in values
      BY <2>1, <2>2
    <2>4. Produced(word, n) = [k \in 1..Len(m) |-> <<m[k], n - 1>>]
      BY <2>3 DEF Produced, m
    <2>5. n - 1 \in Nat
      BY <1>1
    <2>6. \A k \in 1..Len(m) : <<m[k], n - 1>> \in S
      BY <2>3, <2>5
    <2> QED
      BY <2>3, <2>4, <2>6
  <1>4. InOrder(upto[0], 0)
    BY <1>2
  <1>5. ASSUME NEW n \in 1..L, InOrder(upto[n - 1], n - 1)
        PROVE  InOrder(upto[n], n)
    <2> DEFINE s == upto[n - 1]
               p == Produced(word, n)
               t == upto[n]
    <2>1. /\ s \in Seq(S) /\ p \in Seq(S) /\ t = s \o p /\ Len(p) > 0
          /\ \A k \in 1..Len(p) : p[k][2] = n - 1
      BY <1>2, <1>3, <1>5
    <2>2. /\ \A k \in 1..Len(s) : s[k][2] < n - 1
          /\ \A k, l \in 1..Len(s) : k <= l => s[k][2] <= s[l][2]
          /\ n - 1 # 0 => Len(s) > 0 /\ s[1][2] = 0
          /\ n - 1 = 0 => Len(s) = 0
      <3> HIDE DEF values
      <3>0. \A k \in 1..Len(s) : s[k] \in S
        BY <2>1
      <3>1. n - 1 = 0 => \A k \in 1..Len(s) : s[k][2] \in Nat /\ s[k][2] < 0
        BY <1>5, <3>0
      <3>2. Len(s) \in Nat
        BY <2>1
      <3>3. n - 1 = 0 => Len(s) = 0
        BY <3>1, <3>2
      <3> QED
        BY <1>5, <3>3
    <2> HIDE DEF s, p, t, S
    <2>3. /\ t \in Seq(S) /\ Len(t) = Len(s) + Len(p) /\ Len(s) \in Nat /\ Len(p) \in Nat
          /\ \A k \in 1..Len(t) : t[k] = IF k <= Len(s) THEN s[k] ELSE p[k - Len(s)]
      BY <2>1
    <2>4. \A k \in 1..Len(s) : s[k][2] \in Nat
      <3>1. \A k \in 1..Len(s) : s[k] \in S
        BY <2>1
      <3> HIDE DEF values
      <3> QED
        BY <3>1 DEF S
    <2>5. ASSUME NEW k \in 1..Len(t)
          PROVE  /\ k <= Len(s) => k \in 1..Len(s) /\ t[k] = s[k]
                 /\ ~ k <= Len(s) => t[k][2] = n - 1
      BY <2>1, <2>3
    <2>6. \A k \in 1..Len(t) : t[k][2] < n
      BY <2>2, <2>4, <2>5
    <2>7. \A k, l \in 1..Len(t) : k <= l => t[k][2] <= t[l][2]
      <3> TAKE k, l \in 1..Len(t)
      <3> HAVE k <= l
      <3>1. CASE l <= Len(s)
        BY <2>2, <2>3, <2>5, <3>1
      <3>2. CASE ~ l <= Len(s) /\ k <= Len(s)
        BY <2>2, <2>4, <2>5, <3>2
      <3>3. CASE ~ l <= Len(s) /\ ~ k <= Len(s)
        BY <2>5, <3>3
      <3> QED
        BY <3>1, <3>2, <3>3
    <2>8. Len(t) > 0 /\ 1 \in 1..Len(t) /\ Len(t) \in 1..Len(t) /\ ~ Len(t) <= Len(s)
      BY <2>1, <2>3
    <2>9. t[Len(t)][2] = n - 1
      BY <2>5, <2>8
    <2>10. t[1][2] = 0
      <3>1. CASE n - 1 = 0
        BY <2>2, <2>5, <2>8, <3>1
      <3>2. CASE n - 1 # 0
        BY <2>2, <2>3, <2>5, <2>8, <3>2
      <3> QED
        BY <3>1, <3>2
    <2> QED
      BY <2>3, <2>6, <2>7, <2>8, <2>9, <2>10 DEF t, S
  <1> HIDE DEF InOrder
  <1>6. InOrder(upto[L], L)
    <2> DEFINE bad == {n \in 0..L : ~ InOrder(upto[n], n)}
               least == Min(bad)
    <2>1. SUFFICES ASSUME bad # {} PROVE FALSE
      BY <1>1
    <2>2. bad \subseteq Nat
      OBVIOUS
    <2>3. least \in bad /\ \A n \in bad : least <= n
      BY <2>1, <2>2, LeastNumber, Zenon
    <2> HIDE DEF least
    <2>4. least # 0 /\ least \in 0..L
      BY <1>4, <2>3
    <2>5. least \in 1..L /\ least - 1 \in 0..L /\ ~ least <= least - 1
      BY <2>4
    <2>6. InOrder(upto[least - 1], least - 1)
      BY <2>3, <2>5
    <2> QED
      BY <1>5, <2>3, <2>5, <2>6
  <1> DEFINE canon == canonicalize_with_offsets(word)
  <1>7. InOrder(canon, L)
    BY <1>2, <1>6
  <1> HIDE DEF canon
  <1>8. /\ canon \in Seq(S) /\ Len(canon) > 0 /\ \A k \in 1..Len(canon) : canon[k][2] < L
        /\ \A k, l \in 1..Len(canon) : k <= l => canon[k][2] <= canon[l][2]
        /\ canon[1][2] = 0 /\ canon[Len(canon)][2] = L - 1
    BY <1>1, <1>7 DEF InOrder
  <1>9. \A k \in 1..Len(canon) : canon[k][2] \in Nat
    BY <1>8
  <1>10. \E T : canon \in Seq(T)
    BY <1>8
  <1>11. Len(canon) \in Nat /\ DOMAIN canon = 1..Len(canon)
    BY <1>8
  <1> HIDE DEF S
  <1>12. \A k \in 1..Len(canon) : canon[k][2] \in 0..(L - 1)
    BY <1>1, <1>8, <1>9
  <1> QED
    BY <1>8, <1>10, <1>11, <1>12 DEF canon


(* A sequence of words that are sequences of characters, none empty. *)
Spelled(words) ==
  /\ Len(words) \in Nat /\ Len(words) > 0 /\ DOMAIN words = 1..Len(words)
  /\ \A i \in 1..Len(words) :
       /\ DOMAIN words[i] = 1..Len(words[i]) /\ Len(words[i]) \in Nat /\ Len(words[i]) > 0

(* The canonical form of words has as many words, and each has a character *)
(* for every one the word has produced.                                    *)
LEMMA CanonWordsMeaning ==
  ASSUME NEW words, Wording(words)
  PROVE  /\ Spelled(CanonWords(words)) /\ Len(CanonWords(words)) = Len(words)
         /\ \A i \in 1..Len(words) :
              /\ CanonWords(words)[i] = CanonWord(words[i])
              /\ Len(CanonWords(words)[i]) = Len(canonicalize_with_offsets(words[i]))
  <1>1. Len(words) \in Nat /\ Len(words) > 0 /\ DOMAIN words = 1..Len(words)
    BY DEF Wording
  <1>2. /\ Len(CanonWords(words)) = Len(words) /\ DOMAIN CanonWords(words) = 1..Len(words)
        /\ \A i \in 1..Len(words) : CanonWords(words)[i] = CanonWord(words[i])
    <2>1. CanonWords(words) = [i \in 1..Len(words) |-> CanonWord(words[i])]
      BY <1>1 DEF CanonWords
    <2> QED
      BY <1>1, <2>1
  <1>3. ASSUME NEW i \in 1..Len(words)
        PROVE  LET canon == canonicalize_with_offsets(words[i])
               IN  /\ Len(CanonWord(words[i])) = Len(canon) /\ Len(canon) \in Nat /\ Len(canon) > 0
                   /\ DOMAIN CanonWord(words[i]) = 1..Len(canon)
    <2> DEFINE canon == canonicalize_with_offsets(words[i])
    <2>1. words[i] \in Seq(ToSet(words[i])) \ {<<>>}
      BY <1>1 DEF Wording
    <2>2. Len(canon) \in Nat /\ Len(canon) > 0 /\ DOMAIN canon = 1..Len(canon)
      BY <2>1, CanonMeaning
    <2>3. CanonWord(words[i]) = [k \in DOMAIN canon |-> canon[k][1]]
      BY DEF CanonWord
    <2> HIDE DEF canon
    <2>4. CanonWord(words[i]) = [k \in 1..Len(canon) |-> canon[k][1]]
      BY <2>2, <2>3
    <2>5. Len(CanonWord(words[i])) = Len(canon) /\ DOMAIN CanonWord(words[i]) = 1..Len(canon)
      BY <2>2, <2>4
    <2> QED
      BY <2>2, <2>5 DEF canon
  <1>4. ASSUME NEW i \in 1..Len(words)
        PROVE  /\ DOMAIN CanonWords(words)[i] = 1..Len(CanonWords(words)[i])
               /\ Len(CanonWords(words)[i]) \in Nat /\ Len(CanonWords(words)[i]) > 0
               /\ Len(CanonWords(words)[i]) = Len(canonicalize_with_offsets(words[i]))
    BY <1>2, <1>3
  <1> QED
    BY <1>1, <1>2, <1>4 DEF Spelled

(* A window shows the words of the text from its start to its end.         *)
LEMMA WindowShows ==
  ASSUME text \in Texts, NEW w, w.start \in Nat, w.end \in Nat, w.start < w.end,
         w.end <= TotalTokens
  PROVE  /\ Wording(WindowWords(w)) /\ Len(WindowWords(w)) = w.end - w.start
         /\ \A i \in 1..(w.end - w.start) : WindowWords(w)[i] = text.words[w.start + i]
  <1> DEFINE s == w.start
             e == w.end
             all == text.words
             shown == WindowWords(w)
  <1>1. /\ Len(all) \in Nat /\ DOMAIN all = 1..Len(all) /\ all \in Seq(ToSet(all))
        /\ TotalTokens = Len(all)
    BY WordOffsets DEF TotalTokens
  <1>2. s \in Nat /\ e \in Nat /\ s < e /\ e <= Len(all) /\ shown = SubSeq(all, s + 1, e)
    BY <1>1 DEF WindowWords
  <1>3. Wording(all)
    BY TextAssumption
  <1> HIDE DEF s, e, all, shown
  <1>4. /\ Len(shown) = e - s /\ \A i \in 1..(e - s) : shown[i] = all[s + i] /\ s + i \in 1..Len(all)
        /\ DOMAIN shown = 1..(e - s)
    BY <1>1, <1>2
  <1>5. shown \in Seq(ToSet(shown)) \ {<<>>}
    <2>1. \A i \in 1..(e - s) : shown[i] \in ToSet(shown)
      BY <1>4 DEF ToSet
    <2>2. shown \in Seq(ToSet(all))
      BY <1>1, <1>2, <1>4
    <2>3. shown \in Seq(ToSet(shown))
      BY <1>4, <2>1, <2>2
    <2>4. Len(shown) > 0
      BY <1>2, <1>4
    <2> QED
      BY <2>3, <2>4
  <1>6. \A i \in DOMAIN shown : shown[i] \in Seq(ToSet(shown[i])) \ {<<>>}
    BY <1>1, <1>3, <1>4 DEF Wording
  <1> QED
    BY <1>4, <1>5, <1>6 DEF Wording, s, e, all, shown

(* The words that agree are some of the quote's.                           *)
LEMMA AgreementCounts ==
  ASSUME NEW quote, DOMAIN quote = 1..Len(quote), Len(quote) \in Nat, NEW words, NEW i
  PROVE  Agreement(quote, words, i) \in Nat /\ Agreement(quote, words, i) <= Len(quote)
  <1> DEFINE agreeing == {j \in DOMAIN quote : words[i + j - 1] = quote[j]}
  <1>1. IsFiniteSet(1..Len(quote)) /\ Cardinality(1..Len(quote)) = Len(quote)
    <2>1. /\ IsFiniteSet(1..Len(quote))
          /\ Cardinality(1..Len(quote)) = IF 1 > Len(quote) THEN 0 ELSE Len(quote) - 1 + 1
      BY FS_Interval
    <2> QED
      BY <2>1
  <1>2. agreeing \subseteq 1..Len(quote)
    OBVIOUS
  <1>3. Agreement(quote, words, i) = Cardinality(agreeing)
    BY DEF Agreement
  <1> HIDE DEF agreeing
  <1>4. IsFiniteSet(agreeing) /\ Cardinality(agreeing) <= Cardinality(1..Len(quote))
    BY <1>1, <1>2, FS_Subset
  <1>5. Cardinality(agreeing) \in Nat
    BY <1>4, FS_CardinalityType
  <1> QED
    BY <1>1, <1>3, <1>4, <1>5

(* The run a fuzzy match picks is ahead of every other.                    *)
LEMMA FuzzyMeaning ==
  ASSUME NEW quote, DOMAIN quote = 1..Len(quote), Len(quote) \in Nat, Len(quote) > 0,
         NEW words, Len(words) \in Nat, _fuzzy_match(quote, words) # None
  PROVE  LET start == _fuzzy_match(quote, words)
         IN  /\ start \in Starts(quote, words)
             /\ \A i \in Starts(quote, words) \ {start} :
                  Agreement(quote, words, i) < Agreement(quote, words, start)
  <1> DEFINE all == Starts(quote, words)
             agree(i) == Agreement(quote, words, i)
             place == _fuzzy_match(quote, words)
             found == {agree(i) : i \in all}
             best == Max(found)
             tops == {i \in all : agree(i) = best}
             others == {agree(i) : i \in all \ {Min(tops)}} \union {0}
             following == Max(others)
             alone == Cardinality(all) = 1
             top == Min(tops)
  <1>1. all \subseteq Nat
    BY DEF Starts
  <1>2. \A i : agree(i) \in Nat /\ agree(i) <= Len(quote)
    BY AgreementCounts
  <1>3. /\ all # {} /\ place = top
        /\ alone \/ (best - following) * 100 >= FuzzyMargin * Len(quote)
    BY DEF _fuzzy_match
  <1>4. IsFiniteSet(all)
    <2>1. all = 1..(Len(words) - Len(quote) + 1) /\ Len(words) - Len(quote) + 1 \in Int
      BY DEF Starts
    <2> QED
      BY <2>1, FS_Interval
  <1> HIDE DEF all, agree, place
  <1>5. best \in found /\ \A i \in all : agree(i) <= best
    <2>1. found \subseteq Nat /\ found # {} /\ \A m \in found : m <= Len(quote)
      BY <1>2, <1>3
    <2>2. \A i \in all : agree(i) \in found
      OBVIOUS
    <2> HIDE DEF found
    <2>3. Max(found) \in found /\ \A m \in found : m <= Max(found)
      BY <2>1, GreatestNumber, Zenon
    <2> QED
      BY <2>2, <2>3
  <1>6. best \in Nat
    BY <1>2, <1>5
  <1> HIDE DEF best
  <1>7. tops \subseteq Nat /\ tops # {}
    BY <1>1, <1>5
  <1>8. Min(tops) \in tops
    BY <1>7, LeastNumber, Zenon
  <1>9. top \in all /\ agree(top) = best /\ top \in Nat
    BY <1>1, <1>8
  <1>10. following \in Nat /\ \A i \in all \ {top} : agree(i) <= following
    <2>1. others \subseteq Nat /\ others # {} /\ \A m \in others : m <= Len(quote)
      <3>1. \A m \in others : m = 0 \/ \E i \in all : m = agree(i)
        OBVIOUS
      <3>2. 0 \in others
        OBVIOUS
      <3> HIDE DEF others
      <3> QED
        BY <1>2, <3>1, <3>2
    <2>2. \A i \in all \ {top} : agree(i) \in others
      OBVIOUS
    <2> HIDE DEF others
    <2>3. Max(others) \in others /\ \A m \in others : m <= Max(others)
      BY <2>1, GreatestNumber, Zenon
    <2> QED
      BY <2>1, <2>2, <2>3
  <1> HIDE DEF top, following, tops
  <1>11. ASSUME NEW i \in all \ {top} PROVE agree(i) < best
    <2>1. CASE alone
      <3>1. IsFiniteSet(all \ {top}) /\ Cardinality(all \ {top}) = Cardinality(all) - 1
        BY <1>4, <1>9, FS_RemoveElement
      <3>2. all \ {top} = {}
        BY <2>1, <3>1, FS_EmptySet
      <3> QED
        BY <3>2
    <2>2. CASE (best - following) * 100 >= FuzzyMargin * Len(quote)
      <3>1. FuzzyMargin \in Nat /\ FuzzyMargin > 0
        BY ProvenanceAssumption
      <3>2. FuzzyMargin * Len(quote) > 0 /\ FuzzyMargin * Len(quote) \in Nat
        BY <3>1
      <3>3. best > following
        BY <1>6, <1>10, <2>2, <3>2
      <3> QED
        BY <1>2, <1>6, <1>10, <3>3
    <2> QED
      BY <1>3, <2>1, <2>2
  <1>12. place \in all /\ \A i \in all \ {place} : agree(i) < agree(place)
    BY <1>3, <1>9, <1>11
  <1> QED
    BY <1>12 DEF all, agree, place

(* Some place comes first.                                                 *)
LEMMA FirstPlace ==
  ASSUME NEW S, S \subseteq Nat \X Nat, S # {}
  PROVE  \E x \in S : \A y \in S : ~ Precedes(y, x)
  <1> DEFINE firsts == {x[1] : x \in S}
             i == Min(firsts)
             seconds == {x[2] : x \in {y \in S : y[1] = i}}
             k == Min(seconds)
  <1>1. firsts \subseteq Nat /\ firsts # {}
    OBVIOUS
  <1>2. i \in firsts /\ \A n \in firsts : i <= n
    BY <1>1, LeastNumber, Zenon
  <1> HIDE DEF i
  <1>3. seconds \subseteq Nat /\ seconds # {}
    BY <1>2
  <1>4. k \in seconds /\ \A n \in seconds : k <= n
    BY <1>3, LeastNumber, Zenon
  <1> HIDE DEF k
  <1>5. PICK x \in S : x[1] = i /\ x[2] = k
    BY <1>4
  <1>6. \A y \in S : i <= y[1] /\ (y[1] = i => k <= y[2])
    BY <1>2, <1>4
  <1>7. \A y \in S : y[1] \in Nat /\ y[2] \in Nat
    OBVIOUS
  <1>8. \A y \in S : ~ Precedes(y, x)
    BY <1>5, <1>6, <1>7 DEF Precedes
  <1> QED
    BY <1>8

(* Where a quote can be read in some words.                                *)
Readings(quote, words) == {x \in Places(words) : ReadsAt(quote, words, x)}

LEMMA PlaceMeaning ==
  ASSUME NEW words, Spelled(words)
  PROVE  /\ Places(words) \subseteq Nat \X Nat
         /\ \A x \in Places(words) : /\ x = <<x[1], x[2]>>
                                     /\ x[1] \in 1..Len(words) /\ x[2] \in 1..Len(words[x[1]])
         /\ \A i \in 1..Len(words) : \A k \in 1..Len(words[i]) : <<i, k>> \in Places(words)
  <1>1. /\ Len(words) \in Nat /\ DOMAIN words = 1..Len(words)
        /\ \A i \in 1..Len(words) : DOMAIN words[i] = 1..Len(words[i]) /\ Len(words[i]) \in Nat
    BY DEF Spelled
  <1>2. ASSUME NEW x \in Places(words)
        PROVE  /\ x = <<x[1], x[2]>> /\ x \in Nat \X Nat
               /\ x[1] \in 1..Len(words) /\ x[2] \in 1..Len(words[x[1]])
    <2>1. PICK i \in DOMAIN words : x \in {i} \X DOMAIN words[i]
      BY DEF Places
    <2>2. i \in 1..Len(words) /\ i \in Nat /\ DOMAIN words[i] = 1..Len(words[i])
      BY <1>1
    <2>3. x[1] = i /\ x[2] \in 1..Len(words[i]) /\ x = <<x[1], x[2]>>
      BY <2>1, <2>2
    <2>4. x[2] \in Nat
      BY <1>1, <2>3
    <2> QED
      BY <2>2, <2>3, <2>4
  <1>3. ASSUME NEW i \in 1..Len(words), NEW k \in 1..Len(words[i])
        PROVE  <<i, k>> \in Places(words)
    BY <1>1 DEF Places
  <1> QED
    BY <1>2, <1>3

(* An exact match is the first reading; any other is the best run of words *)
(* where there is no reading.                                              *)
LEMMA MatchMeaning ==
  ASSUME NEW quote, DOMAIN quote = 1..Len(quote), Len(quote) \in Nat, Len(quote) > 0,
         NEW words, Spelled(words)
  PROVE  LET match == Match(quote, words)
         IN  /\ match.tier \in {"EXACT", "FUZZY", "FAILED"}
             /\ match.tier = "EXACT" =>
                  /\ match.first \in Readings(quote, words)
                  /\ match.last = LastPlace(quote, match.first)
                  /\ \A x \in Readings(quote, words) : ~ Precedes(x, match.first)
             /\ match.tier = "FUZZY" =>
                  /\ Readings(quote, words) = {}
                  /\ \E i \in Starts(quote, words) :
                       /\ match.first = <<i, 1>>
                       /\ match.last = <<i + Len(quote) - 1, Len(words[i + Len(quote) - 1])>>
                       /\ \A j \in Starts(quote, words) \ {i} :
                            Agreement(quote, words, j) < Agreement(quote, words, i)
  <1> DEFINE match == Match(quote, words)
             exact == Readings(quote, words)
             idx == CHOOSE x \in exact : \A y \in exact : ~ Precedes(y, x)
             start == _fuzzy_match(quote, words)
  <1>1. CASE exact # {}
    <2>1. exact \subseteq Nat \X Nat
      BY PlaceMeaning DEF Readings
    <2> HIDE DEF exact
    <2>2. \E x \in exact : \A y \in exact : ~ Precedes(y, x)
      BY <1>1, <2>1, FirstPlace
    <2>3. idx \in exact /\ \A y \in exact : ~ Precedes(y, idx)
      BY <2>2
    <2>4. match.tier = "EXACT" /\ match.first = idx /\ match.last = LastPlace(quote, idx)
      BY <1>1 DEF Match, Readings, exact
    <2> HIDE DEF idx, match
    <2> QED
      BY <2>3, <2>4 DEF exact, match
  <1>2. CASE exact = {} /\ start # None
    <2>1. /\ match.tier = "FUZZY" /\ match.first = <<start, 1>>
          /\ match.last = <<start + Len(quote) - 1, Len(words[start + Len(quote) - 1])>>
      BY <1>2 DEF Match, Readings
    <2>2. /\ start \in Starts(quote, words)
          /\ \A i \in Starts(quote, words) \ {start} :
               Agreement(quote, words, i) < Agreement(quote, words, start)
      BY <1>2, FuzzyMeaning DEF Spelled
    <2> HIDE DEF start, match, exact
    <2> QED
      BY <1>2, <2>1, <2>2 DEF match, exact
  <1>3. CASE exact = {} /\ start = None
    <2>1. match.tier = "FAILED"
      BY <1>3 DEF Match, Readings
    <2> HIDE DEF match
    <2> QED
      BY <2>1 DEF match
  <1> QED
    BY <1>1, <1>2, <1>3

(* Some chunk holds any character of the text.                             *)
LEMMA ChunksCover ==
  ASSUME TextInv, phase \notin {"detect", "window", "chunk"},
         NEW x \in Nat, x < TextLength
  PROVE  \E k \in DOMAIN chunks : chunks[k][1] <= x /\ x < chunks[k][2]
  <1> DEFINE N == Len(chunks)
             past == {k \in 1..N : x < chunks[k][2]}
             least == Min(past)
  <1>1. /\ chunks \in Seq(Nat \X Nat) /\ N \in Nat /\ N > 0 /\ DOMAIN chunks = 1..N
        /\ chunks[N][2] = TextLength
    <2>1. chunks \in Seq(Nat \X Nat) /\ chunks # <<>> /\ chunks[Len(chunks)][2] = TextLength
      BY DEF TextInv, ChunksInv
    <2> QED
      BY <2>1
  <1>2. past \subseteq Nat /\ N \in past
    BY <1>1
  <1>3. least \in past /\ \A k \in past : least <= k
    BY <1>2, LeastNumber, Zenon
  <1>4. least \in 1..N /\ x < chunks[least][2]
    BY <1>3
  <1>5. \A k \in 1..N : /\ chunks[k][1] \in Nat /\ chunks[k][2] \in Nat
                        /\ chunks[k][1] = (k - 1) * (chunk_size - overlap)
                        /\ chunks[k][2] = IF chunks[k][1] + chunk_size <= TextLength
                                          THEN chunks[k][1] + chunk_size ELSE TextLength
    <2> TAKE k \in 1..N
    <2>1. chunks[k] \in Nat \X Nat
      BY <1>1
    <2> QED
      BY <2>1 DEF TextInv, ChunksInv
  <1> HIDE DEF least
  <1>6. chunks[least][1] <= x
    <2>1. CASE least = 1
      <3>1. 0 * (chunk_size - overlap) = 0
        BY ChunkSteps
      <3>2. chunks[1][1] = 0
        BY <1>4, <1>5, <2>1, <3>1
      <3> QED
        BY <2>1, <3>2
    <2>2. CASE least # 1
      <3> DEFINE j == least - 1
                 d == chunk_size - overlap
      <3>1. j \in 1..N /\ ~ least <= j /\ least = j + 1 /\ j - 1 \in Nat /\ j - 1 + 1 = j
            /\ least - 1 = j
        BY <1>1, <1>4, <2>2
      <3>2. ~ x < chunks[j][2]
        <4> HIDE DEF j
        <4>1. j \notin past
          BY <1>3, <3>1, Zenon
        <4> QED
          BY <3>1, <4>1
      <3> HIDE DEF j
      <3>3. chunks[least][1] = j * d
        BY <1>4, <1>5, <3>1
      <3>4. chunks[j][1] = (j - 1) * d
        BY <1>5, <3>1
      <3>5. j * d = (j - 1) * d + d
        BY <3>1, ChunkSteps
      <3>6. d \in Nat /\ d <= chunk_size /\ chunk_size \in Nat
        BY ChunkSteps
      <3> HIDE DEF d
      <3>7. chunks[least][1] = chunks[j][1] + d
        BY <3>3, <3>4, <3>5
      <3>8. TextLength \in Nat
        BY TextHasLength DEF TextInv, ChaptersInv
      <3> DEFINE from == chunks[j][1]
                 to == chunks[j][2]
      <3>9. /\ from \in Nat /\ to \in Nat
            /\ to = IF from + chunk_size <= TextLength THEN from + chunk_size ELSE TextLength
        BY <1>5, <3>1
      <3> HIDE DEF from, to
      <3>10. from + d <= x
        BY <3>2, <3>6, <3>8, <3>9 DEF to
      <3> QED
        BY <3>7, <3>10 DEF from
    <2> QED
      BY <2>1, <2>2
  <1> QED
    BY <1>1, <1>4, <1>6

(* A quote is only ever located in a window, once the text is in chunks.   *)
LocatedInv ==
  located # None =>
    /\ phase = "index"
    /\ \E quote \in Quotes : \E i \in DOMAIN windows :
         LET match == resolve_quote(quote, windows[i])
         IN  located = [quote |-> quote, window |-> windows[i], match |-> match,
                        provenance |-> IF match.tier = "FAILED" THEN {}
                                       ELSE Clipped(GlobalSpan(windows[i], match))]

(* What is found depends on the text, the windows and the chunks alone.    *)
LEMMA LocatingKept ==
  ASSUME text' = text, chunks' = chunks
  PROVE  /\ \A q, w : resolve_quote(q, w)' = resolve_quote(q, w)
         /\ \A s : Clipped(s)' = Clipped(s)
         /\ \A w, m : GlobalSpan(w, m)' = GlobalSpan(w, m)
  <1>1. \A w : WindowWords(w)' = WindowWords(w)
    BY DEF WindowWords
  <1>2. \A q, w : resolve_quote(q, w)' = resolve_quote(q, w)
    BY <1>1 DEF resolve_quote
  <1>3. \A s : Clipped(s)' = Clipped(s)
    BY DEF Clipped, chunks_overlapping_span
  <1>4. \A w, m : GlobalSpan(w, m)' = GlobalSpan(w, m)
    BY DEF GlobalSpan, window_offsets
  <1> QED
    BY <1>2, <1>3, <1>4

(* Locating is the only step that changes what is located, but for the     *)
(* graph that takes its place.                                             *)
LEMMA LocatedStep ==
  ASSUME LocatedInv, [Next]_vars
  PROVE  LocatedInv'
  <1>1. CASE Segment
    <2>1. located' = located /\ phase # "index"
      BY <1>1 DEF Segment, DetectChapters, TakeWindow, TakeChunk
    <2> QED
      BY <2>1 DEF LocatedInv
  <1>2. CASE Locate
    <2>1. PICK quote \in Quotes : \E i \in DOMAIN windows : LocateQuote(quote, windows[i])
      BY <1>2 DEF Locate
    <2>2. PICK i \in DOMAIN windows : LocateQuote(quote, windows[i])
      BY <2>1
    <2>3. /\ phase' = "index" /\ text' = text /\ windows' = windows /\ chunks' = chunks
      BY <1>2 DEF Locate, textvars, segmentation
    <2> DEFINE match == resolve_quote(quote, windows[i])
    <2>4. located' = [quote |-> quote, window |-> windows[i], match |-> match,
                      provenance |-> IF match.tier = "FAILED" THEN {}
                                     ELSE Clipped(GlobalSpan(windows[i], match))]
      BY <2>2 DEF LocateQuote
    <2>5. windows'[i] = windows[i] /\ i \in DOMAIN windows'
      BY <2>3
    <2> QED
      BY <2>3, <2>4, <2>5, LocatingKept DEF LocatedInv
  <1>3. CASE ~ Segment /\ ~ Locate
    <2>1. \/ located' = None
          \/ /\ located' = located /\ phase' = phase /\ UNCHANGED textvars
      BY <1>3 DEF Next, vars, Index, LoadGraph, StartQuery, Expand, Answer, Fuse, Finish
    <2>2. CASE located' = None
      BY <2>2 DEF LocatedInv
    <2>3. CASE located' = located /\ phase' = phase /\ UNCHANGED textvars
      <3>1. text' = text /\ windows' = windows /\ chunks' = chunks
        BY <2>3 DEF textvars, segmentation
      <3> QED
        BY <2>3, <3>1, LocatingKept DEF LocatedInv
    <2> QED
      BY <2>1, <2>2, <2>3
  <1> QED
    BY <1>1, <1>2, <1>3

(* The provenance of a passage covers it from end to end, chunk by chunk.  *)
LEMMA ClippedCovers ==
  ASSUME TextInv, phase = "index",
         NEW from \in Nat, NEW to \in Nat, from < to, to < TextLength
  PROVE  UNION {p.char_start..(p.char_end - 1) : p \in Clipped(<<from, to>>)} = from..(to - 1)
  <1> DEFINE span == <<from, to>>
             covered == UNION {p.char_start..(p.char_end - 1) : p \in Clipped(span)}
             part(k) == [chunk_id |-> k,
                         char_start |-> Max({span[1], chunks[k][1]}),
                         char_end |-> Min({span[2], chunks[k][2]})]
             over == chunks_overlapping_span(from, to)
  <1>1. Clipped(span) = {part(k) : k \in over}
    BY DEF Clipped
  <1>2. over = {k \in DOMAIN chunks : chunks[k][1] < to /\ from < chunks[k][2]}
    BY DEF chunks_overlapping_span
  <1>3. \A k \in DOMAIN chunks : chunks[k][1] \in Nat /\ chunks[k][2] \in Nat
    <2>1. chunks \in Seq(Nat \X Nat)
      BY DEF TextInv, ChunksInv
    <2> QED
      BY <2>1
  <1>4. ASSUME NEW k \in DOMAIN chunks
        PROVE  /\ part(k).char_start = IF from >= chunks[k][1] THEN from ELSE chunks[k][1]
               /\ part(k).char_end = IF to <= chunks[k][2] THEN to ELSE chunks[k][2]
    <2> DEFINE a == chunks[k][1]
               b == chunks[k][2]
    <2>1. a \in Nat /\ b \in Nat
      BY <1>3
    <2>2. part(k).char_start = Max({from, a}) /\ part(k).char_end = Min({to, b})
      OBVIOUS
    <2> HIDE DEF part, a, b
    <2>3. /\ Max({from, a}) = IF from >= a THEN from ELSE a
          /\ Min({to, b}) = IF to <= b THEN to ELSE b
      BY <2>1, OfTwo
    <2> QED
      BY <2>2, <2>3 DEF a, b
  <1> HIDE DEF part, span, over
  <1>5. ASSUME NEW x \in from..(to - 1) PROVE x \in covered
    <2>1. x \in Nat /\ x < TextLength /\ from <= x /\ x < to
      <3>1. TextLength \in Nat
        BY TextHasLength DEF TextInv, ChaptersInv
      <3> QED
        BY <3>1
    <2>2. PICK k \in DOMAIN chunks : chunks[k][1] <= x /\ x < chunks[k][2]
      BY <2>1, ChunksCover
    <2>3. chunks[k][1] \in Nat /\ chunks[k][2] \in Nat
      BY <1>3
    <2>4. k \in over
      BY <1>2, <2>1, <2>2, <2>3
    <2>5. x \in part(k).char_start..(part(k).char_end - 1)
      BY <1>4, <2>1, <2>2, <2>3
    <2> QED
      BY <1>1, <2>4, <2>5
  <1>6. ASSUME NEW x \in covered PROVE x \in from..(to - 1)
    <2>1. PICK k \in over : x \in part(k).char_start..(part(k).char_end - 1)
      BY <1>1
    <2>2. /\ k \in DOMAIN chunks /\ chunks[k][1] \in Nat /\ chunks[k][2] \in Nat
      BY <1>2, <1>3
    <2> QED
      BY <1>4, <2>1, <2>2
  <1>7. covered = from..(to - 1)
    BY <1>5, <1>6
  <1> QED
    BY <1>7 DEF span

(* A window that quotes are located in. *)
WindowOf(w) ==
  /\ text \in Texts /\ TotalTokens \in Nat
  /\ w.start \in Nat /\ w.end \in Nat /\ w.start < w.end /\ w.end <= TotalTokens

(* A place of a window is one of the text.                                 *)
LEMMA PlacesOfWindow ==
  ASSUME NEW w, WindowOf(w)
  PROVE  LET told == CanonWords(text.words)
             seen == CanonWords(WindowWords(w))
         IN  /\ Spelled(told) /\ Len(told) = TotalTokens
             /\ Spelled(seen) /\ Len(seen) = w.end - w.start
             /\ \A i \in 1..Len(seen) : w.start + i \in 1..TotalTokens /\ seen[i] = told[w.start + i]
  <1> DEFINE told == CanonWords(text.words)
             shown == WindowWords(w)
             seen == CanonWords(shown)
  <1>1. /\ Wording(text.words) /\ TotalTokens = Len(text.words)
        /\ Wording(shown) /\ Len(shown) = w.end - w.start
        /\ \A i \in 1..(w.end - w.start) : shown[i] = text.words[w.start + i]
    BY WindowShows, TextAssumption DEF WindowOf, TotalTokens
  <1>2. /\ Spelled(told) /\ Len(told) = TotalTokens
        /\ \A i \in 1..TotalTokens : told[i] = CanonWord(text.words[i])
    BY <1>1, CanonWordsMeaning
  <1> HIDE DEF told, shown
  <1>3. /\ Spelled(seen) /\ Len(seen) = w.end - w.start
        /\ \A i \in 1..(w.end - w.start) : seen[i] = CanonWord(shown[i])
    BY <1>1, CanonWordsMeaning
  <1> HIDE DEF seen
  <1>4. \A i \in 1..(w.end - w.start) : w.start + i \in 1..TotalTokens
    BY DEF WindowOf
  <1>5. \A i \in 1..Len(seen) : w.start + i \in 1..TotalTokens /\ seen[i] = told[w.start + i]
    BY <1>1, <1>2, <1>3, <1>4
  <1> QED
    BY <1>2, <1>3, <1>5 DEF told, seen, shown

(* A quote is read at a place of a window as it is in the text.            *)
LEMMA ReadingShifts ==
  ASSUME NEW w, WindowOf(w),
         NEW quote, DOMAIN quote = 1..Len(quote), Len(quote) \in Nat, Len(quote) > 0,
         NEW i \in 1..(w.end - w.start), NEW k
  PROVE  LET told == CanonWords(text.words)
             seen == CanonWords(WindowWords(w))
         IN  ReadsAt(quote, seen, <<i, k>>)
               <=> /\ ReadsAt(quote, told, <<w.start + i, k>>)
                   /\ w.start + i + Len(quote) - 1 <= w.end
  <1> DEFINE told == CanonWords(text.words)
             seen == CanonWords(WindowWords(w))
             s == w.start
             e == w.end
             n == Len(quote)
             x == <<i, k>>
             y == <<s + i, k>>
             reads(words, p, j) ==
               LET word == words[p[1] + j - 1]
                   from == IF j = 1 THEN p[2] ELSE 1
                   to   == IF j = n THEN from + Len(quote[j]) - 1 ELSE Len(word)
               IN  to <= Len(word) /\ SubSeq(word, from, to) = quote[j]
  <1>1. /\ Len(told) = TotalTokens /\ TotalTokens \in Nat /\ Len(seen) = e - s
        /\ \A m \in 1..Len(seen) : seen[m] = told[s + m]
    BY PlacesOfWindow DEF WindowOf
  <1>2. s \in Nat /\ e \in Nat /\ s < e /\ e <= TotalTokens
    BY DEF WindowOf
  <1>3. /\ ReadsAt(quote, seen, x) <=> /\ x[1] + n - 1 <= Len(seen)
                                       /\ \A j \in 1..n : reads(seen, x, j)
        /\ ReadsAt(quote, told, y) <=> /\ y[1] + n - 1 <= Len(told)
                                       /\ \A j \in 1..n : reads(told, y, j)
    BY DEF ReadsAt
  <1>4. ASSUME i + n - 1 <= e - s, NEW j \in 1..n
        PROVE  reads(seen, x, j) <=> reads(told, y, j)
    <2>1. i + j - 1 \in 1..(e - s) /\ s + (i + j - 1) = s + i + j - 1
      BY <1>2, <1>4
    <2>2. seen[i + j - 1] = told[s + i + j - 1]
      BY <1>1, <2>1
    <2> HIDE DEF seen, told, s, e
    <2> QED
      BY <2>2
  <1>5. /\ x[1] + n - 1 <= Len(seen) <=> i + n - 1 <= e - s
        /\ y[1] + n - 1 <= Len(told) <=> s + i + n - 1 <= TotalTokens
    BY <1>1
  <1>6. i + n - 1 <= e - s <=> s + i + n - 1 <= e
    BY <1>2
  <1>7. s + i + n - 1 <= e => s + i + n - 1 <= TotalTokens
    <2> DEFINE m == s + i + n - 1
    <2>1. m \in Int
      BY <1>2
    <2> HIDE DEF m, s, e
    <2> QED
      BY <1>1, <1>2, <2>1 DEF m
  <1> HIDE DEF reads, told, seen, s, e, x, y, n
  <1>8. ReadsAt(quote, seen, x) <=> ReadsAt(quote, told, y) /\ s + i + n - 1 <= e
    BY <1>3, <1>4, <1>5, <1>6, <1>7
  <1> QED
    BY <1>8 DEF told, seen, s, e, x, y, n

(* What is read at a place goes on to a character that is not before it.   *)
LEMMA ReadingEnds ==
  ASSUME NEW words, Spelled(words), NEW quote, Spelled(quote),
         NEW x \in Readings(quote, words)
  PROVE  LET y == LastPlace(quote, x)
         IN  /\ y = <<y[1], y[2]>> /\ y \in Places(words)
             /\ x[1] <= y[1] /\ (x[1] = y[1] => x[2] <= y[2])
  <1> DEFINE n == Len(quote)
             y == LastPlace(quote, x)
             word == words[x[1] + n - 1]
             l == Len(quote[n])
             from == IF n = 1 THEN x[2] ELSE 1
  <1>1. /\ n \in Nat /\ n > 0 /\ n \in DOMAIN quote /\ l \in Nat /\ l > 0
    BY DEF Spelled
  <1>2. /\ x \in Places(words) /\ ReadsAt(quote, words, x)
    BY DEF Readings
  <1>3. /\ x[1] \in 1..Len(words) /\ x[2] \in 1..Len(words[x[1]]) /\ Len(words) \in Nat
        /\ Len(words[x[1]]) \in Nat
    BY <1>2, PlaceMeaning DEF Spelled
  <1>4. x[1] + n - 1 <= Len(words) /\ from + l - 1 <= Len(word)
    BY <1>1, <1>2 DEF ReadsAt
  <1>5. y = <<x[1] + n - 1, (IF n = 1 THEN x[2] - 1 ELSE 0) + l>>
    BY DEF LastPlace
  <1> HIDE DEF n, y, word, l
  <1>6. /\ y[1] = x[1] + n - 1 /\ y[1] \in 1..Len(words) /\ x[1] <= y[1]
        /\ y[2] = from + l - 1 /\ y[2] >= 1 /\ y[2] \in Nat /\ (n = 1 => x[2] <= y[2])
        /\ x[1] = y[1] <=> n = 1
    BY <1>1, <1>3, <1>4, <1>5
  <1>7. word = words[y[1]] /\ Len(word) \in Nat /\ y[2] \in 1..Len(word)
    <2>1. word = words[y[1]]
      BY <1>6 DEF word, n
    <2>2. Len(word) \in Nat
      BY <1>6, <2>1 DEF Spelled
    <2> QED
      BY <1>4, <1>6, <2>1, <2>2
  <1>8. y = <<y[1], y[2]>>
    BY <1>5
  <1>9. <<y[1], y[2]>> \in Places(words)
    BY <1>6, <1>7, PlaceMeaning
  <1> QED
    BY <1>6, <1>8, <1>9 DEF y

(* Where the character at a place stands. *)
OffsetOf(x) == text.at[x[1] - 1] + canonicalize_with_offsets(text.words[x[1]])[x[2]][2]

(* Two characters of a window, the second not before the first, and where  *)
(* they stand in the text.                                                 *)
LiesIn(w, x, y) ==
  /\ x[1] \in 1..(w.end - w.start) /\ y[1] \in 1..(w.end - w.start) /\ x[1] <= y[1]
  /\ x[2] \in 1..Len(CanonWords(text.words)[w.start + x[1]])
  /\ y[2] \in 1..Len(CanonWords(text.words)[w.start + y[1]])
  /\ x[1] = y[1] => x[2] <= y[2]

Standing(w, x) == OffsetOf(<<w.start + x[1], x[2]>>)

(* A match of a window begins where its first character stands and ends    *)
(* after its last one.                                                     *)
LEMMA MatchLies ==
  ASSUME NEW w, WindowOf(w), NEW match, LiesIn(w, match.first, match.last)
  PROVE  LET from == Standing(w, match.first)
             to   == Standing(w, match.last)
         IN  /\ GlobalSpan(w, match) = <<from, to + 1>>
             /\ from \in Nat /\ to \in Nat /\ from <= to /\ to + 1 < TextLength
  <1> DEFINE i == match.first[1]
             k == match.first[2]
             j == match.last[1]
             l == match.last[2]
  <1>0. /\ i \in 1..(w.end - w.start) /\ j \in 1..(w.end - w.start) /\ i <= j
        /\ k \in 1..Len(CanonWords(text.words)[w.start + i])
        /\ l \in 1..Len(CanonWords(text.words)[w.start + j])
        /\ i = j => k <= l
    BY DEF LiesIn
  <1>10. /\ match.first[1] = i /\ match.first[2] = k /\ match.last[1] = j /\ match.last[2] = l
    OBVIOUS
  <1> HIDE DEF i, j, k, l
  <1> DEFINE s == w.start
             e == w.end
             base == text.at[s]
             a == s + i
             b == s + j
             p == canonicalize_with_offsets(text.words[a])[k][2]
             q == canonicalize_with_offsets(text.words[b])[l][2]
             from == text.at[a - 1] + p
             to == text.at[b - 1] + q
  <1>1. /\ text \in Texts /\ TotalTokens \in Nat /\ TotalTokens = Len(text.words)
        /\ s \in Nat /\ e \in Nat /\ s < e /\ e <= TotalTokens
    BY DEF WindowOf, TotalTokens
  <1>2. /\ a \in 1..TotalTokens /\ b \in 1..TotalTokens /\ s \in 0..TotalTokens
        /\ a <= b /\ (i = j <=> a = b)
    <2>1. i \in 1..(e - s) /\ j \in 1..(e - s) /\ i <= j
      BY <1>0
    <2> HIDE DEF s, e
    <2> QED
      BY <1>1, <2>1
  <1>3. /\ text.words \in Seq(ToSet(text.words))
        /\ \A m \in 0..TotalTokens : text.at[m] \in Nat
        /\ \A m, n \in 0..TotalTokens : m < n => text.at[m] < text.at[n]
        /\ \A m \in 1..TotalTokens :
             /\ text.words[m] \in Seq(ToSet(text.words[m])) \ {<<>>}
             /\ Len(text.words[m]) \in Nat
             /\ Blank(text, m) \in Nat /\ Blank(text, m) > 0
             /\ m - 1 \in 0..TotalTokens /\ m \in 0..TotalTokens
             /\ text.at[m] = text.at[m - 1] + Len(text.words[m]) + Blank(text, m)
    <2>1. ASSUME NEW m \in 1..TotalTokens PROVE text.words[m] # <<>>
      <3>1. Len(text.words[m]) > 0
        BY <1>1, WordOffsets
      <3> QED
        BY <3>1
    <2> QED
      BY <1>1, <2>1, WordOffsets, Offsets
  <1>4. Wording(text.words)
    BY <1>1, TextAssumption
  <1>5. /\ k \in 1..Len(canonicalize_with_offsets(text.words[a]))
        /\ l \in 1..Len(canonicalize_with_offsets(text.words[b]))
    BY <1>0, <1>1, <1>2, <1>4, CanonWordsMeaning
  <1>6. /\ p \in 0..(Len(text.words[a]) - 1) /\ q \in 0..(Len(text.words[b]) - 1)
        /\ a = b => p <= q
    <2>1. p \in 0..(Len(text.words[a]) - 1) /\ q \in 0..(Len(text.words[b]) - 1)
      BY <1>2, <1>3, <1>5, CanonMeaning
    <2>2. ASSUME a = b PROVE p <= q
      <3>1. k <= l
        BY <1>0, <1>2, <2>2
      <3> QED
        BY <1>2, <1>3, <1>5, <2>2, <3>1, CanonMeaning
    <2> QED
      BY <2>1, <2>2
  <1> DEFINE u == text.at[a - 1]
             v == text.at[b - 1]
             ul == Len(text.words[a])
             vl == Len(text.words[b])
             vb == Blank(text, b)
             ub == Blank(text, a)
  <1>7. /\ u \in Nat /\ v \in Nat /\ ul \in Nat /\ vl \in Nat /\ vb \in Nat /\ vb > 0
        /\ ub \in Nat /\ ub > 0
        /\ text.at[a] = u + ul + ub /\ text.at[b] = v + vl + vb
        /\ base \in Nat /\ TextLength \in Nat /\ text.at[b] <= TextLength
    <2>1. TotalTokens \in 0..TotalTokens /\ b \in 0..TotalTokens /\ (b = TotalTokens \/ b < TotalTokens)
      BY <1>1, <1>2
    <2>2. TextLength \in Nat /\ text.at[b] \in Nat /\ text.at[b] <= TextLength
      BY <1>3, <2>1 DEF TextLength
    <2> QED
      BY <1>2, <1>3, <2>2
  <1>8. a = b \/ text.at[a] <= v
    <2>1. a = b \/ a = b - 1 \/ a < b - 1
      <3> HIDE DEF a, b
      <3> QED
        BY <1>1, <1>2
    <2>2. a \in 0..TotalTokens /\ b - 1 \in 0..TotalTokens
      BY <1>2, <1>3
    <2> QED
      BY <1>3, <2>1, <2>2
  <1>9. a = b => u = v
    OBVIOUS
  <1>11. /\ window_offsets(w, match.first) = u - base + p
         /\ window_offsets(w, match.last) = v - base + q
    BY <1>10 DEF window_offsets
  <1>12. GlobalSpan(w, match) = <<base + (u - base + p), base + ((v - base + q) + 1)>>
    BY <1>11 DEF GlobalSpan
  <1>13. from = u + p /\ to = v + q
    OBVIOUS
  <1>14. Standing(w, match.first) = from /\ Standing(w, match.last) = to
    BY <1>10 DEF Standing, OffsetOf
  <1>15. p \in 0..(ul - 1) /\ q \in 0..(vl - 1) /\ (a = b => p <= q)
    BY <1>6
  <1> HIDE DEF s, e, base, a, b, p, q, u, v, ul, vl, ub, vb, from, to
  <1>16. /\ base + (u - base + p) = from /\ base + ((v - base + q) + 1) = to + 1
         /\ from \in Nat /\ to \in Nat /\ from <= to /\ to + 1 < TextLength
    <2>1. /\ p \in Nat /\ q \in Nat /\ p < ul /\ q < vl
      BY <1>7, <1>15
    <2>2. from \in Nat /\ to \in Nat
      BY <1>7, <1>13, <2>1
    <2>3. v + vl + vb <= TextLength
      BY <1>7
    <2>4. to + 1 < TextLength
      BY <1>7, <1>13, <2>1, <2>3
    <2>5. from <= to
      <3>1. CASE a = b
        BY <1>7, <1>9, <1>13, <1>15, <2>1, <3>1
      <3>2. CASE a # b
        <4>1. u + ul + ub <= v
          BY <1>7, <1>8, <3>2
        <4> QED
          BY <1>7, <1>13, <2>1, <4>1
      <3> QED
        BY <3>1, <3>2
    <2>6. base + (u - base + p) = from /\ base + ((v - base + q) + 1) = to + 1
      BY <1>7, <1>13, <2>1
    <2> QED
      BY <2>2, <2>4, <2>5, <2>6
  <1> QED
    BY <1>12, <1>14, <1>16

(* A quote that is located in a window is read there, or nowhere, as it    *)
(* would be in the text.                                                   *)
LEMMA LocatedWhere ==
  ASSUME TextInv, LocatedInv, located # None, located.match.tier # "FAILED"
  PROVE  LET w == located.window
             quote == CanonWords(located.quote)
             seen == CanonWords(WindowWords(w))
         IN  /\ phase = "index" /\ WindowOf(w) /\ Spelled(quote)
             /\ located.match = Match(quote, seen)
             /\ located.provenance = Clipped(GlobalSpan(w, located.match))
  <1>1. phase = "index"
    BY DEF LocatedInv
  <1>2. PICK q \in Quotes : \E i \in DOMAIN windows :
          LET match == resolve_quote(q, windows[i])
          IN  located = [quote |-> q, window |-> windows[i], match |-> match,
                         provenance |-> IF match.tier = "FAILED" THEN {}
                                        ELSE Clipped(GlobalSpan(windows[i], match))]
    BY DEF LocatedInv
  <1>3. PICK i \in DOMAIN windows :
          LET match == resolve_quote(q, windows[i])
          IN  located = [quote |-> q, window |-> windows[i], match |-> match,
                         provenance |-> IF match.tier = "FAILED" THEN {}
                                        ELSE Clipped(GlobalSpan(windows[i], match))]
    BY <1>2
  <1> DEFINE w == windows[i]
  <1>4. /\ located.quote = q /\ located.window = w /\ located.match = resolve_quote(q, w)
        /\ located.provenance = IF located.match.tier = "FAILED" THEN {}
                                ELSE Clipped(GlobalSpan(w, located.match))
    BY <1>3
  <1>5. Spelled(CanonWords(q))
    BY QuoteAssumption, CanonWordsMeaning
  <1>6. WindowOf(w)
    <2>1. windows \in Seq(Window) /\ DOMAIN windows = 1..Len(windows)
      BY DEF TextInv, CursorInv
    <2>2. w \in Window /\ i \in 1..Len(windows)
      BY <2>1
    <2>3. Divided(chapters, TotalTokens)
      BY <1>1 DEF TextInv, ChaptersInv
    <2>4. /\ Owner(w) \in 1..Len(chapters) /\ w.end <= chapters[Owner(w)][2]
          /\ w.end - w.start \in 1..max_tokens
      BY <2>2 DEF TextInv, WindowsInv
    <2>5. chapters[Owner(w)][2] <= TotalTokens /\ chapters[Owner(w)][2] \in Nat
      BY <2>3, <2>4 DEF Divided
    <2>6. w.start \in Nat /\ w.end \in Nat
      BY <2>2 DEF Window
    <2>7. TotalTokens \in Nat /\ text \in Texts
      BY TextHasLength DEF TextInv, ChaptersInv
    <2>8. w.start < w.end
      BY <2>4, <2>6
    <2>9. w.end <= TotalTokens
      BY <2>4, <2>5, <2>6, <2>7
    <2> QED
      BY <2>6, <2>7, <2>8, <2>9 DEF WindowOf
  <1> HIDE DEF w
  <1>7. located.match = Match(CanonWords(located.quote), CanonWords(WindowWords(located.window)))
    BY <1>4 DEF resolve_quote
  <1> QED
    BY <1>1, <1>4, <1>5, <1>6, <1>7

(* A reading of a window is one of the text that keeps within the window.  *)
LEMMA ReadingsOfWindow ==
  ASSUME NEW w, WindowOf(w), NEW quote, Spelled(quote)
  PROVE  LET told == CanonWords(text.words)
             seen == CanonWords(WindowWords(w))
             reading == {x \in Places(told) :
                           /\ w.start < x[1] /\ LastPlace(quote, x)[1] <= w.end
                           /\ ReadsAt(quote, told, x)}
         IN  /\ \A x \in Readings(quote, seen) : <<w.start + x[1], x[2]>> \in reading
             /\ \A y \in reading : <<y[1] - w.start, y[2]>> \in Readings(quote, seen)
  <1> DEFINE told == CanonWords(text.words)
             seen == CanonWords(WindowWords(w))
             s == w.start
             e == w.end
             n == Len(quote)
             reading == {x \in Places(told) :
                           /\ s < x[1] /\ LastPlace(quote, x)[1] <= e
                           /\ ReadsAt(quote, told, x)}
  <1>1. /\ n \in Nat /\ n > 0 /\ DOMAIN quote = 1..n
        /\ s \in Nat /\ e \in Nat /\ s < e /\ e <= TotalTokens /\ TotalTokens \in Nat
    BY DEF Spelled, WindowOf
  <1>2. /\ Spelled(told) /\ Len(told) = TotalTokens /\ Spelled(seen) /\ Len(seen) = e - s
        /\ \A i \in 1..(e - s) : s + i \in 1..TotalTokens /\ seen[i] = told[s + i]
    BY PlacesOfWindow
  <1>3. \A x : LastPlace(quote, x)[1] = x[1] + n - 1
    BY DEF LastPlace
  <1>4. \A i \in 1..(e - s) : \A k :
          ReadsAt(quote, seen, <<i, k>>)
            <=> ReadsAt(quote, told, <<s + i, k>>) /\ s + i + n - 1 <= e
    BY <1>1, ReadingShifts
  <1> HIDE DEF told, seen, s, e, n
  <1>5. ASSUME NEW x \in Readings(quote, seen) PROVE <<s + x[1], x[2]>> \in reading
    <2>1. /\ x = <<x[1], x[2]>> /\ x[1] \in 1..(e - s) /\ x[2] \in 1..Len(seen[x[1]])
          /\ ReadsAt(quote, seen, x)
      BY <1>2, PlaceMeaning DEF Readings
    <2>2. ReadsAt(quote, told, <<s + x[1], x[2]>>) /\ s + x[1] + n - 1 <= e
      BY <1>4, <2>1
    <2>3. <<s + x[1], x[2]>> \in Places(told)
      BY <1>2, <2>1, PlaceMeaning
    <2>4. s < s + x[1]
      BY <1>1, <2>1
    <2>5. LastPlace(quote, <<s + x[1], x[2]>>)[1] = s + x[1] + n - 1
      BY <1>3
    <2> QED
      BY <2>2, <2>3, <2>4, <2>5
  <1>6. ASSUME NEW y \in reading PROVE <<y[1] - s, y[2]>> \in Readings(quote, seen)
    <2>1. /\ y = <<y[1], y[2]>> /\ y[1] \in 1..TotalTokens /\ y[2] \in 1..Len(told[y[1]])
          /\ ReadsAt(quote, told, y) /\ s < y[1] /\ LastPlace(quote, y)[1] <= e
      BY <1>2, PlaceMeaning
    <2>2. y[1] + n - 1 <= e
      BY <1>3, <2>1
    <2>3. y[1] - s \in 1..(e - s) /\ s + (y[1] - s) = y[1]
      BY <1>1, <2>1, <2>2
    <2>4. ReadsAt(quote, seen, <<y[1] - s, y[2]>>)
      <3>1. ReadsAt(quote, told, <<s + (y[1] - s), y[2]>>) /\ s + (y[1] - s) + n - 1 <= e
        BY <2>1, <2>2, <2>3
      <3> QED
        BY <1>4, <2>3, <3>1
    <2>5. <<y[1] - s, y[2]>> \in Places(seen)
      BY <1>2, <2>1, <2>3, PlaceMeaning
    <2> QED
      BY <2>4, <2>5 DEF Readings
  <1> QED
    BY <1>5, <1>6 DEF told, seen, s, e

(* What is located covers its match, from the first character to the last. *)
LEMMA MatchCovers ==
  ASSUME TextInv, phase = "index", NEW w, WindowOf(w), NEW match,
         LiesIn(w, match.first, match.last)
  PROVE  UNION {p.char_start..(p.char_end - 1) : p \in Clipped(GlobalSpan(w, match))}
           = Standing(w, match.first)..Standing(w, match.last)
  <1> DEFINE from == Standing(w, match.first)
             to == Standing(w, match.last)
  <1>1. /\ GlobalSpan(w, match) = <<from, to + 1>>
        /\ from \in Nat /\ to \in Nat /\ from <= to /\ to + 1 < TextLength
    BY MatchLies
  <1> HIDE DEF from, to
  <1>2. to + 1 \in Nat /\ from < to + 1 /\ (to + 1) - 1 = to
    BY <1>1
  <1>3. UNION {p.char_start..(p.char_end - 1) : p \in Clipped(<<from, to + 1>>)}
          = from..((to + 1) - 1)
    BY <1>1, <1>2, ClippedCovers
  <1> QED
    BY <1>1, <1>2, <1>3 DEF from, to

(* Evidence lies where the quote is.                                       *)
THEOREM EvidenceLiesWhereQuoted == Spec => []EvidenceIsWhereQuoted
  <1>1. TextInv /\ LocatedInv => EvidenceIsWhereQuoted
    <2> SUFFICES ASSUME TextInv, LocatedInv, located # None, located.match.tier # "FAILED"
                 PROVE  EvidenceIsWhereQuoted
      BY DEF EvidenceIsWhereQuoted
    <2> DEFINE w == located.window
               match == located.match
               quote == CanonWords(located.quote)
               told == CanonWords(text.words)
               seen == CanonWords(WindowWords(w))
               s == w.start
               n == Len(quote)
               first == <<s + match.first[1], match.first[2]>>
               last == <<s + match.last[1], match.last[2]>>
               reading == {x \in Places(told) :
                             /\ s < x[1] /\ LastPlace(quote, x)[1] <= w.end
                             /\ ReadsAt(quote, told, x)}
               covered == UNION {p.char_start..(p.char_end - 1) : p \in located.provenance}
    <2>1. /\ phase = "index" /\ WindowOf(w) /\ Spelled(quote) /\ match = Match(quote, seen)
          /\ located.provenance = Clipped(GlobalSpan(w, match))
      BY LocatedWhere
    <2>2. /\ s \in Nat /\ w.end \in Nat /\ s < w.end /\ n \in Nat /\ n > 0 /\ DOMAIN quote = 1..n
      BY <2>1 DEF WindowOf, Spelled
    <2>3. /\ Spelled(seen) /\ Len(seen) = w.end - s
          /\ \A i \in 1..(w.end - s) : seen[i] = told[s + i]
      BY <2>1, PlacesOfWindow
    <2>4. /\ \A x \in Readings(quote, seen) : <<s + x[1], x[2]>> \in reading
          /\ \A y \in reading : <<y[1] - s, y[2]>> \in Readings(quote, seen)
      BY <2>1, ReadingsOfWindow
    <2>5. /\ match.tier \in {"EXACT", "FUZZY", "FAILED"}
          /\ match.tier = "EXACT" =>
               /\ match.first \in Readings(quote, seen)
               /\ match.last = LastPlace(quote, match.first)
               /\ \A x \in Readings(quote, seen) : ~ Precedes(x, match.first)
          /\ match.tier = "FUZZY" =>
               /\ Readings(quote, seen) = {}
               /\ \E i \in Starts(quote, seen) :
                    /\ match.first = <<i, 1>>
                    /\ match.last = <<i + n - 1, Len(seen[i + n - 1])>>
                    /\ \A j \in Starts(quote, seen) \ {i} :
                         Agreement(quote, seen, j) < Agreement(quote, seen, i)
      BY <2>1, <2>2, <2>3, MatchMeaning
    <2>6. reading \subseteq Places(told) /\ Spelled(told)
      BY <2>1, PlacesOfWindow
    <2> HIDE DEF reading
    <2>7. ASSUME LiesIn(w, match.first, match.last) PROVE covered = OffsetOf(first)..OffsetOf(last)
      <3>1. UNION {p.char_start..(p.char_end - 1) : p \in Clipped(GlobalSpan(w, match))}
              = Standing(w, match.first)..Standing(w, match.last)
        <4> HIDE DEF w, match
        <4> QED
          BY <2>1, <2>7, MatchCovers
      <3> QED
        BY <2>1, <3>1 DEF Standing
    <2>8. ASSUME match.tier = "EXACT"
          PROVE  /\ covered = OffsetOf(first)..OffsetOf(last)
                 /\ first \in reading /\ last = LastPlace(quote, first)
                 /\ \A x \in reading : ~ Precedes(x, first)
      <3> DEFINE x == match.first
                 y == match.last
      <3>1. x \in Readings(quote, seen) /\ y = LastPlace(quote, x)
        BY <2>5, <2>8
      <3> HIDE DEF match, quote, seen, told, w, n
      <3>2. /\ y = <<y[1], y[2]>> /\ y \in Places(seen)
            /\ x[1] <= y[1] /\ (x[1] = y[1] => x[2] <= y[2])
        BY <2>1, <2>3, <3>1, ReadingEnds
      <3>3. /\ x = <<x[1], x[2]>> /\ x[1] \in 1..(w.end - s) /\ x[2] \in 1..Len(told[s + x[1]])
            /\ y[1] \in 1..(w.end - s) /\ y[2] \in 1..Len(told[s + y[1]])
        BY <2>3, <3>1, <3>2, PlaceMeaning DEF Readings
      <3>4. covered = OffsetOf(first)..OffsetOf(last)
        <4>1. LiesIn(w, x, y)
          BY <3>2, <3>3 DEF LiesIn, told
        <4> QED
          BY <2>7, <4>1
      <3>5. first \in reading
        BY <2>4, <3>1
      <3>6. last = LastPlace(quote, first)
        <4>1. /\ y[1] = x[1] + n - 1
              /\ y[2] = (IF n = 1 THEN x[2] - 1 ELSE 0) + Len(quote[n])
          BY <3>1 DEF LastPlace, n
        <4>2. LastPlace(quote, first)
                = <<s + x[1] + n - 1, (IF n = 1 THEN x[2] - 1 ELSE 0) + Len(quote[n])>>
          BY DEF LastPlace, n
        <4>3. s + y[1] = s + x[1] + n - 1
          BY <2>2, <3>3, <4>1
        <4> QED
          BY <4>1, <4>2, <4>3
      <3>7. ASSUME NEW z \in reading PROVE ~ Precedes(z, first)
        <4>1. <<z[1] - s, z[2]>> \in Readings(quote, seen)
          BY <2>4
        <4>2. ~ Precedes(<<z[1] - s, z[2]>>, x)
          BY <2>5, <2>8, <4>1
        <4>3. z[1] \in Nat /\ z[2] \in Nat /\ x[1] \in Nat
          <5>1. z \in Nat \X Nat
            BY <2>6, PlaceMeaning
          <5> QED
            BY <3>3, <5>1
        <4>4. /\ z[1] - s < x[1] <=> z[1] < s + x[1]
              /\ z[1] - s = x[1] <=> z[1] = s + x[1]
          BY <2>2, <4>3
        <4> QED
          BY <4>2, <4>4 DEF Precedes
      <3> QED
        BY <3>4, <3>5, <3>6, <3>7
    <2>9. ASSUME match.tier = "FUZZY"
          PROVE  /\ covered = OffsetOf(first)..OffsetOf(last)
                 /\ reading = {}
                 /\ first[2] = 1 /\ last[2] = Len(told[last[1]])
                 /\ last[1] - first[1] + 1 = n
                 /\ \A i \in Starts(quote, seen) \ {match.first[1]} :
                      Agreement(quote, seen, i) < Agreement(quote, seen, match.first[1])
      <3>1. PICK i \in Starts(quote, seen) :
              /\ match.first = <<i, 1>>
              /\ match.last = <<i + n - 1, Len(seen[i + n - 1])>>
              /\ \A j \in Starts(quote, seen) \ {i} :
                   Agreement(quote, seen, j) < Agreement(quote, seen, i)
        BY <2>5, <2>9
      <3> DEFINE j == i + n - 1
      <3>2. i \in 1..(w.end - s) /\ j \in 1..(w.end - s) /\ i <= j
        <4>1. i \in 1..(w.end - s - n + 1)
          BY <2>3, <3>1 DEF Starts
        <4> HIDE DEF w, s, n
        <4> QED
          BY <2>2, <4>1
      <3>3. seen[i] = told[s + i] /\ seen[j] = told[s + j]
        BY <2>3, <3>2
      <3>4. /\ Len(seen[i]) \in Nat /\ Len(seen[i]) > 0 /\ Len(seen[j]) \in Nat /\ Len(seen[j]) > 0
        BY <2>3, <3>2 DEF Spelled
      <3> HIDE DEF match, quote, seen, told, w, n
      <3>5. /\ match.first[1] = i /\ match.first[2] = 1
            /\ match.last[1] = j /\ match.last[2] = Len(seen[j]) /\ match.last = <<j, Len(seen[j])>>
        BY <3>1
      <3>6. 1 \in 1..Len(told[s + i]) /\ Len(seen[j]) \in 1..Len(told[s + j])
            /\ (i = j => 1 <= Len(seen[j]))
        BY <3>3, <3>4
      <3> HIDE DEF j
      <3>7. covered = OffsetOf(first)..OffsetOf(last)
        <4>1. LiesIn(w, match.first, match.last)
          BY <3>2, <3>5, <3>6 DEF LiesIn, told
        <4> QED
          BY <2>7, <4>1
      <3>8. reading = {}
        <4>1. Readings(quote, seen) = {}
          BY <2>5, <2>9
        <4> QED
          BY <2>4, <4>1
      <3>9. last[1] - first[1] + 1 = n
        <4>1. last[1] = s + j /\ first[1] = s + i
          BY <3>5
        <4>2. (s + (i + n - 1)) - (s + i) + 1 = n
          <5>1. i \in Nat
            BY <3>2
          <5> HIDE DEF s
          <5> QED
            BY <2>2, <5>1
        <4> QED
          BY <4>1, <4>2 DEF j
      <3>10. first[2] = 1 /\ last[2] = Len(told[last[1]])
        BY <3>3, <3>5
      <3> QED
        BY <3>1, <3>5, <3>7, <3>8, <3>9, <3>10
    <2>10. /\ covered = OffsetOf(first)..OffsetOf(last)
      BY <2>5, <2>8, <2>9
    <2> QED
      BY <2>8, <2>9, <2>10 DEF EvidenceIsWhereQuoted, OffsetOf, reading
  <1>2. Init => LocatedInv
    BY DEF Init, TextInit, LocatedInv
  <1>3. LocatedInv /\ [Next]_vars => LocatedInv'
    BY LocatedStep
  <1>4. Spec => []LocatedInv
    BY <1>2, <1>3, PTL DEF Spec
  <1> QED
    BY <1>1, <1>4, TextCorrect, PTL

-----------------------------------------------------------------------------
(* The graph. *)

(* The chunks are numbered. *)
LEMMA ChunkNumbers ==
  ASSUME TextInv
  PROVE  /\ DOMAIN chunks = 1..Len(chunks) /\ Len(chunks) \in Nat
         /\ IsFiniteSet(DOMAIN chunks) /\ DOMAIN chunks \subseteq Nat
  <1>1. chunks \in Seq(Nat \X Nat)
    BY DEF TextInv, ChunksInv
  <1>2. DOMAIN chunks = 1..Len(chunks) /\ Len(chunks) \in Nat
    BY <1>1
  <1> QED
    BY <1>2, FS_Interval

(* A word lies in the text. *)
LEMMA WordFits ==
  ASSUME text \in Texts, NEW i \in 1..TotalTokens
  PROVE  /\ i - 1 \in 0..TotalTokens /\ i \in 0..TotalTokens /\ TotalTokens \in Nat
         /\ text.at[i - 1] \in Nat /\ text.at[i] \in Nat /\ TextLength \in Nat
         /\ Len(text.words[i]) \in Nat /\ Len(text.words[i]) > 0
         /\ Blank(text, i) \in Nat /\ Blank(text, i) > 0
         /\ text.at[i] = text.at[i - 1] + Len(text.words[i]) + Blank(text, i)
         /\ text.at[i] <= TextLength /\ Len(text.words[i]) <= TextLength
  <1> DEFINE at == text.at[i - 1]
             n == Len(text.words[i])
             b == Blank(text, i)
             end == text.at[i]
  <1>1. TotalTokens \in Nat /\ TextLength \in Nat /\ TotalTokens = Len(text.words)
    BY TextHasLength DEF TotalTokens
  <1>2. i - 1 \in 0..TotalTokens /\ i \in 0..TotalTokens /\ TotalTokens \in 0..TotalTokens
    BY <1>1
  <1>3. /\ at \in Nat /\ n \in Nat /\ n > 0 /\ b \in Nat /\ b > 0 /\ end = at + n + b /\ end \in Nat
    BY <1>1, <1>2, WordOffsets
  <1>4. i = TotalTokens \/ i < TotalTokens
    BY <1>1
  <1>5. end <= TextLength
    <2>1. CASE i = TotalTokens
      BY <1>1, <2>1 DEF TextLength
    <2>2. CASE i < TotalTokens
      <3>1. text.at[i] < text.at[TotalTokens]
        BY <1>1, <1>2, <2>2, Offsets
      <3> QED
        BY <1>1, <1>3, <3>1 DEF TextLength
    <2> QED
      BY <1>4, <2>1, <2>2
  <1> HIDE DEF at, n, b, end
  <1>6. n <= TextLength
    BY <1>1, <1>3, <1>5
  <1> QED
    BY <1>1, <1>2, <1>3, <1>5, <1>6 DEF at, n, b, end

(* What a chunk shows of the words it reaches: all of each, but for what   *)
(* lies before it of the first and after it of the last.                   *)
LEMMA ShownBounds ==
  ASSUME text \in Texts, NEW chunk \in Nat \X Nat
  PROVE  /\ DOMAIN ShownOf(chunk) = {i \in 1..TotalTokens : text.at[i - 1] < chunk[2]}
         /\ \A i \in DOMAIN ShownOf(chunk) :
              LET word == text.words[i]
                  at   == text.at[i - 1]
              IN  /\ at \in Nat /\ Len(word) \in Nat
                  /\ ShownOf(chunk)[i][1] = IF chunk[1] <= at THEN 1 ELSE 1 + (chunk[1] - at)
                  /\ ShownOf(chunk)[i][2]
                       = IF at + Len(word) <= chunk[2] THEN Len(word) ELSE chunk[2] - at
                  /\ ShownOf(chunk)[i][1] \in Nat /\ ShownOf(chunk)[i][1] >= 1
                  /\ ShownOf(chunk)[i][2] \in Nat /\ ShownOf(chunk)[i][2] <= Len(word)
  <1> DEFINE shown == ShownOf(chunk)
  <1>1. TotalTokens = Len(text.words) /\ DOMAIN text.words = 1..TotalTokens
    BY WordOffsets DEF TotalTokens
  <1>2. DOMAIN shown = {i \in 1..TotalTokens : text.at[i - 1] < chunk[2]}
    BY <1>1 DEF ShownOf
  <1>3. ASSUME NEW i \in DOMAIN shown
        PROVE  LET word == text.words[i]
                   at   == text.at[i - 1]
               IN  /\ at \in Nat /\ Len(word) \in Nat
                   /\ shown[i][1] = IF chunk[1] <= at THEN 1 ELSE 1 + (chunk[1] - at)
                   /\ shown[i][2] = IF at + Len(word) <= chunk[2] THEN Len(word) ELSE chunk[2] - at
                   /\ shown[i][1] \in Nat /\ shown[i][1] >= 1
                   /\ shown[i][2] \in Nat /\ shown[i][2] <= Len(word)
    <2> DEFINE word == text.words[i]
               at == text.at[i - 1]
               n == Len(word)
               lo == shown[i][1]
               hi == shown[i][2]
               from == chunk[1]
               to == chunk[2]
    <2>1. i \in 1..TotalTokens /\ at < to
      BY <1>2
    <2>2. n \in Nat /\ at \in Nat
      BY <1>1, <2>1, WordOffsets
    <2>3. from \in Nat /\ to \in Nat
      OBVIOUS
    <2>4. lo = 1 + Max({0, from - at}) /\ hi = Min({n, to - at})
      BY DEF ShownOf
    <2> HIDE DEF word, at, n, lo, hi, from, to
    <2>5. /\ Max({0, from - at}) = IF 0 >= from - at THEN 0 ELSE from - at
          /\ Min({n, to - at}) = IF n <= to - at THEN n ELSE to - at
      <3>1. 0 \in Int /\ n \in Int /\ from - at \in Int /\ to - at \in Int
        BY <2>2, <2>3
      <3> QED
        BY <3>1, OfTwo
    <2>6. /\ lo = IF from <= at THEN 1 ELSE 1 + (from - at)
          /\ hi = IF at + n <= to THEN n ELSE to - at
          /\ lo \in Nat /\ lo >= 1 /\ hi \in Nat /\ hi <= n
      BY <2>1, <2>2, <2>3, <2>4, <2>5
    <2> QED
      BY <2>2, <2>6 DEF word, at, n, lo, hi, from, to
  <1> QED
    BY <1>2, <1>3

(* A name lies where the words are shown.                                  *)
LEMMA NamePlaces ==
  ASSUME NEW words, NEW shown, NEW x \in Names(words, shown)
  PROVE  /\ x = <<x[1], x[2], x[3]>> /\ x[1] \in DOMAIN shown
         /\ <<x[2], x[3]>> \in NamesOf(words[x[1]], shown[x[1]][1], shown[x[1]][2])
         /\ x[2] \in shown[x[1]][1]..shown[x[1]][2] /\ x[3] \in shown[x[1]][1]..shown[x[1]][2]
         /\ x[2] <= x[3]
  <1>1. PICK i \in DOMAIN shown :
          \E r \in NamesOf(words[i], shown[i][1], shown[i][2]) : x = <<i, r[1], r[2]>>
    BY DEF Names
  <1>2. PICK r \in NamesOf(words[i], shown[i][1], shown[i][2]) : x = <<i, r[1], r[2]>>
    BY <1>1
  <1>3. x[1] = i /\ x[2] = r[1] /\ x[3] = r[2]
    BY <1>2
  <1>4. /\ r \in (shown[i][1]..shown[i][2]) \X (shown[i][1]..shown[i][2]) /\ r[1] <= r[2]
    BY DEF NamesOf
  <1>5. r = <<r[1], r[2]>>
    BY <1>4
  <1> QED
    BY <1>2, <1>3, <1>4, <1>5

(* A chunk mentions finitely many names.                                   *)
LEMMA MentionsAreFinite ==
  ASSUME text \in Texts, NEW chunk \in Nat \X Nat
  PROVE  IsFiniteSet(MentionsOf(chunk))
  <1> DEFINE shown == ShownOf(chunk)
             names == Names(text.words, shown)
             runs == Runs(text.words, shown)
             phrase == [run \in runs |-> Phrase(text.words, shown, run)]
             all == {phrase[run] : run \in runs}
             D == 1..TotalTokens
             B == 1..TextLength
             triple == [p \in (D \X B) \X B |-> <<p[1][1], p[1][2], p[2]>>]
             triples == {triple[p] : p \in (D \X B) \X B}
  <1>1. TotalTokens \in Nat /\ TextLength \in Nat /\ TotalTokens = Len(text.words)
    BY TextHasLength DEF TotalTokens
  <1>2. ASSUME NEW x \in names PROVE x \in triples
    <2>1. /\ x = <<x[1], x[2], x[3]>> /\ x[1] \in DOMAIN shown
          /\ x[2] \in shown[x[1]][1]..shown[x[1]][2] /\ x[3] \in shown[x[1]][1]..shown[x[1]][2]
      BY NamePlaces
    <2>2. /\ x[1] \in D /\ shown[x[1]][1] \in Nat /\ shown[x[1]][1] >= 1
          /\ shown[x[1]][2] \in Nat /\ shown[x[1]][2] <= Len(text.words[x[1]])
          /\ Len(text.words[x[1]]) \in Nat
      BY <2>1, ShownBounds
    <2>3. Len(text.words[x[1]]) <= TextLength
      <3>1. \A i \in 1..TotalTokens : Len(text.words[i]) <= TextLength
        BY WordFits
      <3> QED
        BY <2>2, <3>1
    <2>4. x[2] \in B /\ x[3] \in B
      <3> DEFINE lo == shown[x[1]][1]
                 hi == shown[x[1]][2]
                 n == Len(text.words[x[1]])
      <3>1. lo \in Nat /\ lo >= 1 /\ hi \in Nat /\ hi <= n /\ n \in Nat /\ n <= TextLength
            /\ x[2] \in lo..hi /\ x[3] \in lo..hi
        BY <2>1, <2>2, <2>3
      <3> HIDE DEF lo, hi, n
      <3> QED
        BY <1>1, <3>1
    <2> DEFINE p == <<<<x[1], x[2]>>, x[3]>>
    <2>5. p \in (D \X B) \X B /\ p[1][1] = x[1] /\ p[1][2] = x[2] /\ p[2] = x[3]
      BY <2>2, <2>4
    <2> HIDE DEF p, D, B
    <2>6. triple[p] = x
      BY <2>1, <2>5
    <2> QED
      BY <2>5, <2>6
  <1>3. IsFiniteSet(triples)
    <2>1. IsFiniteSet(D) /\ IsFiniteSet(B)
      <3>1. 1 \in Int /\ TotalTokens \in Int /\ TextLength \in Int
        BY <1>1
      <3> QED
        BY <3>1, FS_Interval
    <2> HIDE DEF D, B
    <2>2. IsFiniteSet((D \X B) \X B)
      BY <2>1, FS_Product
    <2>3. triple \in Surjection((D \X B) \X B, triples)
      BY DEF Surjection
    <2> QED
      BY <2>2, <2>3, FS_Surjection
  <1> HIDE DEF triples
  <1>4. IsFiniteSet(names)
    BY <1>2, <1>3, FS_Subset
  <1>5. runs \subseteq names \X names
    BY DEF Runs
  <1> HIDE DEF names
  <1>6. IsFiniteSet(names \X names)
    BY <1>4, FS_Product
  <1>7. IsFiniteSet(runs)
    BY <1>5, <1>6, FS_Subset
  <1>8. MentionsOf(chunk) \subseteq all
    BY DEF MentionsOf, extract_mentions
  <1> HIDE DEF runs
  <1>9. phrase \in Surjection(runs, all)
    BY DEF Surjection
  <1>10. IsFiniteSet(all)
    BY <1>7, <1>9, FS_Surjection
  <1> QED
    BY <1>8, <1>10, FS_Subset

Mentions == [k \in DOMAIN chunks |-> MentionsOf(chunks[k])]

(* What the chunks mention depends on them and the text alone.             *)
LEMMA MentionsKept ==
  ASSUME text' = text, chunks' = chunks
  PROVE  Mentions' = Mentions
  BY DEF Mentions, MentionsOf, ShownOf

(* The graph is empty until it is built or loaded; then it is finite, its  *)
(* provenance counts entries in chunks, its weights are numbers and every  *)
(* name leads to one of its entities.                                      *)
GraphInv ==
  /\ phase \notin {"built", "loaded"} => nodes = <<>> /\ edges = <<>> /\ _name_to_id = <<>>
  /\ IsFiniteSet(DOMAIN nodes)
  /\ \A n \in DOMAIN nodes : /\ DOMAIN nodes[n] \subseteq DOMAIN chunks
                             /\ \A k \in DOMAIN nodes[n] : nodes[n][k] \in Nat \ {0}
  /\ \A pair \in DOMAIN edges : edges[pair].weight \in Nat
  /\ \A name \in DOMAIN _name_to_id : _name_to_id[name] \in DOMAIN nodes
  /\ phase = "built" => nodes = Entities(Mentions)

(* Indexing builds such a graph. *)
LEMMA GraphBuilt ==
  ASSUME TextInv, Index
  PROVE  GraphInv'
  <1> DEFINE D == DOMAIN chunks
             mentions == Mentions
  <1>1. /\ nodes' = Entities(mentions) /\ edges' = Relations(mentions) /\ phase' = "built"
        /\ _name_to_id' = [m \in UNION Range(mentions) |-> m]
        /\ text' = text /\ chunks' = chunks
    BY DEF Index, textvars, Mentions
  <1>2. IsFiniteSet(D)
    BY ChunkNumbers
  <1>3. \A k \in D : IsFiniteSet(mentions[k])
    <2> TAKE k \in D
    <2>1. chunks[k] \in Nat \X Nat
      BY DEF TextInv, ChunksInv
    <2> QED
      BY <2>1, MentionsAreFinite DEF TextInv, ChaptersInv, Mentions
  <1>4. IsFiniteSet(UNION Range(mentions))
    <2> DEFINE R == Range(mentions)
    <2>1. mentions \in Surjection(D, R)
      BY DEF Surjection, Range, Mentions
    <2>2. \A T \in R : IsFiniteSet(T)
      BY <1>3 DEF Range, Mentions
    <2> HIDE DEF R, D, mentions
    <2>3. IsFiniteSet(R)
      BY <1>2, <2>1, FS_Surjection
    <2>4. IsFiniteSet(UNION R)
      BY <2>2, <2>3, FS_UNION
    <2> QED
      BY <2>4 DEF R
  <1>5. DOMAIN mentions = D
    BY DEF Mentions
  <1> HIDE DEF mentions
  <1>6. DOMAIN nodes' = UNION Range(mentions)
    BY <1>1 DEF Entities
  <1>7. ASSUME NEW n \in DOMAIN nodes'
        PROVE  /\ DOMAIN nodes'[n] \subseteq DOMAIN chunks'
               /\ \A k \in DOMAIN nodes'[n] : nodes'[n][k] \in Nat \ {0}
    <2>1. nodes'[n] = [k \in {c \in DOMAIN mentions : n \in mentions[c]} |-> 1]
      BY <1>1, <1>6 DEF Entities
    <2> QED
      BY <1>1, <1>5, <2>1
  <1>8. \A pair \in DOMAIN edges' : edges'[pair].weight \in Nat
    <2> TAKE pair \in DOMAIN edges'
    <2> DEFINE having == {k \in DOMAIN mentions : pair \in Pairs(mentions[k])}
    <2>1. edges'[pair].weight = Cardinality(having)
      BY <1>1 DEF Relations
    <2>2. having \subseteq D
      BY <1>5
    <2>3. IsFiniteSet(having)
      BY <1>2, <2>2, FS_Subset
    <2> QED
      BY <2>1, <2>3, FS_CardinalityType
  <1>9. Mentions' = mentions
    BY <1>1, MentionsKept DEF mentions
  <1>10. Entities(Mentions)' = Entities(mentions)
    BY <1>9 DEF Entities
  <1>11. \A name \in DOMAIN _name_to_id' : _name_to_id'[name] \in DOMAIN nodes'
    BY <1>1, <1>6
  <1> QED
    BY <1>1, <1>4, <1>6, <1>7, <1>8, <1>10, <1>11 DEF GraphInv

(* Nothing else touches it. *)
LEMMA GraphStep ==
  ASSUME TextInv, GraphInv, [Next]_vars
  PROVE  GraphInv'
  <1>1. CASE Segment
    <2>1. /\ phase \notin {"built", "loaded"} /\ phase' \notin {"built", "loaded"}
          /\ nodes' = nodes /\ edges' = edges /\ _name_to_id' = _name_to_id
      BY <1>1 DEF Segment, DetectChapters, TakeWindow, TakeChunk, graph
    <2>2. nodes' = <<>> /\ edges' = <<>> /\ _name_to_id' = <<>>
      BY <2>1 DEF GraphInv
    <2>3. DOMAIN nodes' = {} /\ DOMAIN edges' = {} /\ DOMAIN _name_to_id' = {}
      BY <2>2
    <2> QED
      BY <2>1, <2>2, <2>3, FS_EmptySet DEF GraphInv
  <1>2. CASE Index
    BY <1>2, GraphBuilt
  <1>3. ASSUME NEW g \in LoadedGraphs, LoadGraph(g) PROVE GraphInv'
    <2>1. /\ nodes' = g.nodes /\ edges' = g.edges /\ _name_to_id' = g.names /\ phase' = "loaded"
          /\ chunks' = chunks
          /\ \A n \in DOMAIN g.nodes : DOMAIN g.nodes[n] \subseteq DOMAIN chunks
      BY <1>3 DEF LoadGraph, textvars
    <2>2. /\ IsFiniteSet(DOMAIN g.nodes)
          /\ \A n \in DOMAIN g.nodes : \A k \in DOMAIN g.nodes[n] : g.nodes[n][k] \in Nat \ {0}
          /\ \A name \in DOMAIN g.names : g.names[name] \in DOMAIN g.nodes
          /\ \A pair \in DOMAIN g.edges : g.edges[pair].weight \in Nat
      BY GivenAssumption
    <2> QED
      BY <2>1, <2>2 DEF GraphInv
  <1>4. CASE UNCHANGED <<textvars, graph, phase>>
    <2>1. /\ text' = text /\ chunks' = chunks /\ nodes' = nodes /\ edges' = edges
          /\ _name_to_id' = _name_to_id /\ phase' = phase
      BY <1>4 DEF textvars, graph
    <2>2. Mentions' = Mentions
      BY <2>1, MentionsKept
    <2>3. Entities(Mentions)' = Entities(Mentions)
      BY <2>2 DEF Entities
    <2> QED
      BY <2>1, <2>3 DEF GraphInv
  <1>5. \/ Segment \/ Index \/ \E g \in LoadedGraphs : LoadGraph(g)
        \/ UNCHANGED <<textvars, graph, phase>>
    BY DEF Next, vars, Locate, StartQuery, Expand, Answer, Fuse, Finish
  <1> QED
    BY <1>1, <1>2, <1>3, <1>4, <1>5

-----------------------------------------------------------------------------
(* The search. *)

(* What each of some entities adds to a chunk.                             *)
GainsOf(weight, k) ==
  [n \in {m \in DOMAIN weight : k \in DOMAIN nodes[m]} |-> weight[n] * nodes[n][k]]

(* What entities contribute to the chunks that mention them is a score.    *)
LEMMA ContributionIsScored ==
  ASSUME TextInv, GraphInv, NEW weight, DOMAIN weight \subseteq DOMAIN nodes,
         \A n \in DOMAIN weight : weight[n] \in Nat
  PROVE  Scored(Contribution(weight))
  <1> DEFINE D == UNION {DOMAIN nodes[n] : n \in DOMAIN weight}
  <1>1. D \subseteq DOMAIN chunks
    BY DEF GraphInv
  <1>2. IsFiniteSet(D) /\ D \subseteq Nat
    BY <1>1, ChunkNumbers, FS_Subset
  <1>3. Contribution(weight) = [k \in D |-> SumFunction(GainsOf(weight, k))]
    BY DEF Contribution, GainsOf
  <1>4. ASSUME NEW k \in D PROVE SumFunction(GainsOf(weight, k)) \in Nat
    <2> DEFINE f == GainsOf(weight, k)
               S == DOMAIN f
    <2>1. S = {m \in DOMAIN weight : k \in DOMAIN nodes[m]}
      BY DEF GainsOf
    <2>2. \A n \in S : f[n] \in Nat
      <3> TAKE n \in S
      <3> DEFINE a == weight[n]
                 b == nodes[n][k]
      <3>1. a \in Nat /\ b \in Nat /\ f[n] = a * b
        BY <2>1 DEF GraphInv, GainsOf
      <3> HIDE DEF a, b
      <3>2. a * b \in Nat
        BY <3>1
      <3> QED
        BY <3>1, <3>2
    <2>3. S \subseteq DOMAIN nodes
      BY <2>1
    <2> HIDE DEF f, S
    <2>4. IsFiniteSet(S)
      BY <2>3, FS_Subset DEF GraphInv
    <2>5. SumFunctionOnSet(f, S) \in Nat
      BY <2>2, <2>4, SumCounts, UnitsAreFinite
    <2> QED
      BY <2>5 DEF SumFunction, f, S
  <1> HIDE DEF D
  <1> QED
    BY <1>2, <1>3, <1>4 DEF Scored

(* Scores added are scores. *)
LEMMA AddedIsScored ==
  ASSUME NEW more, Scored(more), NEW to, Scored(to)
  PROVE  Scored(Added(more, to))
  <1>1. IsFiniteSet(DOMAIN more \union DOMAIN to)
    BY FS_Union DEF Scored
  <1>2. DOMAIN Added(more, to) = DOMAIN more \union DOMAIN to
    BY DEF Added
  <1>3. \A k \in DOMAIN Added(more, to) : Added(more, to)[k] \in Nat
    BY DEF Added, Scored
  <1> QED
    BY <1>1, <1>2, <1>3 DEF Scored

(* No query is answered without a graph; an open one has been somewhere,   *)
(* and an answer is a ranking.                                             *)
SearchInv ==
  /\ phase \notin {"built", "loaded"} =>
       query = None /\ visited = <<>> /\ scores = <<>> /\ results = None
  /\ visited \in Seq(SUBSET DOMAIN nodes)
  /\ query # None /\ results = None => visited # <<>>
  /\ Scored(scores)
  /\ results # None => Ranking(results)

(* So is nothing at all. *)
LEMMA NoScores ==
  /\ Scored(<<>>)
  /\ Ranking(<<>>)
  <1>1. DOMAIN <<>> = {} /\ Len(<<>>) = 0 /\ <<>> \in Seq(Nat)
    OBVIOUS
  <1>2. Scored(<<>>)
    BY <1>1, FS_EmptySet DEF Scored
  <1>3. top_k \in Nat
    BY ConfigAssumption
  <1> QED
    BY <1>1, <1>2, <1>3 DEF Ranking, IsInjective

(* An entity that is found by the frontier has an edge to it, and the one  *)
(* that counts is that of an entity of the frontier.                       *)
LEMMA FirstToFind ==
  ASSUME NEW n \in Discovered, IsFiniteSet(Frontier),
         NEW rank \in [Frontier -> 1..Cardinality(Frontier)]
  PROVE  \E f \in Frontier : /\ n \in Neighbours(f)
                             /\ discovery_weight(n, rank) = edges[{n, f}].weight
  <1> DEFINE by == {f \in Frontier : n \in Neighbours(f)}
             ranks == {rank[f] : f \in by}
             first == CHOOSE f \in by : \A g \in by : rank[f] <= rank[g]
  <1>1. by # {}
    BY DEF Discovered
  <1>2. Cardinality(Frontier) \in Nat
    BY FS_CardinalityType
  <1>3. ranks \subseteq Nat /\ ranks # {}
    BY <1>1, <1>2
  <1>4. Min(ranks) \in ranks /\ \A r \in ranks : Min(ranks) <= r
    BY <1>3, LeastNumber, Zenon
  <1>5. \E f \in by : \A g \in by : rank[f] <= rank[g]
    BY <1>4
  <1>6. first \in by
    BY <1>5
  <1>7. discovery_weight(n, rank) = edges[{n, first}].weight
    BY DEF discovery_weight
  <1> HIDE DEF first
  <1> QED
    BY <1>6, <1>7

(* A search begins where the query's names are. *)
LEMMA SearchStarted ==
  ASSUME TextInv, GraphInv, SearchInv, NEW words \in QueryTexts, StartQuery(words)
  PROVE  SearchInv'
  <1> DEFINE entries == resolve_entry_entities(words)
             weight == [n \in entries |-> Unit]
  <1>1. /\ phase' = phase /\ phase \in {"built", "loaded"} /\ query' = words
        /\ visited' = IF entries = {} THEN <<>> ELSE <<entries>>
        /\ scores' = Contribution(weight)
        /\ results' = IF entries = {} THEN <<>> ELSE None
        /\ nodes' = nodes
    BY DEF StartQuery, Idle, graph
  <1>2. entries \subseteq DOMAIN nodes
    BY DEF resolve_entry_entities, GraphInv
  <1>3. Scored(scores')
    <2>1. \A n \in DOMAIN weight : weight[n] \in Nat
      BY UnitAssumption
    <2>2. DOMAIN weight \subseteq DOMAIN nodes
      BY <1>2
    <2> HIDE DEF weight
    <2> QED
      BY <1>1, <2>1, <2>2, ContributionIsScored
  <1> HIDE DEF entries
  <1>4. visited' \in Seq(SUBSET DOMAIN nodes')
    <2> DEFINE S == SUBSET DOMAIN nodes'
    <2>1. entries \in S
      BY <1>1, <1>2
    <2> HIDE DEF S
    <2>2. <<>> \in Seq(S) /\ <<entries>> \in Seq(S)
      BY <2>1
    <2>3. visited' \in Seq(S)
      BY <1>1, <2>2
    <2> QED
      BY <2>3 DEF S
  <1>5. results' = None => visited' # <<>>
    BY <1>1, GivenAssumption
  <1>6. results' # None => Ranking(results')
    BY <1>1, NoScores
  <1> QED
    BY <1>1, <1>3, <1>4, <1>5, <1>6 DEF SearchInv

(* It goes on to entities of the graph. *)
LEMMA SearchExpanded ==
  ASSUME TextInv, GraphInv, SearchInv, Expand
  PROVE  SearchInv'
  <1>1. /\ phase' = phase /\ query' = query /\ query # None /\ results' = results
        /\ results = None /\ visited' = Append(visited, Discovered) /\ nodes' = nodes
    BY DEF Expand, graph
  <1>2. PICK rank \in [Frontier -> 1..Cardinality(Frontier)] :
          scores' = Added(Contribution([n \in Discovered |->
                            (discovery_weight(n, rank) * Unit) \div (1 + Len(visited))]),
                          scores)
    BY DEF Expand
  <1>3. visited \in Seq(SUBSET DOMAIN nodes) /\ visited # <<>> /\ phase \in {"built", "loaded"}
    BY <1>1 DEF SearchInv
  <1>4. Len(visited) \in Nat /\ Frontier \subseteq DOMAIN nodes
    BY <1>3 DEF Frontier
  <1>5. IsFiniteSet(Frontier)
    BY <1>4, FS_Subset DEF GraphInv
  <1>6. Discovered \in SUBSET DOMAIN nodes
    BY DEF Discovered, Neighbours
  <1> DEFINE weight == [n \in Discovered |->
                          (discovery_weight(n, rank) * Unit) \div (1 + Len(visited))]
  <1>7. \A n \in Discovered : weight[n] \in Nat
    <2> TAKE n \in Discovered
    <2>1. PICK f \in Frontier : /\ n \in Neighbours(f)
                                /\ discovery_weight(n, rank) = edges[{n, f}].weight
      BY <1>5, FirstToFind
    <2>2. {n, f} \in DOMAIN edges
      BY <2>1 DEF Neighbours
    <2>3. discovery_weight(n, rank) \in Nat
      BY <2>1, <2>2 DEF GraphInv
    <2> DEFINE d == discovery_weight(n, rank)
    <2>4. d * Unit \in Nat /\ 1 + Len(visited) \in Nat /\ 1 + Len(visited) > 0
      <3> HIDE DEF d
      <3>1. d \in Nat
        BY <2>3 DEF d
      <3> QED
        BY <1>4, <3>1, UnitAssumption
    <2> HIDE DEF d
    <2>5. (d * Unit) \div (1 + Len(visited)) \in Nat
      BY <2>4
    <2> QED
      BY <2>5 DEF d
  <1>8. Scored(Contribution(weight))
    <2>1. DOMAIN weight \subseteq DOMAIN nodes /\ \A n \in DOMAIN weight : weight[n] \in Nat
      BY <1>6, <1>7
    <2> HIDE DEF weight
    <2> QED
      BY <2>1, ContributionIsScored
  <1>9. Scored(scores')
    BY <1>2, <1>8, AddedIsScored DEF SearchInv
  <1>10. visited' \in Seq(SUBSET DOMAIN nodes') /\ visited' # <<>>
    BY <1>1, <1>3, <1>6
  <1> QED
    BY <1>1, <1>3, <1>9, <1>10 DEF SearchInv

(* The best chunks are a ranking. *)
LEMMA BestIsRanking ==
  ASSUME Scored(scores)
  PROVE  Ranking(rank_chunks)
  <1> DEFINE best == BestFirst(scores, top_k)
             last == Min({top_k, Cardinality(DOMAIN scores)})
  <1>1. top_k \in Nat
    BY ConfigAssumption
  <1>2. /\ DOMAIN best = 1..last /\ last \in Nat
        /\ \A p \in DOMAIN best : best[p] \in DOMAIN scores
        /\ \A p, q \in DOMAIN best : best[p] = best[q] => p = q
    BY <1>1, BestFirstMeaning
  <1>3. last <= top_k
    <2>1. Cardinality(DOMAIN scores) \in Nat
      BY FS_CardinalityType DEF Scored
    <2> QED
      BY <1>1, <2>1, OfTwo
  <1>4. best = [p \in 1..last |-> CHOOSE k \in DOMAIN scores :
                                    Cardinality(Before(scores, k)) = p - 1]
    BY DEF BestFirst, Before
  <1>5. DOMAIN scores \subseteq Nat
    BY DEF Scored
  <1> HIDE DEF best, last
  <1>6. best \in [1..last -> Nat]
    BY <1>2, <1>4, <1>5
  <1>7. best \in Seq(Nat) /\ Len(best) = last
    BY <1>2, <1>6
  <1>8. Ranking(best)
    BY <1>2, <1>3, <1>7 DEF Ranking, IsInjective
  <1> QED
    BY <1>8 DEF rank_chunks, best

(* Every step keeps the search in order. *)
LEMMA SearchStep ==
  ASSUME TextInv, GraphInv, SearchInv, [Next]_vars
  PROVE  SearchInv'
  <1>1. ASSUME NEW words \in QueryTexts, StartQuery(words) PROVE SearchInv'
    BY <1>1, SearchStarted
  <1>2. CASE Expand
    BY <1>2, SearchExpanded
  <1>3. CASE Answer
    <2>1. /\ phase' = phase /\ query' = query /\ query # None /\ visited' = visited
          /\ scores' = scores /\ results' = rank_chunks /\ nodes' = nodes /\ results = None
      BY <1>3 DEF Answer, graph
    <2>2. Ranking(results')
      BY <2>1, BestIsRanking DEF SearchInv
    <2> QED
      BY <2>1, <2>2 DEF SearchInv
  <1>4. CASE Finish
    <2>1. /\ query' = None /\ visited' = <<>> /\ scores' = <<>> /\ results' = None
          /\ nodes' = nodes
      BY <1>4 DEF Finish, graph
    <2>2. visited' \in Seq(SUBSET DOMAIN nodes')
      BY <2>1
    <2> QED
      BY <2>1, <2>2, NoScores DEF SearchInv
  <1>5. CASE UNCHANGED search /\ (phase \notin {"built", "loaded"} \/ UNCHANGED <<nodes, phase>>)
    <2>1. query' = query /\ visited' = visited /\ scores' = scores /\ results' = results
      BY <1>5 DEF search
    <2>2. CASE phase \notin {"built", "loaded"}
      <3>1. query' = None /\ visited' = <<>> /\ scores' = <<>> /\ results' = None
        BY <2>1, <2>2 DEF SearchInv
      <3>2. visited' \in Seq(SUBSET DOMAIN nodes')
        BY <3>1
      <3> QED
        BY <3>1, <3>2, NoScores DEF SearchInv
    <2>3. CASE UNCHANGED <<nodes, phase>>
      BY <2>1, <2>3 DEF SearchInv
    <2> QED
      BY <1>5, <2>2, <2>3
  <1>6. \/ \E words \in QueryTexts : StartQuery(words)
        \/ Expand \/ Answer \/ Finish
        \/ UNCHANGED search /\ (phase \notin {"built", "loaded"} \/ UNCHANGED <<nodes, phase>>)
    BY DEF Next, vars, Segment, DetectChapters, TakeWindow, TakeChunk, Index, LoadGraph,
           Locate, Fuse, graph
  <1> QED
    BY <1>1, <1>2, <1>3, <1>4, <1>5, <1>6

(* What is fused are the rankings of the three retrievers.                 *)
FusionInv ==
  fused # None => /\ \A s \in RetrievalSource : Ranking(lists[s])
                  /\ \E id : fused = fuse_evidence(Stamped(id, lists))

(* And what is fused. *)
LEMMA FusionStep ==
  ASSUME SearchInv, FusionInv, [Next]_vars
  PROVE  FusionInv'
  <1>1. CASE Fuse
    <2>1. /\ results # None /\ fused' = fuse_evidence(Stamped(query, lists'))
      BY <1>1 DEF Fuse
    <2>2. PICK semantic \in Rankings : \E lexical \in Rankings :
            lists' = [SEMANTIC |-> semantic, LEXICAL |-> lexical, GRAPH |-> results]
      BY <1>1 DEF Fuse
    <2>3. PICK lexical \in Rankings :
            lists' = [SEMANTIC |-> semantic, LEXICAL |-> lexical, GRAPH |-> results]
      BY <2>2
    <2>4. Ranking(semantic) /\ Ranking(lexical) /\ Ranking(results)
      BY <2>1, GivenAssumption DEF Ranking, SearchInv
    <2>5. \A s \in RetrievalSource : Ranking(lists'[s])
      BY <2>3, <2>4 DEF RetrievalSource
    <2> QED
      BY <2>1, <2>5 DEF FusionInv
  <1>2. CASE Finish
    BY <1>2 DEF Finish, FusionInv
  <1>3. CASE UNCHANGED fusion
    BY <1>3 DEF fusion, FusionInv
  <1>4. Fuse \/ Finish \/ UNCHANGED fusion
    BY DEF Next, vars, Segment, Locate, Index, LoadGraph, StartQuery, Expand, Answer
  <1> QED
    BY <1>1, <1>2, <1>3, <1>4

(* The graph, the search and the fusion of every behaviour are in order.   *)
THEOREM RetrievalCorrect == Spec => [](TextInv /\ GraphInv /\ SearchInv /\ FusionInv)
  <1>1. Init => TextInv /\ GraphInv /\ SearchInv /\ FusionInv
    <2> SUFFICES ASSUME Init PROVE TextInv /\ GraphInv /\ SearchInv /\ FusionInv
      OBVIOUS
    <2>1. /\ nodes = <<>> /\ edges = <<>> /\ _name_to_id = <<>> /\ query = None
          /\ visited = <<>> /\ scores = <<>> /\ results = None /\ fused = None /\ phase = "detect"
      BY DEF Init, TextInit
    <2>2. DOMAIN nodes = {} /\ DOMAIN edges = {} /\ DOMAIN _name_to_id = {} /\ visited \in Seq(SUBSET DOMAIN nodes)
      BY <2>1
    <2>3. GraphInv
      BY <2>1, <2>2, FS_EmptySet DEF GraphInv
    <2>4. SearchInv
      BY <2>1, <2>2, NoScores DEF SearchInv
    <2> QED
      BY <2>1, <2>3, <2>4, TextStarts DEF FusionInv
  <1>2. TextInv /\ GraphInv /\ SearchInv /\ FusionInv /\ [Next]_vars
          => (TextInv /\ GraphInv /\ SearchInv /\ FusionInv)'
    BY TextStep, GraphStep, SearchStep, FusionStep
  <1> QED
    BY <1>1, <1>2, PTL DEF Spec

(* Fused evidence rewards agreement. *)
THEOREM AgreementIsRewarded == Spec => []FusionRewardsAgreement
  <1>1. FusionInv => FusionRewardsAgreement
    <2>1. fused = None => FusionRewardsAgreement
      BY DEF FusionRewardsAgreement
    <2> QED
      BY <2>1, FusedByAgreement DEF FusionInv
  <1> QED
    BY <1>1, RetrievalCorrect, PTL

-----------------------------------------------------------------------------
(* Names. *)

(* A passage no longer than the overlap lies whole in some chunk.          *)
LEMMA ChunksOverlap ==
  ASSUME TextInv, phase \notin {"detect", "window", "chunk"},
         NEW from \in Nat, NEW to \in Nat, to <= TextLength, to - from <= overlap
  PROVE  \E k \in DOMAIN chunks : chunks[k][1] <= from /\ to <= chunks[k][2]
  <1> DEFINE N == Len(chunks)
             past == {k \in 1..N : to <= chunks[k][2]}
             least == Min(past)
  <1>1. /\ chunks \in Seq(Nat \X Nat) /\ N \in Nat /\ N > 0 /\ DOMAIN chunks = 1..N
        /\ chunks[N][2] = TextLength
    <2>1. chunks \in Seq(Nat \X Nat) /\ chunks # <<>> /\ chunks[Len(chunks)][2] = TextLength
      BY DEF TextInv, ChunksInv
    <2> QED
      BY <2>1
  <1>2. past \subseteq Nat /\ N \in past
    BY <1>1
  <1>3. least \in past /\ \A k \in past : least <= k
    BY <1>2, LeastNumber, Zenon
  <1>4. least \in 1..N /\ to <= chunks[least][2]
    BY <1>3
  <1>5. \A k \in 1..N : /\ chunks[k][1] \in Nat /\ chunks[k][2] \in Nat
                        /\ chunks[k][1] = (k - 1) * (chunk_size - overlap)
                        /\ chunks[k][2] = IF chunks[k][1] + chunk_size <= TextLength
                                          THEN chunks[k][1] + chunk_size ELSE TextLength
    <2> TAKE k \in 1..N
    <2>1. chunks[k] \in Nat \X Nat
      BY <1>1
    <2> QED
      BY <2>1 DEF TextInv, ChunksInv
  <1> HIDE DEF least
  <1>6. chunks[least][1] <= from
    <2>1. CASE least = 1
      <3>1. 0 * (chunk_size - overlap) = 0
        BY ChunkSteps
      <3>2. chunks[1][1] = 0
        BY <1>4, <1>5, <2>1, <3>1
      <3> QED
        BY <2>1, <3>2
    <2>2. CASE least # 1
      <3> DEFINE j == least - 1
                 d == chunk_size - overlap
      <3>1. j \in 1..N /\ ~ least <= j /\ least = j + 1 /\ j - 1 \in Nat /\ j - 1 + 1 = j
            /\ least - 1 = j
        BY <1>1, <1>4, <2>2
      <3>2. ~ to <= chunks[j][2]
        <4> HIDE DEF j
        <4>1. j \notin past
          BY <1>3, <3>1, Zenon
        <4> QED
          BY <3>1, <4>1
      <3> HIDE DEF j
      <3>3. chunks[least][1] = j * d
        BY <1>4, <1>5, <3>1
      <3>4. chunks[j][1] = (j - 1) * d
        BY <1>5, <3>1
      <3>5. j * d = (j - 1) * d + d
        BY <3>1, ChunkSteps
      <3>6. d \in Nat /\ d + overlap = chunk_size /\ chunk_size \in Nat /\ overlap \in Nat
        BY ChunkSteps
      <3> HIDE DEF d
      <3>7. chunks[least][1] = chunks[j][1] + d
        BY <3>3, <3>4, <3>5
      <3>8. TextLength \in Nat
        BY TextHasLength DEF TextInv, ChaptersInv
      <3> DEFINE a == chunks[j][1]
                 b == chunks[j][2]
      <3>9. /\ a \in Nat /\ b \in Nat /\ ~ to <= b
            /\ b = IF a + chunk_size <= TextLength THEN a + chunk_size ELSE TextLength
        BY <1>5, <3>1, <3>2
      <3> HIDE DEF a, b
      <3>10. b = a + chunk_size
        BY <3>8, <3>9
      <3>11. a + d <= from
        BY <3>6, <3>9, <3>10
      <3> QED
        BY <3>7, <3>11 DEF a
    <2> QED
      BY <2>1, <2>2
  <1> QED
    BY <1>1, <1>4, <1>6

(* Two names of a word that begin or end at the same letter are the same.  *)
LEMMA NamesOfWord ==
  ASSUME NEW word, NEW lo \in Nat, NEW hi \in Nat,
         NEW r \in NamesOf(word, lo, hi), NEW s \in NamesOf(word, lo, hi)
  PROVE  /\ r[1] = s[1] => r[2] = s[2]
         /\ r[2] = s[2] => r[1] = s[1]
  <1>1. \A q \in NamesOf(word, lo, hi) :
          /\ q[1] \in lo..hi /\ q[2] \in lo..hi /\ q[1] <= q[2]
          /\ \A k \in q[1]..q[2] : word[k] \in WordCharacters
          /\ q[1] = lo \/ word[q[1] - 1] \notin WordCharacters
          /\ q[2] = hi \/ word[q[2] + 1] \notin WordCharacters
    BY LettersAssumption DEF NamesOf
  <1>2. ASSUME NEW p \in NamesOf(word, lo, hi), NEW q \in NamesOf(word, lo, hi),
               p[1] = q[1], p[2] < q[2]
        PROVE  FALSE
    <2>1. p[2] # hi /\ p[2] + 1 \in q[1]..q[2]
      BY <1>1, <1>2
    <2> QED
      BY <1>1, <2>1
  <1>3. ASSUME NEW p \in NamesOf(word, lo, hi), NEW q \in NamesOf(word, lo, hi),
               p[2] = q[2], q[1] < p[1]
        PROVE  FALSE
    <2>1. p[1] # lo /\ p[1] - 1 \in q[1]..q[2]
      BY <1>1, <1>3
    <2> QED
      BY <1>1, <2>1
  <1>4. r[1] \in Nat /\ r[2] \in Nat /\ s[1] \in Nat /\ s[2] \in Nat
    BY <1>1
  <1>5. r[1] = s[1] => ~ r[2] < s[2] /\ ~ s[2] < r[2]
    BY <1>2
  <1>6. r[2] = s[2] => ~ s[1] < r[1] /\ ~ r[1] < s[1]
    BY <1>3
  <1> QED
    BY <1>4, <1>5, <1>6

(* A name that is shown whole is a name of what is shown.                  *)
LEMMA NameIsShown ==
  ASSUME NEW word, NEW n \in Nat, NEW lo \in Nat, NEW hi \in Nat, lo >= 1, hi <= n,
         NEW a \in lo..hi, NEW b \in lo..hi, <<a, b>> \in NamesOf(word, 1, n)
  PROVE  <<a, b>> \in NamesOf(word, lo, hi)
  <1>1. /\ a <= b /\ word[a] \in Capitals
        /\ \A k \in a..b : word[k] \in Letters
        /\ a = 1 \/ word[a - 1] \notin WordCharacters
        /\ b = n \/ word[b + 1] \notin WordCharacters
        /\ SubSeq(word, a, b) \notin _STOPWORDS
    BY DEF NamesOf
  <1>2. a = 1 => a = lo
    OBVIOUS
  <1>3. b = n => b = hi
    OBVIOUS
  <1> QED
    BY <1>1, <1>2, <1>3 DEF NamesOf

(* A run of the text goes from its first name to its last, whatever it     *)
(* has of the words between.                                               *)
LEMMA RunMeaning ==
  ASSUME text \in Texts, NEW run \in Runs(text.words, Whole(text.words))
  PROVE  LET full == Whole(text.words)
             x == run[1]
             y == run[2]
         IN  /\ x[1] \in 1..TotalTokens /\ y[1] \in 1..TotalTokens /\ x[1] <= y[1]
             /\ x[2] \in 1..Len(text.words[x[1]]) /\ y[3] \in 1..Len(text.words[y[1]])
             /\ \A i \in x[1]..y[1] : PartOf(x, y, full, i) \in Names(text.words, full)
             /\ PartOf(x, y, full, x[1]) = x /\ PartOf(x, y, full, y[1]) = y
             /\ \A z \in Names(text.words, full) : ~ Adjacent(z, x, full) /\ ~ Adjacent(y, z, full)
             /\ run = <<x, y>>
  <1> DEFINE full == Whole(text.words)
             names == Names(text.words, full)
             x == run[1]
             y == run[2]
             part(i) == PartOf(x, y, full, i)
  <1>1. /\ DOMAIN full = 1..TotalTokens
        /\ \A i \in 1..TotalTokens : full[i][1] = 1 /\ full[i][2] = Len(text.words[i])
    BY WordOffsets DEF Whole, TotalTokens
  <1>2. TotalTokens \in Nat /\ \A i \in 1..TotalTokens : Len(text.words[i]) \in Nat
    BY WordOffsets DEF TotalTokens
  <1>3. /\ run \in names \X names /\ x[1] <= y[1]
        /\ \A i \in x[1]..y[1] : part(i) \in names
        /\ \A z \in names : ~ Adjacent(z, x, full) /\ ~ Adjacent(y, z, full)
    BY DEF Runs
  <1>4. ASSUME NEW z \in names
        PROVE  /\ z = <<z[1], z[2], z[3]>> /\ z[1] \in 1..TotalTokens
               /\ <<z[2], z[3]>> \in NamesOf(text.words[z[1]], 1, Len(text.words[z[1]]))
               /\ z[2] \in 1..Len(text.words[z[1]]) /\ z[3] \in 1..Len(text.words[z[1]])
    <2>1. /\ z = <<z[1], z[2], z[3]>> /\ z[1] \in DOMAIN full
          /\ <<z[2], z[3]>> \in NamesOf(text.words[z[1]], full[z[1]][1], full[z[1]][2])
          /\ z[2] \in full[z[1]][1]..full[z[1]][2] /\ z[3] \in full[z[1]][1]..full[z[1]][2]
      BY NamePlaces
    <2> HIDE DEF full
    <2>2. z[1] \in 1..TotalTokens
      BY <1>1, <2>1
    <2>3. full[z[1]][1] = 1 /\ full[z[1]][2] = Len(text.words[z[1]])
      BY <1>1, <2>2
    <2> QED
      BY <2>1, <2>2, <2>3
  <1> HIDE DEF full, names
  <1>5. x \in names /\ y \in names
    BY <1>3
  <1>6. x[1] \in x[1]..y[1] /\ y[1] \in x[1]..y[1]
    <2>1. x[1] \in 1..TotalTokens /\ y[1] \in 1..TotalTokens /\ x[1] <= y[1]
      BY <1>3, <1>4, <1>5
    <2> HIDE DEF x, y
    <2> QED
      BY <1>2, <2>1
  <1>7. part(x[1]) = x
    <2> DEFINE z == part(x[1])
    <2>1. z \in names /\ z[1] = x[1] /\ z[2] = x[2]
      BY <1>3, <1>6 DEF PartOf
    <2> HIDE DEF z
    <2> DEFINE word == text.words[x[1]]
               r == <<x[2], x[3]>>
               s == <<z[2], z[3]>>
    <2>2. r \in NamesOf(word, 1, Len(word)) /\ s \in NamesOf(word, 1, Len(word)) /\ r[1] = s[1]
      BY <1>4, <1>5, <2>1
    <2>3. Len(word) \in Nat /\ 1 \in Nat
      BY <1>2, <1>4, <1>5
    <2> HIDE DEF word, r, s
    <2>4. r[2] = s[2]
      BY <2>2, <2>3, NamesOfWord
    <2>5. x[3] = z[3]
      BY <2>4 DEF r, s
    <2> QED
      BY <1>4, <1>5, <2>1, <2>5 DEF z
  <1>8. part(y[1]) = y
    <2> DEFINE z == part(y[1])
    <2>1. z \in names /\ z[1] = y[1] /\ z[3] = y[3]
      BY <1>3, <1>6 DEF PartOf
    <2> HIDE DEF z
    <2> DEFINE word == text.words[y[1]]
               r == <<y[2], y[3]>>
               s == <<z[2], z[3]>>
    <2>2. r \in NamesOf(word, 1, Len(word)) /\ s \in NamesOf(word, 1, Len(word)) /\ r[2] = s[2]
      BY <1>4, <1>5, <2>1
    <2>3. Len(word) \in Nat /\ 1 \in Nat
      BY <1>2, <1>4, <1>5
    <2> HIDE DEF word, r, s
    <2>4. r[1] = s[1]
      BY <2>2, <2>3, NamesOfWord
    <2>5. y[2] = z[2]
      BY <2>4 DEF r, s
    <2> QED
      BY <1>4, <1>5, <2>1, <2>5 DEF z
  <1>9. run = <<x, y>>
    BY <1>3
  <1> QED
    BY <1>3, <1>4, <1>5, <1>7, <1>8, <1>9 DEF full, names

(* The context of a run lies in the text, around its letters.              *)
LEMMA ContextMeaning ==
  ASSUME text \in Texts, NEW run \in Runs(text.words, Whole(text.words))
  PROVE  /\ LettersOf(run)[1] \in Nat /\ LettersOf(run)[2] \in Nat
         /\ Context(run)[1] \in Nat /\ Context(run)[2] \in Nat
         /\ Context(run)[1] <= LettersOf(run)[1] /\ LettersOf(run)[2] <= Context(run)[2]
         /\ Context(run)[2] <= TextLength
  <1> DEFINE x == run[1]
             y == run[2]
             i == x[1]
             j == y[1]
             from == LettersOf(run)[1]
             to == LettersOf(run)[2]
             before == Context(run)[1]
             after == Context(run)[2]
  <1>1. /\ i \in 1..TotalTokens /\ j \in 1..TotalTokens
        /\ x[2] \in 1..Len(text.words[i]) /\ y[3] \in 1..Len(text.words[j])
    BY RunMeaning
  <1> HIDE DEF i, j
  <1>2. from = text.at[i - 1] + x[2] - 1 /\ to = text.at[j - 1] + y[3]
    BY DEF LettersOf, i, j
  <1>3. before = from \/ (i # 1 /\ before = text.at[i - 2])
    <2>1. i = 1 => DOMAIN (IF i = 1 THEN <<>> ELSE text.words[i - 1]) = {}
      OBVIOUS
    <2> QED
      BY <2>1 DEF Context, i
  <1>4. after = to \/ (j # TotalTokens /\ after = WordEnd(j + 1))
    <2>1. j = TotalTokens => DOMAIN (IF j = TotalTokens THEN <<>> ELSE text.words[j + 1]) = {}
      OBVIOUS
    <2> QED
      BY <2>1 DEF Context, j
  <1>5. from \in Nat /\ text.at[i - 1] <= from
    <2> DEFINE u == text.at[i - 1]
               n == Len(text.words[i])
    <2>1. u \in Nat /\ n \in Nat /\ x[2] \in 1..n
      BY <1>1, WordFits
    <2> HIDE DEF u, n, x
    <2> QED
      BY <1>2, <2>1 DEF u
  <1>6. to \in Nat /\ to < text.at[j] /\ text.at[j] \in Nat /\ text.at[j] <= TextLength
        /\ TextLength \in Nat
    <2> DEFINE u == text.at[j - 1]
               n == Len(text.words[j])
               b == Blank(text, j)
               v == text.at[j]
    <2>1. /\ u \in Nat /\ n \in Nat /\ b \in Nat /\ b > 0 /\ v = u + n + b /\ y[3] \in 1..n
          /\ v \in Nat /\ v <= TextLength /\ TextLength \in Nat
      BY <1>1, WordFits
    <2> HIDE DEF u, n, b, v, y
    <2>2. to = u + y[3]
      BY <1>2 DEF u
    <2> HIDE DEF to
    <2>3. to \in Nat /\ to < v
      BY <2>1, <2>2
    <2> QED
      BY <2>1, <2>3 DEF v
  <1> HIDE DEF from, to, before, after
  <1>7. before \in Nat /\ before <= from
    <2>1. CASE before = from
      BY <1>5, <2>1
    <2>2. CASE i # 1 /\ before = text.at[i - 2]
      <3> DEFINE h == i - 1
                 u == text.at[h - 1]
                 n == Len(text.words[h])
                 b == Blank(text, h)
                 v == text.at[h]
      <3>1. h \in 1..TotalTokens /\ h - 1 = i - 2
        <4>1. TotalTokens \in Nat
          BY TextHasLength
        <4> QED
          BY <1>1, <2>2, <4>1
      <3> HIDE DEF h
      <3>2. /\ u \in Nat /\ n \in Nat /\ b \in Nat /\ v = u + n + b /\ v \in Nat
        BY <3>1, WordFits
      <3>3. before = u /\ v <= from
        BY <1>5, <2>2, <3>1 DEF h
      <3> HIDE DEF u, n, b, v
      <3> QED
        BY <1>5, <3>2, <3>3
    <2> QED
      BY <1>3, <2>1, <2>2
  <1>8. after \in Nat /\ to <= after /\ after <= TextLength
    <2>1. CASE after = to
      BY <1>6, <2>1
    <2>2. CASE j # TotalTokens /\ after = WordEnd(j + 1)
      <3> DEFINE k == j + 1
                 u == text.at[k - 1]
                 n == Len(text.words[k])
                 b == Blank(text, k)
                 v == text.at[k]
      <3>1. k \in 1..TotalTokens /\ k - 1 = j
        <4>1. TotalTokens \in Nat
          BY TextHasLength
        <4> QED
          BY <1>1, <2>2, <4>1
      <3> HIDE DEF k
      <3>2. /\ u \in Nat /\ n \in Nat /\ b \in Nat /\ v = u + n + b /\ v \in Nat
            /\ v <= TextLength
        BY <3>1, WordFits
      <3>3. after = v - b /\ to < u
        BY <1>6, <2>2, <3>1 DEF WordEnd, k
      <3> HIDE DEF u, n, b, v
      <3> QED
        BY <1>6, <3>2, <3>3
    <2> QED
      BY <1>4, <2>1, <2>2
  <1> QED
    BY <1>5, <1>6, <1>7, <1>8 DEF from, to, before, after

(* A chunk that has the letters of a run shows every part of it.           *)
LEMMA PartsAreShown ==
  ASSUME text \in Texts, NEW run \in Runs(text.words, Whole(text.words)),
         NEW chunk \in Nat \X Nat,
         chunk[1] <= LettersOf(run)[1], LettersOf(run)[2] <= chunk[2],
         NEW i \in run[1][1]..run[2][1]
  PROVE  LET shown == ShownOf(chunk)
             full == Whole(text.words)
             x == run[1]
             y == run[2]
         IN  /\ i \in DOMAIN shown
             /\ PartOf(x, y, shown, i) = PartOf(x, y, full, i)
             /\ PartOf(x, y, shown, i) \in Names(text.words, shown)
  <1> DEFINE shown == ShownOf(chunk)
             full == Whole(text.words)
             x == run[1]
             y == run[2]
             a == x[1]
             b == y[1]
             from == chunk[1]
             to == chunk[2]
             u == text.at[i - 1]
             n == Len(text.words[i])
  <1>1. /\ a \in 1..TotalTokens /\ b \in 1..TotalTokens /\ a <= b
        /\ x[2] \in 1..Len(text.words[a]) /\ y[3] \in 1..Len(text.words[b])
        /\ PartOf(x, y, full, i) \in Names(text.words, full)
    BY RunMeaning
  <1>2. from \in Nat /\ to \in Nat
    OBVIOUS
  <1>3. from <= text.at[a - 1] + x[2] - 1 /\ text.at[b - 1] + y[3] <= to
    BY DEF LettersOf
  <1>4. i \in a..b
    OBVIOUS
  <1> HIDE DEF from, to, a, b
  <1>5. i \in 1..TotalTokens /\ TotalTokens \in Nat
    <2>1. TotalTokens \in Nat
      BY TextHasLength
    <2> QED
      BY <1>1, <1>4, <2>1
  <1>6. /\ u \in Nat /\ n \in Nat /\ n > 0 /\ text.at[i] \in Nat /\ u + n < text.at[i]
    <2> DEFINE c == Blank(text, i)
               v == text.at[i]
    <2>1. u \in Nat /\ n \in Nat /\ n > 0 /\ c \in Nat /\ c > 0 /\ v = u + n + c /\ v \in Nat
      BY <1>5, WordFits
    <2> HIDE DEF u, n, c, v
    <2>2. u + n < v
      BY <2>1
    <2> QED
      BY <2>1, <2>2 DEF v
  <1>7. i < b => text.at[i] < to
    <2> SUFFICES ASSUME i < b PROVE text.at[i] < to
      OBVIOUS
    <2>1. b - 1 = i \/ i < b - 1
      BY <1>1, <1>5
    <2>2. text.at[i] <= text.at[b - 1]
      <3>1. i \in 0..TotalTokens /\ b - 1 \in 0..TotalTokens /\ TotalTokens = Len(text.words)
        BY <1>1, <1>5 DEF TotalTokens
      <3> QED
        BY <1>6, <2>1, <3>1, Offsets
    <2> DEFINE v == text.at[b - 1]
               m == Len(text.words[b])
               e == text.at[i]
    <2>3. v \in Nat /\ m \in Nat /\ y[3] \in 1..m /\ v + y[3] <= to /\ e <= v /\ e \in Nat
      BY <1>1, <1>3, <1>6, <2>2, WordFits
    <2> HIDE DEF v, m, e, y
    <2>4. e < to
      BY <1>2, <2>3
    <2> QED
      BY <2>4 DEF e
  <1>8. i > a => from < u
    <2> SUFFICES ASSUME i > a PROVE from < u
      OBVIOUS
    <2>1. a = i - 1 \/ a < i - 1
      BY <1>1, <1>5
    <2>2. text.at[a] <= u
      <3>1. a \in 0..TotalTokens /\ i - 1 \in 0..TotalTokens /\ TotalTokens = Len(text.words)
        BY <1>1, <1>5 DEF TotalTokens
      <3>2. text.at[a] \in Nat
        BY <1>1, WordFits
      <3>3. a < i - 1 => text.at[a] < u
        BY <3>1, Offsets
      <3> HIDE DEF a
      <3> QED
        BY <1>6, <2>1, <3>2, <3>3
    <2> DEFINE v == text.at[a - 1]
               m == Len(text.words[a])
               c == Blank(text, a)
               e == text.at[a]
    <2>3. /\ v \in Nat /\ m \in Nat /\ c \in Nat /\ c > 0 /\ e = v + m + c
          /\ x[2] \in 1..m /\ from <= v + x[2] - 1 /\ e <= u
      BY <1>1, <1>3, <2>2, WordFits
    <2> HIDE DEF v, m, c, e, x, u
    <2> QED
      BY <1>2, <1>6, <2>3
  <1>9. u < to
    <2>1. CASE i < b
      BY <1>2, <1>6, <1>7, <2>1
    <2>2. CASE i = b
      <3>1. u + y[3] <= to /\ y[3] \in Nat /\ y[3] > 0
        BY <1>1, <1>3, <2>2
      <3> HIDE DEF u, y
      <3> QED
        BY <1>2, <1>6, <3>1
    <2> QED
      BY <1>1, <1>4, <2>1, <2>2
  <1>10. i \in DOMAIN shown
    BY <1>5, <1>9, ShownBounds DEF to
  <1>11. /\ shown[i][1] = IF from <= u THEN 1 ELSE 1 + (from - u)
         /\ shown[i][2] = IF u + n <= to THEN n ELSE to - u
         /\ shown[i][1] \in Nat /\ shown[i][1] >= 1 /\ shown[i][2] \in Nat /\ shown[i][2] <= n
    BY <1>10, ShownBounds DEF from, to
  <1>12. full[i][1] = 1 /\ full[i][2] = n /\ i \in DOMAIN full
    BY <1>5, WordOffsets DEF Whole, TotalTokens
  <1> DEFINE lo == shown[i][1]
             hi == shown[i][2]
             p == IF i = a THEN x[2] ELSE 1
             q == IF i = b THEN y[3] ELSE n
  <1>13. PartOf(x, y, full, i) = <<i, p, q>>
    BY <1>12 DEF PartOf, a, b
  <1>14. /\ i # a => lo = 1
         /\ i # b => hi = n
    <2>1. i # a => from <= u
      BY <1>1, <1>2, <1>4, <1>5, <1>6, <1>8
    <2>2. i # b => u + n <= to
      <3> DEFINE e == text.at[i]
      <3>1. e \in Nat /\ u + n < e /\ (i < b => e < to)
        BY <1>6, <1>7
      <3>2. i # b => i < b
        BY <1>1, <1>4, <1>5
      <3> HIDE DEF u, n, e
      <3> QED
        BY <1>2, <1>6, <3>1, <3>2 DEF u, n
    <2> QED
      BY <1>11, <2>1, <2>2
  <1>15. PartOf(x, y, shown, i) = <<i, p, q>>
    <2>1. PartOf(x, y, shown, i) = <<i, IF i = a THEN x[2] ELSE lo, IF i = b THEN y[3] ELSE hi>>
      BY DEF PartOf, a, b
    <2> HIDE DEF lo, hi, x, y, n
    <2> QED
      BY <1>14, <2>1
  <1>16. <<p, q>> \in NamesOf(text.words[i], 1, n) /\ p \in 1..n /\ q \in 1..n /\ p <= q
    <2> DEFINE z == <<i, p, q>>
    <2>1. z \in Names(text.words, full)
      BY <1>1, <1>13
    <2>2. /\ <<z[2], z[3]>> \in NamesOf(text.words[z[1]], full[z[1]][1], full[z[1]][2])
          /\ z[2] \in full[z[1]][1]..full[z[1]][2] /\ z[3] \in full[z[1]][1]..full[z[1]][2]
          /\ z[2] <= z[3]
      BY <2>1, NamePlaces
    <2>3. z[1] = i /\ z[2] = p /\ z[3] = q
      OBVIOUS
    <2> HIDE DEF z, p, q
    <2> QED
      BY <1>12, <2>2, <2>3
  <1>17. lo <= p
    <2>1. CASE i = a
      <3>1. from <= u + x[2] - 1 /\ p = x[2]
        BY <1>3, <2>1
      <3> HIDE DEF u, n, p, x
      <3>2. lo = IF from <= u THEN 1 ELSE 1 + (from - u)
        BY <1>11 DEF u
      <3> HIDE DEF lo
      <3>3. p \in 1..n /\ u \in Nat /\ n \in Nat
        BY <1>6, <1>16 DEF u, n
      <3> QED
        BY <1>2, <3>1, <3>2, <3>3
    <2>2. CASE i # a
      BY <1>14, <1>16, <2>2
    <2> QED
      BY <2>1, <2>2
  <1>18. q <= hi
    <2>1. CASE i = b
      <3>1. u + y[3] <= to /\ q = y[3]
        BY <1>3, <2>1
      <3> HIDE DEF u, n, q, y
      <3>2. hi = IF u + n <= to THEN n ELSE to - u
        BY <1>11 DEF u, n
      <3> HIDE DEF hi
      <3>3. q \in 1..n /\ u \in Nat /\ n \in Nat
        BY <1>6, <1>16 DEF u, n
      <3> QED
        BY <1>2, <3>1, <3>2, <3>3
    <2>2. CASE i # b
      BY <1>6, <1>14, <1>16, <2>2
    <2> QED
      BY <2>1, <2>2
  <1>19. <<p, q>> \in NamesOf(text.words[i], lo, hi)
    <2>1. lo \in Nat /\ hi \in Nat /\ lo >= 1 /\ hi <= n /\ n \in Nat
      BY <1>6, <1>11
    <2> HIDE DEF lo, hi, p, q, n
    <2>2. p \in lo..hi /\ q \in lo..hi
      BY <1>16, <1>17, <1>18, <2>1
    <2> QED
      BY <1>16, <2>1, <2>2, NameIsShown
  <1>20. <<i, p, q>> \in Names(text.words, shown)
    <2> DEFINE r == <<p, q>>
    <2>1. r \in NamesOf(text.words[i], shown[i][1], shown[i][2]) /\ r[1] = p /\ r[2] = q
      BY <1>19
    <2> HIDE DEF r, p, q
    <2>2. <<i, r[1], r[2]>> \in Names(text.words, shown)
      BY <1>10, <2>1 DEF Names
    <2> QED
      BY <2>1, <2>2
  <1> QED
    BY <1>10, <1>13, <1>15, <1>20

(* A chunk that shows something of a word and goes on to the next one      *)
(* shows the end of the one and the beginning of the other.                *)
LEMMA NextIsShown ==
  ASSUME text \in Texts, NEW chunk \in Nat \X Nat, NEW i,
         i \in DOMAIN ShownOf(chunk), i + 1 \in DOMAIN ShownOf(chunk),
         ShownOf(chunk)[i][1] <= ShownOf(chunk)[i][2]
  PROVE  ShownOf(chunk)[i][2] = Len(text.words[i]) /\ ShownOf(chunk)[i + 1][1] = 1
  <1> DEFINE shown == ShownOf(chunk)
             u == text.at[i - 1]
             n == Len(text.words[i])
             v == text.at[i]
             b == Blank(text, i)
             from == chunk[1]
             to == chunk[2]
             lo == shown[i][1]
             hi == shown[i][2]
  <1>1. i \in 1..TotalTokens /\ i + 1 \in 1..TotalTokens /\ TotalTokens \in Nat
    BY ShownBounds, TextHasLength
  <1>2. (i + 1) - 1 = i
    BY <1>1
  <1>3. /\ u \in Nat /\ n \in Nat /\ b \in Nat /\ b > 0 /\ v \in Nat /\ v = u + n + b
        /\ from \in Nat /\ to \in Nat
    BY <1>1, WordFits
  <1>4. v < to /\ shown[i + 1][1] = IF from <= v THEN 1 ELSE 1 + (from - v)
    <2> DEFINE j == i + 1
    <2>1. j \in DOMAIN ShownOf(chunk) /\ j - 1 = i
      BY <1>2
    <2> HIDE DEF j
    <2>2. text.at[j - 1] < to /\ shown[j][1] = IF from <= text.at[j - 1] THEN 1
                                               ELSE 1 + (from - text.at[j - 1])
      BY <2>1, ShownBounds
    <2> QED
      BY <2>1, <2>2 DEF j
  <1>5. /\ lo = IF from <= u THEN 1 ELSE 1 + (from - u)
        /\ hi = IF u + n <= to THEN n ELSE to - u
        /\ lo <= hi
    BY ShownBounds
  <1> HIDE DEF shown, u, n, v, b, from, to, lo, hi
  <1>6. hi = n /\ from <= v
    BY <1>3, <1>4, <1>5
  <1> QED
    BY <1>4, <1>6 DEF shown, n, hi

(* No name joins a run in a chunk that has its context.                    *)
LEMMA NothingJoinsBefore ==
  ASSUME text \in Texts, NEW run \in Runs(text.words, Whole(text.words)),
         NEW chunk \in Nat \X Nat, chunk[1] <= Context(run)[1],
         NEW z \in Names(text.words, ShownOf(chunk)), Adjacent(z, run[1], ShownOf(chunk))
  PROVE  FALSE
  <1> DEFINE shown == ShownOf(chunk)
             full == Whole(text.words)
             x == run[1]
             i == x[1]
             h == z[1]
             lo == shown[h][1]
             word == text.words[h]
             r == <<z[2], z[3]>>
  <1>1. /\ i = h + 1 /\ h \in DOMAIN shown /\ i \in DOMAIN shown
        /\ z[3] = shown[h][2] /\ x[2] = shown[i][1]
    BY DEF Adjacent
  <1>2. /\ z = <<h, z[2], z[3]>> /\ r \in NamesOf(word, lo, shown[h][2])
        /\ z[2] \in lo..shown[h][2] /\ z[3] \in lo..shown[h][2]
    BY NamePlaces
  <1>3. h \in 1..TotalTokens /\ i \in 1..TotalTokens /\ TotalTokens \in Nat
    BY <1>1, ShownBounds, TextHasLength
  <1>4. /\ Len(word) \in Nat /\ lo \in Nat /\ lo >= 1 /\ text.at[h - 1] \in Nat
        /\ shown[h][2] \in Nat
        /\ lo = IF chunk[1] <= text.at[h - 1] THEN 1 ELSE 1 + (chunk[1] - text.at[h - 1])
        /\ DOMAIN word = 1..Len(word)
    BY <1>1, <1>3, ShownBounds, WordOffsets DEF TotalTokens
  <1> HIDE DEF i, h, lo, word, shown
  <1>5. lo <= shown[h][2]
    BY <1>2, <1>4
  <1>6. shown[h][2] = Len(word) /\ shown[i][1] = 1
    BY <1>1, <1>5, NextIsShown DEF shown, lo, word
  <1>7. i # 1 /\ i - 1 = h /\ i - 2 = h - 1
    BY <1>1, <1>3
  <1>8. x[2] = 1 /\ lo \in DOMAIN word /\ r \in NamesOf(word, lo, Len(word)) /\ r[2] = Len(word)
    BY <1>1, <1>2, <1>4, <1>5, <1>6
  <1>9. Context(run)[1] = text.at[h - 1]
    <2> DEFINE before == IF i = 1 THEN <<>> ELSE text.words[i - 1]
    <2>1. before = word
      BY <1>7 DEF word
    <2>2. /\ x[2] = 1
          /\ \E l \in DOMAIN before : \E q \in NamesOf(before, l, Len(before)) : q[2] = Len(before)
      <3> HIDE DEF before, r
      <3> QED
        BY <1>8, <2>1
    <2>3. Context(run)[1] = text.at[i - 2]
      BY <2>2 DEF Context, i
    <2> QED
      BY <1>7, <2>3
  <1>10. lo = 1
    BY <1>4, <1>9
  <1>11. /\ full[h][1] = 1 /\ full[h][2] = Len(word) /\ h \in DOMAIN full
         /\ full[i][1] = 1 /\ i \in DOMAIN full
    BY <1>3, WordOffsets DEF Whole, TotalTokens, word
  <1>12. z \in Names(text.words, full)
    <2>1. r \in NamesOf(text.words[h], full[h][1], full[h][2])
      BY <1>8, <1>10, <1>11 DEF word
    <2>2. z = <<h, r[1], r[2]>>
      BY <1>2
    <2> HIDE DEF r, full
    <2> QED
      BY <1>11, <2>1, <2>2 DEF Names
  <1>13. Adjacent(z, x, full)
    <2>1. x[1] = i /\ z[1] = h
      BY DEF i, h
    <2>2. z[3] = full[h][2] /\ x[2] = full[i][1]
      BY <1>1, <1>6, <1>11
    <2> HIDE DEF full, x
    <2> QED
      BY <1>1, <1>11, <2>1, <2>2 DEF Adjacent
  <1> QED
    BY <1>12, <1>13, RunMeaning

LEMMA NothingJoinsAfter ==
  ASSUME text \in Texts, NEW run \in Runs(text.words, Whole(text.words)),
         NEW chunk \in Nat \X Nat, Context(run)[2] <= chunk[2],
         run[2] \in Names(text.words, ShownOf(chunk)),
         NEW z \in Names(text.words, ShownOf(chunk)), Adjacent(run[2], z, ShownOf(chunk))
  PROVE  FALSE
  <1> DEFINE shown == ShownOf(chunk)
             full == Whole(text.words)
             y == run[2]
             j == y[1]
             k == z[1]
             lo == shown[k][1]
             hi == shown[k][2]
             word == text.words[k]
             r == <<z[2], z[3]>>
  <1>1. /\ k = j + 1 /\ k \in DOMAIN shown /\ j \in DOMAIN shown
        /\ y[3] = shown[j][2] /\ z[2] = lo
    BY DEF Adjacent
  <1>2. /\ z = <<k, z[2], z[3]>> /\ r \in NamesOf(word, lo, hi)
        /\ z[2] \in lo..hi /\ z[3] \in lo..hi
    BY NamePlaces
  <1>3. k \in 1..TotalTokens /\ j \in 1..TotalTokens /\ TotalTokens \in Nat
    BY <1>1, ShownBounds, TextHasLength
  <1>4. /\ Len(word) \in Nat /\ lo \in Nat /\ hi \in Nat /\ hi <= Len(word)
        /\ hi = IF text.at[k - 1] + Len(word) <= chunk[2] THEN Len(word) ELSE chunk[2] - text.at[k - 1]
        /\ DOMAIN word = 1..Len(word)
        /\ shown[j][1] \in Nat /\ shown[j][2] \in Nat
    BY <1>1, <1>3, ShownBounds, WordOffsets DEF TotalTokens
  <1>5. y[2] \in shown[j][1]..shown[j][2]
    BY NamePlaces
  <1> HIDE DEF j, k, lo, hi, word, shown
  <1>6. shown[j][1] <= shown[j][2]
    <2> DEFINE p == y[2]
               a == shown[j][1]
               b == shown[j][2]
    <2>1. p \in a..b /\ a \in Nat /\ b \in Nat
      BY <1>4, <1>5
    <2> HIDE DEF p, a, b
    <2>2. a <= b
      BY <2>1
    <2> QED
      BY <2>2 DEF a, b
  <1>7. shown[j][2] = Len(text.words[j]) /\ lo = 1
    BY <1>1, <1>6, NextIsShown DEF shown, lo
  <1>8. j # TotalTokens /\ k - 1 = j
    BY <1>1, <1>3
  <1>9. /\ y[3] = Len(text.words[j]) /\ hi \in DOMAIN word
        /\ r \in NamesOf(word, 1, hi) /\ r[1] = 1
    <2>1. hi \in DOMAIN word
      <3> DEFINE p == z[2]
      <3>1. p \in lo..hi
        BY <1>2
      <3> HIDE DEF p
      <3> QED
        BY <1>4, <1>7, <3>1
    <2> QED
      BY <1>1, <1>2, <1>7, <2>1
  <1>10. Context(run)[2] = WordEnd(k)
    <2> DEFINE after == IF j = TotalTokens THEN <<>> ELSE text.words[j + 1]
    <2>1. after = word
      BY <1>1, <1>8 DEF word
    <2>2. /\ y[3] = Len(text.words[j])
          /\ \E l \in DOMAIN after : \E q \in NamesOf(after, 1, l) : q[1] = 1
      <3> HIDE DEF after, r
      <3> QED
        BY <1>9, <2>1
    <2>3. Context(run)[2] = WordEnd(j + 1)
      BY <2>2 DEF Context, j
    <2> QED
      BY <1>1, <2>3
  <1>11. hi = Len(word)
    <2> DEFINE u == text.at[k - 1]
               n == Len(word)
               b == Blank(text, k)
               v == text.at[k]
    <2>1. u \in Nat /\ n \in Nat /\ b \in Nat /\ v = u + n + b
      BY <1>3, WordFits DEF word
    <2>2. v - b <= chunk[2]
      BY <1>10 DEF WordEnd
    <2>3. hi = IF u + n <= chunk[2] THEN n ELSE chunk[2] - u
      BY <1>4
    <2> HIDE DEF u, n, b, v
    <2>4. v - b = u + n
      BY <2>1
    <2>5. hi = n
      BY <2>2, <2>3, <2>4
    <2> QED
      BY <2>5 DEF n
  <1>12. /\ full[k][1] = 1 /\ full[k][2] = Len(word) /\ k \in DOMAIN full
         /\ full[j][2] = Len(text.words[j]) /\ j \in DOMAIN full
    BY <1>3, WordOffsets DEF Whole, TotalTokens, word
  <1>13. z \in Names(text.words, full)
    <2>1. r \in NamesOf(text.words[k], full[k][1], full[k][2])
      BY <1>9, <1>11, <1>12 DEF word
    <2>2. z = <<k, r[1], r[2]>>
      BY <1>2
    <2> HIDE DEF r, full
    <2> QED
      BY <1>12, <2>1, <2>2 DEF Names
  <1>14. Adjacent(y, z, full)
    <2>1. y[1] = j /\ z[1] = k
      BY DEF j, k
    <2>2. y[3] = full[j][2] /\ z[2] = full[k][1]
      BY <1>1, <1>7, <1>9, <1>12
    <2> HIDE DEF full, y
    <2> QED
      BY <1>1, <1>12, <2>1, <2>2 DEF Adjacent
  <1> QED
    BY <1>13, <1>14, RunMeaning

(* A run is the same run in a chunk that has its context.                  *)
LEMMA RunIsShown ==
  ASSUME text \in Texts, NEW run \in Runs(text.words, Whole(text.words)),
         NEW chunk \in Nat \X Nat,
         chunk[1] <= Context(run)[1], Context(run)[2] <= chunk[2]
  PROVE  /\ run \in Runs(text.words, ShownOf(chunk))
         /\ Phrase(text.words, ShownOf(chunk), run)
              = Phrase(text.words, Whole(text.words), run)
  <1> DEFINE shown == ShownOf(chunk)
             full == Whole(text.words)
             names == Names(text.words, shown)
             x == run[1]
             y == run[2]
  <1>1. chunk[1] <= LettersOf(run)[1] /\ LettersOf(run)[2] <= chunk[2]
    <2> DEFINE a == Context(run)[1]
               b == Context(run)[2]
               from == LettersOf(run)[1]
               to == LettersOf(run)[2]
    <2>1. a \in Nat /\ b \in Nat /\ from \in Nat /\ to \in Nat /\ a <= from /\ to <= b
      BY ContextMeaning
    <2>2. chunk[1] \in Nat /\ chunk[2] \in Nat /\ chunk[1] <= a /\ b <= chunk[2]
      OBVIOUS
    <2> HIDE DEF a, b, from, to
    <2>3. chunk[1] <= from /\ to <= chunk[2]
      BY <2>1, <2>2
    <2> QED
      BY <2>3 DEF from, to
  <1>2. \A i \in x[1]..y[1] : /\ i \in DOMAIN shown
                              /\ PartOf(x, y, shown, i) = PartOf(x, y, full, i)
                              /\ PartOf(x, y, shown, i) \in names
    BY <1>1, PartsAreShown
  <1>3. /\ x[1] \in 1..TotalTokens /\ y[1] \in 1..TotalTokens /\ x[1] <= y[1]
        /\ PartOf(x, y, full, x[1]) = x /\ PartOf(x, y, full, y[1]) = y
        /\ run = <<x, y>> /\ TotalTokens \in Nat
    BY RunMeaning, TextHasLength
  <1>4. x[1] \in x[1]..y[1] /\ y[1] \in x[1]..y[1]
    <2> HIDE DEF x, y
    <2> QED
      BY <1>3
  <1>5. x \in names /\ y \in names
    <2> HIDE DEF x, y, names, shown, full
    <2> QED
      BY <1>2, <1>3, <1>4
  <1>6. ASSUME NEW z \in names
        PROVE  ~ Adjacent(z, x, shown) /\ ~ Adjacent(y, z, shown)
    BY <1>5, NothingJoinsBefore, NothingJoinsAfter
  <1>7. run \in names \X names
    <2> HIDE DEF x, y, names
    <2> QED
      BY <1>3, <1>5
  <1>8. run \in Runs(text.words, shown)
    <2> HIDE DEF shown
    <2> QED
      BY <1>2, <1>3, <1>6, <1>7 DEF Runs
  <1>9. \A n \in 1..(y[1] - x[1] + 1) :
          PartOf(x, y, shown, x[1] + n - 1) = PartOf(x, y, full, x[1] + n - 1)
    <2> TAKE n \in 1..(y[1] - x[1] + 1)
    <2>1. x[1] + n - 1 \in x[1]..y[1]
      <3> DEFINE a == x[1]
                 b == y[1]
      <3>1. a \in 1..TotalTokens /\ b \in 1..TotalTokens /\ n \in 1..(b - a + 1)
        BY <1>3
      <3> HIDE DEF a, b
      <3>2. a + n - 1 \in a..b
        BY <1>3, <3>1
      <3> QED
        BY <3>2 DEF a, b
    <2> QED
      BY <1>2, <2>1
  <1>10. Phrase(text.words, shown, run) = Phrase(text.words, full, run)
    <2> HIDE DEF shown, full
    <2> QED
      BY <1>9 DEF Phrase
  <1> QED
    BY <1>8, <1>10

(* A name of the text that is long enough to count is an entity, unless    *)
(* its context is longer than the overlap.                                 *)
THEOREM NamesAreEntities == Spec => []NamesAreReachable
  <1>1. TextInv /\ GraphInv => NamesAreReachable
    <2> SUFFICES ASSUME TextInv, GraphInv, phase = "built",
                        NEW run \in Runs(text.words, Whole(text.words)),
                        Context(run)[2] - Context(run)[1] <= overlap,
                        PhraseLength(Phrase(text.words, Whole(text.words), run))
                          >= min_entity_token_length
                 PROVE  LET name == Phrase(text.words, Whole(text.words), run)
                        IN  /\ name \in DOMAIN nodes
                            /\ \E k \in DOMAIN nodes[name] :
                                 /\ chunks[k][1] <= LettersOf(run)[1]
                                 /\ LettersOf(run)[2] <= chunks[k][2]
      BY Zenon DEF NamesAreReachable
    <2> DEFINE name == Phrase(text.words, Whole(text.words), run)
               a == Context(run)[1]
               b == Context(run)[2]
               from == LettersOf(run)[1]
               to == LettersOf(run)[2]
    <2>1. text \in Texts
      BY DEF TextInv, ChaptersInv
    <2>2. /\ a \in Nat /\ b \in Nat /\ from \in Nat /\ to \in Nat
          /\ a <= from /\ to <= b /\ b <= TextLength
      BY <2>1, ContextMeaning
    <2>3. PICK k \in DOMAIN chunks : chunks[k][1] <= a /\ b <= chunks[k][2]
      <3> HIDE DEF a, b
      <3>1. b - a <= overlap
        BY DEF a, b
      <3> QED
        BY <2>2, <3>1, ChunksOverlap
    <2>4. chunks[k] \in Nat \X Nat
      BY DEF TextInv, ChunksInv
    <2>5. chunks[k][1] <= from /\ to <= chunks[k][2]
      <3> DEFINE c == chunks[k][1]
                 d == chunks[k][2]
      <3>1. c \in Nat /\ d \in Nat /\ c <= a /\ b <= d
        BY <2>3, <2>4
      <3> HIDE DEF a, b, c, d, from, to
      <3>2. c <= from /\ to <= d
        BY <2>2, <3>1
      <3> QED
        BY <3>2 DEF c, d
    <2>6. /\ run \in Runs(text.words, ShownOf(chunks[k]))
          /\ Phrase(text.words, ShownOf(chunks[k]), run) = name
      BY <2>1, <2>3, <2>4, RunIsShown
    <2>7. name \in MentionsOf(chunks[k])
      BY <2>6 DEF MentionsOf, extract_mentions
    <2> DEFINE mentions == [c \in DOMAIN chunks |-> MentionsOf(chunks[c])]
    <2>8. nodes = Entities(mentions)
      BY DEF GraphInv, Mentions
    <2>9. name \in mentions[k] /\ k \in DOMAIN mentions
      BY <2>3, <2>7
    <2> HIDE DEF name, mentions, from, to
    <2>10. name \in UNION Range(mentions)
      BY <2>9 DEF Range
    <2>11. name \in DOMAIN nodes /\ k \in DOMAIN nodes[name]
      BY <2>8, <2>9, <2>10 DEF Entities
    <2> QED
      BY <2>5, <2>11 DEF name, from, to
  <1> QED
    BY <1>1, RetrievalCorrect, PTL

-----------------------------------------------------------------------------
(* More about sums. *)

(* What is summed up over a set depends on no other values.                *)
LEMMA SumDepends ==
  ASSUME NEW f, NEW g, NEW S, IsFiniteSet(S), \A x \in S : f[x] \in Nat /\ g[x] = f[x]
  PROVE  SumFunctionOnSet(g, S) = SumFunctionOnSet(f, S)
  <1>1. Units(g, S) = Units(f, S)
    BY DEF Units
  <1>2. /\ SumFunctionOnSet(g, S) = Cardinality(Units(g, S))
        /\ SumFunctionOnSet(f, S) = Cardinality(Units(f, S))
    BY SumCounts
  <1> QED
    BY <1>1, <1>2

(* Zeros add nothing. *)
LEMMA SumOfZeros ==
  ASSUME NEW f, NEW T, NEW S \in SUBSET T, IsFiniteSet(T), \A x \in T : f[x] \in Nat,
         \A x \in T \ S : f[x] = 0
  PROVE  SumFunctionOnSet(f, T) = SumFunctionOnSet(f, S)
  <1>1. Units(f, T) = Units(f, S)
    <2>1. \A n \in Nat : ~ n < 0
      OBVIOUS
    <2> QED
      BY <2>1 DEF Units
  <1>2. IsFiniteSet(S)
    BY FS_Subset
  <1>3. /\ SumFunctionOnSet(f, T) = Cardinality(Units(f, T))
        /\ SumFunctionOnSet(f, S) = Cardinality(Units(f, S))
    BY <1>2, SumCounts
  <1> QED
    BY <1>1, <1>3

(* More of each is more in all. *)
LEMMA SumGrows ==
  ASSUME NEW f, NEW g, NEW S, IsFiniteSet(S),
         \A x \in S : f[x] \in Nat /\ g[x] \in Nat /\ f[x] <= g[x]
  PROVE  /\ SumFunctionOnSet(f, S) \in Nat /\ SumFunctionOnSet(g, S) \in Nat
         /\ SumFunctionOnSet(f, S) <= SumFunctionOnSet(g, S)
  <1>1. Units(f, S) \in SUBSET Units(g, S)
    BY DEF Units
  <1>2. /\ IsFiniteSet(Units(g, S)) /\ Cardinality(Units(g, S)) \in Nat
        /\ Cardinality(Units(f, S)) \in Nat
    BY UnitsAreFinite
  <1>3. Cardinality(Units(f, S)) <= Cardinality(Units(g, S))
    BY <1>1, <1>2, FS_Subset
  <1>4. /\ SumFunctionOnSet(g, S) = Cardinality(Units(g, S))
        /\ SumFunctionOnSet(f, S) = Cardinality(Units(f, S))
    BY SumCounts
  <1> QED
    BY <1>2, <1>3, <1>4

(* A sum is at least each of its summands. *)
LEMMA SumBounds ==
  ASSUME NEW f, NEW S, IsFiniteSet(S), \A x \in S : f[x] \in Nat, NEW y \in S
  PROVE  SumFunctionOnSet(f, S) \in Nat /\ f[y] <= SumFunctionOnSet(f, S)
  <1> DEFINE rest == S \ {y}
  <1>1. IsFiniteSet(rest) /\ y \notin rest /\ rest \union {y} = S
    BY FS_RemoveElement
  <1>2. \A x \in rest : f[x] \in Nat
    OBVIOUS
  <1> HIDE DEF rest
  <1>3. SumFunctionOnSet(f, rest \union {y}) = f[y] + SumFunctionOnSet(f, rest)
    BY <1>1, <1>2, SumOfOneMore
  <1>4. SumFunctionOnSet(f, rest) \in Nat
    BY <1>1, <1>2, SumGrows
  <1> DEFINE all == SumFunctionOnSet(f, S)
             others == SumFunctionOnSet(f, rest)
  <1>5. all = f[y] + others /\ others \in Nat /\ f[y] \in Nat
    BY <1>1, <1>3, <1>4
  <1> HIDE DEF all, others
  <1>6. all \in Nat /\ f[y] <= all
    BY <1>5
  <1> QED
    BY <1>6 DEF all

(* The same multiple of each is that multiple of all.                      *)
LEMMA SumScales ==
  ASSUME NEW f, NEW g, NEW c \in Nat, NEW S, IsFiniteSet(S),
         \A x \in S : f[x] \in Nat /\ g[x] = f[x] * c
  PROVE  SumFunctionOnSet(g, S) = SumFunctionOnSet(f, S) * c
  <1> DEFINE bad == {n \in Nat : \E T \in SUBSET S :
                       Cardinality(T) = n
                       /\ SumFunctionOnSet(g, T) # SumFunctionOnSet(f, T) * c}
             least == Min(bad)
  <1>1. \A T \in SUBSET S : IsFiniteSet(T) /\ Cardinality(T) \in Nat
    BY FS_Subset, FS_CardinalityType
  <1>2. SUFFICES ASSUME bad # {} PROVE FALSE
    BY <1>1
  <1>3. bad \subseteq Nat
    OBVIOUS
  <1>4. least \in bad /\ \A n \in bad : least <= n
    BY <1>2, <1>3, LeastNumber, Zenon
  <1>5. PICK T \in SUBSET S : /\ Cardinality(T) = least
                              /\ SumFunctionOnSet(g, T) # SumFunctionOnSet(f, T) * c
    BY <1>4
  <1> HIDE DEF least
  <1>6. T # {}
    <2>1. SumFunctionOnSet(g, {}) = 0 /\ SumFunctionOnSet(f, {}) = 0
      BY EmptySum
    <2>2. 0 * c = 0
      OBVIOUS
    <2> QED
      BY <1>5, <2>1, <2>2, Zenon
  <1>7. PICK x \in T : TRUE
    BY <1>6
  <1> DEFINE rest == T \ {x}
             sf == SumFunctionOnSet(f, rest)
             sg == SumFunctionOnSet(g, rest)
  <1>8. /\ Cardinality(rest) = Cardinality(T) - 1 /\ Cardinality(rest) \in Nat
        /\ IsFiniteSet(rest) /\ rest \in SUBSET S
    BY <1>1, <1>7, FS_RemoveElement
  <1>9. Cardinality(rest) \notin bad
    <2>1. Cardinality(T) \in Nat
      BY <1>1
    <2>2. ~ least <= Cardinality(rest)
      BY <1>5, <1>8, <2>1
    <2> QED
      BY <1>4, <2>2, Zenon
  <1>10. sg = sf * c
    BY <1>8, <1>9
  <1>11. x \notin rest /\ rest \union {x} = T /\ f[x] \in Nat /\ g[x] = f[x] * c
         /\ \A y \in rest : f[y] \in Nat /\ g[y] = f[y] * c /\ g[y] \in Nat
    BY <1>7
  <1> HIDE DEF rest
  <1>12. /\ SumFunctionOnSet(f, rest \union {x}) = f[x] + sf
         /\ SumFunctionOnSet(g, rest \union {x}) = g[x] + sg
    <2>1. g[x] \in Nat
      BY <1>11
    <2> QED
      BY <1>8, <1>11, <2>1, SumOfOneMore
  <1>13. sf \in Nat
    BY <1>8, <1>11, SumGrows
  <1> HIDE DEF sf, sg
  <1> DEFINE v == f[x]
  <1>14. v \in Nat /\ g[x] = v * c
    BY <1>11
  <1> HIDE DEF v
  <1>15. v * c + sf * c = (v + sf) * c
    BY <1>13, <1>14
  <1>16. /\ SumFunctionOnSet(f, T) = v + sf /\ SumFunctionOnSet(g, T) = v * c + sf * c
    BY <1>10, <1>11, <1>12, <1>14 DEF v
  <1> QED
    BY <1>5, <1>15, <1>16

(* A hop's share of a score is a whole number of units.                    *)
LEMMA ShareOfHop ==
  ASSUME NEW hop \in 0..max_hops, NEW n \in Nat
  PROVE  /\ Unit \div (1 + hop) \in Nat
         /\ (n * Unit) \div (1 + hop) = n * (Unit \div (1 + hop))
  <1> DEFINE d == 1 + hop
  <1>1. Unit \in Nat /\ max_hops \in Nat /\ hop \in Nat
    BY UnitAssumption, ConfigAssumption
  <1>2. d \in Nat /\ d > 0 /\ Unit % d = 0
    BY <1>1, UnitAssumption
  <1> HIDE DEF d
  <1>3. Unit = d * (Unit \div d) + (Unit % d) /\ Unit \div d \in Nat
    BY <1>1, <1>2
  <1> DEFINE c == Unit \div d
  <1>4. c \in Nat /\ Unit = d * c
    BY <1>2, <1>3
  <1> HIDE DEF c
  <1>5. n * Unit = d * (n * c) /\ n * c \in Nat
    <2>1. n * (d * c) = d * (n * c) /\ n * c \in Nat
      BY <1>2, <1>4
    <2> QED
      BY <1>4, <2>1
  <1> DEFINE p == n * c
  <1> HIDE DEF p
  <1>6. p \in Nat /\ (d * p) \div d = p
    BY <1>2, <1>5 DEF p
  <1>7. (n * Unit) \div d = p
    BY <1>5, <1>6 DEF p
  <1> QED
    BY <1>4, <1>7 DEF c, p, d

(* So is any multiple of it. *)
LEMMA ShareOfMultiple ==
  ASSUME NEW hop \in 0..max_hops, NEW n \in Nat, NEW m \in Nat
  PROVE  ((n * Unit) \div (1 + hop)) * m = ((n * m) * Unit) \div (1 + hop)
  <1> DEFINE c == Unit \div (1 + hop)
  <1>1. c \in Nat /\ (n * Unit) \div (1 + hop) = n * c
    BY ShareOfHop
  <1>2. n * m \in Nat
    OBVIOUS
  <1>3. ((n * m) * Unit) \div (1 + hop) = (n * m) * c
    BY <1>2, ShareOfHop
  <1> HIDE DEF c
  <1>4. (n * c) * m = (n * m) * c
    BY <1>1
  <1> QED
    BY <1>1, <1>3, <1>4

(* What a hop adds lies between what the lightest and what the heaviest    *)
(* edges would.                                                            *)
LEMMA GainOfHop ==
  ASSUME NEW hop \in 0..max_hops, NEW S, IsFiniteSet(S), NEW low, NEW w, NEW high, NEW gain,
         \A n \in S : /\ low[n] \in Nat /\ w[n] \in Nat /\ high[n] \in Nat
                      /\ low[n] <= w[n] /\ w[n] <= high[n]
                      /\ gain[n] = (w[n] * Unit) \div (1 + hop)
  PROVE  LET least == (SumFunctionOnSet(low, S) * Unit) \div (1 + hop)
             most  == (SumFunctionOnSet(high, S) * Unit) \div (1 + hop)
         IN  /\ least \in Nat /\ most \in Nat /\ SumFunctionOnSet(gain, S) \in Nat
             /\ least <= SumFunctionOnSet(gain, S)
             /\ SumFunctionOnSet(gain, S) <= most
  <1> DEFINE c == Unit \div (1 + hop)
             a == SumFunctionOnSet(low, S)
             b == SumFunctionOnSet(w, S)
             e == SumFunctionOnSet(high, S)
  <1>1. c \in Nat
    BY ShareOfHop
  <1>2. a \in Nat /\ b \in Nat /\ e \in Nat /\ a <= b /\ b <= e
    BY SumGrows
  <1>3. /\ (a * Unit) \div (1 + hop) = a * c
        /\ (e * Unit) \div (1 + hop) = e * c
    BY <1>2, ShareOfHop
  <1>4. SumFunctionOnSet(gain, S) = b * c
    <2>1. \A n \in S : gain[n] = w[n] * c
      BY ShareOfHop
    <2> HIDE DEF c
    <2> QED
      BY <1>1, <2>1, SumScales
  <1> HIDE DEF a, b, c, e
  <1>5. a * c \in Nat /\ b * c \in Nat /\ e * c \in Nat /\ a * c <= b * c /\ b * c <= e * c
    BY <1>1, <1>2
  <1> QED
    BY <1>3, <1>4, <1>5 DEF a, e

-----------------------------------------------------------------------------
(* Distances. *)

Entries == resolve_entry_entities(query)

(* An edge away from some entities. *)
NextTo(S) == {n \in DOMAIN nodes : \E m \in S : {m, n} \in DOMAIN edges}

(* The ways of d steps that begin at an entry entity and may rest.         *)
WaysFrom(d) ==
  {p \in [0..d -> Entries \union DOMAIN nodes] :
     /\ p[0] \in Entries
     /\ \A i \in 1..d : p[i] = p[i - 1] \/ p[i] \in NextTo({p[i - 1]})}

(* Where ways of one step more end. *)
LEMMA OneStepMore ==
  ASSUME NEW d \in Nat
  PROVE  LET ends == {p[d] : p \in WaysFrom(d)}
         IN  {p[d + 1] : p \in WaysFrom(d + 1)} = ends \union NextTo(ends)
  <1> DEFINE ends == {p[d] : p \in WaysFrom(d)}
             next == {p[d + 1] : p \in WaysFrom(d + 1)}
             some == Entries \union DOMAIN nodes
  <1>1. ASSUME NEW n \in next PROVE n \in ends \union NextTo(ends)
    <2>1. PICK p \in WaysFrom(d + 1) : p[d + 1] = n
      OBVIOUS
    <2>2. /\ p \in [0..(d + 1) -> some] /\ p[0] \in Entries
          /\ \A i \in 1..(d + 1) : p[i] = p[i - 1] \/ p[i] \in NextTo({p[i - 1]})
      BY <2>1 DEF WaysFrom
    <2> DEFINE q == [i \in 0..d |-> p[i]]
    <2>3. 0..d \subseteq 0..(d + 1) /\ 1..d \subseteq 1..(d + 1) /\ d + 1 \in 1..(d + 1)
          /\ d + 1 \in 0..(d + 1) /\ d + 1 - 1 = d /\ 0 \in 0..d /\ d \in 0..d
          /\ \A i \in 1..d : i \in 0..d /\ i - 1 \in 0..d
      OBVIOUS
    <2>4. q \in WaysFrom(d)
      BY <2>2, <2>3 DEF WaysFrom
    <2>5. p[d] \in ends
      <3>1. q[d] = p[d]
        BY <2>3
      <3> QED
        BY <2>4, <3>1
    <2>6. n = p[d] \/ n \in NextTo({p[d]})
      BY <2>1, <2>2, <2>3
    <2> QED
      BY <2>5, <2>6 DEF NextTo
  <1>2. ASSUME NEW n \in ends \union NextTo(ends) PROVE n \in next
    <2>1. PICK m \in ends : n = m \/ n \in NextTo({m})
      BY <1>2 DEF NextTo
    <2>2. PICK p \in WaysFrom(d) : p[d] = m
      BY <2>1
    <2>3. /\ p \in [0..d -> some] /\ p[0] \in Entries
          /\ \A i \in 1..d : p[i] = p[i - 1] \/ p[i] \in NextTo({p[i - 1]})
      BY <2>2 DEF WaysFrom
    <2> DEFINE q == [i \in 0..(d + 1) |-> IF i = d + 1 THEN n ELSE p[i]]
    <2>4. n \in some
      BY <2>1, <2>2, <2>3 DEF NextTo
    <2>5. q \in [0..(d + 1) -> some]
      <3>1. \A i \in 0..(d + 1) : i = d + 1 \/ i \in 0..d
        OBVIOUS
      <3> QED
        BY <2>3, <2>4, <3>1
    <2>6. q[0] = p[0] /\ q[d + 1] = n /\ q[d] = p[d]
      OBVIOUS
    <2>7. ASSUME NEW i \in 1..(d + 1)
          PROVE  q[i] = q[i - 1] \/ q[i] \in NextTo({q[i - 1]})
      <3>1. CASE i = d + 1
        <4>1. i - 1 = d
          BY <3>1
        <4> QED
          BY <2>1, <2>2, <2>6, <3>1, <4>1
      <3>2. CASE i # d + 1
        <4>1. i \in 1..d /\ i - 1 \in 0..(d + 1) /\ i - 1 # d + 1 /\ i \in 0..(d + 1)
          BY <3>2
        <4>2. q[i] = p[i] /\ q[i - 1] = p[i - 1]
          BY <3>2, <4>1
        <4> QED
          BY <2>3, <4>1, <4>2
      <3> QED
        BY <3>1, <3>2
    <2>8. q \in WaysFrom(d + 1)
      <3> HIDE DEF q
      <3> QED
        BY <2>3, <2>5, <2>6, <2>7 DEF WaysFrom
    <2> QED
      BY <2>6, <2>8
  <1> QED
    BY <1>1, <1>2

(* What is within a distance: the entry entities, and an edge more at each *)
(* distance more.                                                          *)
LEMMA WithinMeaning ==
  /\ Within[0] = Entries
  /\ \A d \in Nat : Within[d + 1] = Within[d] \union NextTo(Within[d])
  <1> DEFINE Body(g) == [d \in Nat |->
                           IF d = 0 THEN Entries ELSE g[d - 1] \union NextTo(g[d - 1])]
             Walked == [d \in Nat |-> {p[d] : p \in WaysFrom(d)}]
  <1>1. Within = CHOOSE g : g = Body(g)
    BY Zenon DEF Within, Entries, NextTo
  <1>2. Walked[0] = Entries
    <2>1. ASSUME NEW n \in Entries PROVE n \in {p[0] : p \in WaysFrom(0)}
      <3> DEFINE p == [i \in 0..0 |-> n]
      <3>1. p \in WaysFrom(0) /\ p[0] = n
        BY DEF WaysFrom, Entries
      <3> QED
        BY <3>1
    <2>2. \A n \in {p[0] : p \in WaysFrom(0)} : n \in Entries
      BY DEF WaysFrom
    <2> QED
      BY <2>1, <2>2
  <1>3. \A d \in Nat : Walked[d + 1] = Walked[d] \union NextTo(Walked[d])
    <2> TAKE d \in Nat
    <2>1. /\ Walked[d] = {p[d] : p \in WaysFrom(d)}
          /\ Walked[d + 1] = {p[d + 1] : p \in WaysFrom(d + 1)}
      <3>1. d + 1 \in Nat
        OBVIOUS
      <3> QED
        BY <3>1
    <2> HIDE DEF Walked
    <2> QED
      BY <2>1, OneStepMore, Zenon
  <1>4. Walked = Body(Walked)
    <2>1. ASSUME NEW d \in Nat PROVE Walked[d] = Body(Walked)[d]
      <3>1. CASE d = 0
        BY <1>2, <3>1
      <3>2. CASE d # 0
        <4>1. d - 1 \in Nat /\ d - 1 + 1 = d
          BY <3>2
        <4> HIDE DEF Walked
        <4> QED
          BY <1>3, <3>2, <4>1
      <3> QED
        BY <3>1, <3>2
    <2>2. DOMAIN Walked = Nat /\ DOMAIN Body(Walked) = Nat
      OBVIOUS
    <2> QED
      BY <2>1, <2>2
  <1>5. Within = Body(Within)
    <2> HIDE DEF Walked, Body
    <2> QED
      BY <1>1, <1>4
  <1> QED
    <2>1. Within[0] = Entries
      BY <1>5
    <2>2. ASSUME NEW d \in Nat PROVE Within[d + 1] = Within[d] \union NextTo(Within[d])
      <3> DEFINE e == d + 1
      <3>1. e \in Nat /\ e # 0 /\ e - 1 = d
        OBVIOUS
      <3> HIDE DEF e
      <3>2. Within[e] = Body(Within)[e]
        <4> HIDE DEF Body
        <4> QED
          BY <1>5
      <3>3. Body(Within)[e] = Within[e - 1] \union NextTo(Within[e - 1])
        BY <3>1
      <3> QED
        BY <3>1, <3>2, <3>3 DEF e
    <2> QED
      BY <2>1, <2>2

(* All of it is in the graph. *)
LEMMA WithinIsOfGraph ==
  ASSUME GraphInv, NEW d \in Nat
  PROVE  Within[d] \subseteq DOMAIN nodes /\ Within[d] \subseteq Within[d + 1]
  <1> DEFINE bad == {n \in Nat : ~ Within[n] \subseteq DOMAIN nodes}
             least == Min(bad)
  <1>1. bad = {}
    <2> SUFFICES ASSUME bad # {} PROVE FALSE
      OBVIOUS
    <2>1. bad \subseteq Nat
      OBVIOUS
    <2>2. least \in bad /\ \A n \in bad : least <= n
      BY <2>1, LeastNumber, Zenon
    <2> HIDE DEF least
    <2>3. least # 0
      <3>1. Entries \subseteq DOMAIN nodes
        BY DEF GraphInv, Entries, resolve_entry_entities
      <3> QED
        BY <2>2, <3>1, WithinMeaning
    <2>4. least - 1 \in Nat /\ least - 1 + 1 = least /\ ~ least <= least - 1
      BY <2>2, <2>3
    <2>5. Within[least - 1] \subseteq DOMAIN nodes
      BY <2>2, <2>4
    <2>6. Within[least] = Within[least - 1] \union NextTo(Within[least - 1])
      BY <2>4, WithinMeaning
    <2>7. NextTo(Within[least - 1]) \subseteq DOMAIN nodes
      BY DEF NextTo
    <2> QED
      BY <2>2, <2>5, <2>6, <2>7
  <1> HIDE DEF least
  <1> QED
    BY <1>1, WithinMeaning

(* Once a distance reaches nothing more, no greater one does.              *)
LEMMA WithinStops ==
  ASSUME NEW last \in Nat, Within[last + 1] = Within[last]
  PROVE  \A d \in Nat : d >= last => Within[d] = Within[last]
  <1> DEFINE bad == {n \in Nat : n >= last /\ Within[n] # Within[last]}
             least == Min(bad)
  <1> SUFFICES ASSUME bad # {} PROVE FALSE
    OBVIOUS
  <1>1. bad \subseteq Nat
    OBVIOUS
  <1>2. least \in bad /\ \A n \in bad : least <= n
    BY <1>1, LeastNumber, Zenon
  <1> HIDE DEF least
  <1>3. least # last /\ least >= last /\ least \in Nat
    BY <1>2
  <1>4. least - 1 \in Nat /\ least - 1 + 1 = least /\ ~ least <= least - 1 /\ least - 1 >= last
    BY <1>3
  <1>5. Within[least - 1] = Within[last]
    BY <1>2, <1>4
  <1>6. Within[least] = Within[least - 1] \union NextTo(Within[least - 1])
    BY <1>4, WithinMeaning
  <1>7. Within[least] = Within[last]
    BY <1>5, <1>6, WithinMeaning
  <1> QED
    BY <1>2, <1>7

(* The entities at a distance are in the graph, and finitely many.         *)
LEMMA AtIsOfGraph ==
  ASSUME GraphInv, NEW d \in Nat
  PROVE  At(d) \subseteq DOMAIN nodes /\ IsFiniteSet(At(d))
  <1>1. At(d) \subseteq Within[d]
    BY DEF At
  <1>2. At(d) \subseteq DOMAIN nodes
    BY <1>1, WithinIsOfGraph
  <1> QED
    BY <1>2, FS_Subset DEF GraphInv

(* Some edge leads to an entity on a shortest way, and their weights lie   *)
(* between the least and the most of them.                                 *)
LEMMA WaysAreNumbers ==
  ASSUME GraphInv, NEW d \in Nat, NEW n \in At(d)
  PROVE  /\ Min(Ways(d, n)) \in Ways(d, n)
         /\ \A w \in Ways(d, n) : /\ w \in Nat /\ Min(Ways(d, n)) \in Nat
                                  /\ Max(Ways(d, n)) \in Nat
                                  /\ Min(Ways(d, n)) <= w /\ w <= Max(Ways(d, n))
  <1> DEFINE S == Ways(d, n)
  <1>1. S \subseteq Nat /\ S # {} /\ \E b \in Nat : \A w \in S : w <= b
    <2>1. CASE d = 0
      <3>1. S = {1}
        BY <2>1 DEF Ways
      <3> QED
        BY <3>1
    <2>2. CASE d # 0
      <3> DEFINE c == d - 1
                 from == {x \in At(c) : {x, n} \in DOMAIN edges}
                 f == [x \in from |-> edges[{x, n}].weight]
                 b == SumFunctionOnSet(f, from)
      <3>1. c \in Nat /\ d = c + 1
        BY <2>2
      <3>2. S = {edges[{x, n}].weight : x \in from}
        BY <2>2 DEF Ways
      <3>3. \A x \in from : f[x] \in Nat /\ f[x] = edges[{x, n}].weight
        BY DEF GraphInv
      <3>4. IsFiniteSet(from)
        <4>1. from \subseteq At(c)
          OBVIOUS
        <4> HIDE DEF from, c
        <4> QED
          BY <3>1, <4>1, AtIsOfGraph, FS_Subset
      <3>5. from # {}
        <4>1. n \in Within[d] /\ n \notin Within[c]
          BY <2>2 DEF At
        <4> HIDE DEF c
        <4>2. n \in NextTo(Within[c])
          BY <3>1, <4>1, WithinMeaning
        <4>3. PICK m \in Within[c] : {m, n} \in DOMAIN edges /\ n \in DOMAIN nodes
          BY <4>2 DEF NextTo
        <4>4. m \in At(c)
          <5>1. SUFFICES ASSUME m \notin At(c) PROVE FALSE
            OBVIOUS
          <5>2. c # 0 /\ m \in Within[c - 1]
            BY <4>3, <5>1 DEF At
          <5> DEFINE e == c - 1
          <5>3. e \in Nat /\ c = e + 1
            BY <3>1, <5>2
          <5>4. m \in Within[e]
            BY <5>2
          <5> HIDE DEF e
          <5>5. n \in NextTo(Within[e])
            BY <4>3, <5>4 DEF NextTo
          <5>6. n \in Within[c]
            BY <5>3, <5>5, WithinMeaning
          <5> QED
            BY <4>1, <5>6
        <4> QED
          BY <4>3, <4>4
      <3> HIDE DEF from, f, c
      <3>6. b \in Nat /\ \A x \in from : f[x] <= b
        BY <3>3, <3>4, <3>5, SumBounds
      <3> HIDE DEF b, S
      <3>7. ASSUME NEW v \in S PROVE v \in Nat /\ v <= b
        <4>1. PICK x \in from : v = edges[{x, n}].weight
          BY <3>2
        <4> QED
          BY <3>3, <3>6, <4>1
      <3>8. S # {}
        BY <3>2, <3>5
      <3> QED
        BY <3>6, <3>7, <3>8
    <2> QED
      BY <2>1, <2>2
  <1> HIDE DEF S
  <1>2. Min(S) \in S /\ \A w \in S : Min(S) <= w
    BY <1>1, LeastNumber, Zenon
  <1>3. PICK b \in Nat : \A w \in S : w <= b
    BY <1>1
  <1>4. Max(S) \in S /\ \A w \in S : w <= Max(S)
    BY <1>1, <1>3, GreatestNumber
  <1>5. /\ Min(S) \in S
        /\ \A w \in S : w \in Nat /\ Min(S) \in Nat /\ Max(S) \in Nat
                        /\ Min(S) <= w /\ w <= Max(S)
    BY <1>1, <1>2, <1>4
  <1> QED
    BY <1>5 DEF S

(* What the entities at a distance add to a chunk, each found by an edge   *)
(* on a shortest way, is between the least and the most.                   *)
LEMMA HopGains ==
  ASSUME GraphInv, NEW hop \in 0..max_hops, NEW k, NEW w, NEW gain,
         \A n \in At(hop) : w[n] \in Ways(hop, n) /\ gain[n] = (w[n] * Unit) \div (1 + hop)
  PROVE  LET sum == SumFunction([n \in Mentioned(hop, k) |-> gain[n] * nodes[n][k]])
         IN  /\ LeastGains(k)[hop] \in Nat /\ MostGains(k)[hop] \in Nat /\ sum \in Nat
             /\ LeastGains(k)[hop] <= sum /\ sum <= MostGains(k)[hop]
  <1> DEFINE S == Mentioned(hop, k)
             low == [n \in S |-> Min(Ways(hop, n)) * nodes[n][k]]
             each == [n \in S |-> w[n] * nodes[n][k]]
             high == [n \in S |-> Max(Ways(hop, n)) * nodes[n][k]]
             all == [n \in S |-> gain[n] * nodes[n][k]]
  <1>1. hop \in Nat
    BY ConfigAssumption
  <1>2. S \subseteq At(hop)
    BY DEF Mentioned
  <1>3. IsFiniteSet(S)
    BY <1>1, <1>2, AtIsOfGraph, FS_Subset
  <1>4. ASSUME NEW n \in S
        PROVE  /\ low[n] \in Nat /\ each[n] \in Nat /\ high[n] \in Nat
               /\ low[n] <= each[n] /\ each[n] <= high[n]
               /\ all[n] = (each[n] * Unit) \div (1 + hop)
    <2> DEFINE a == Min(Ways(hop, n))
               b == w[n]
               c == Max(Ways(hop, n))
               e == nodes[n][k]
    <2>1. n \in At(hop) /\ n \in DOMAIN nodes /\ k \in DOMAIN nodes[n]
      BY <1>1, <1>2, AtIsOfGraph DEF Mentioned
    <2>2. low[n] = a * e /\ each[n] = b * e /\ high[n] = c * e /\ all[n] = gain[n] * e
      OBVIOUS
    <2>3. b \in Ways(hop, n) /\ gain[n] = (b * Unit) \div (1 + hop)
      BY <2>1
    <2>4. e \in Nat
      BY <2>1 DEF GraphInv
    <2>5. a \in Nat /\ b \in Nat /\ c \in Nat /\ a <= b /\ b <= c
      BY <1>1, <2>1, <2>3, WaysAreNumbers
    <2> HIDE DEF low, each, high, all, a, b, c, e, S
    <2>6. a * e \in Nat /\ b * e \in Nat /\ c * e \in Nat /\ a * e <= b * e /\ b * e <= c * e
      BY <2>4, <2>5
    <2>7. gain[n] * e = ((b * e) * Unit) \div (1 + hop)
      BY <2>3, <2>4, <2>5, ShareOfMultiple
    <2> QED
      BY <2>2, <2>6, <2>7
  <1>5. /\ LeastGains(k)[hop] = (SumFunctionOnSet(low, S) * Unit) \div (1 + hop)
        /\ MostGains(k)[hop] = (SumFunctionOnSet(high, S) * Unit) \div (1 + hop)
        /\ SumFunction(all) = SumFunctionOnSet(all, S)
    BY DEF LeastGains, MostGains, SumFunction
  <1> HIDE DEF S, low, each, high, all
  <1>6. LET least == (SumFunctionOnSet(low, S) * Unit) \div (1 + hop)
            most  == (SumFunctionOnSet(high, S) * Unit) \div (1 + hop)
        IN  /\ least \in Nat /\ most \in Nat /\ SumFunctionOnSet(all, S) \in Nat
            /\ least <= SumFunctionOnSet(all, S)
            /\ SumFunctionOnSet(all, S) <= most
    BY <1>3, <1>4, GainOfHop
  <1> QED
    BY <1>5, <1>6 DEF S, all

(* Those are numbers. *)
LEMMA GainsAreNumbers ==
  ASSUME GraphInv, NEW k
  PROVE  \A d \in 0..max_hops : LeastGains(k)[d] \in Nat /\ MostGains(k)[d] \in Nat
  <1> TAKE d \in 0..max_hops
  <1> DEFINE w == [n \in At(d) |-> Min(Ways(d, n))]
             gain == [n \in At(d) |-> (w[n] * Unit) \div (1 + d)]
  <1>1. d \in Nat
    BY ConfigAssumption
  <1>2. \A n \in At(d) : w[n] \in Ways(d, n)
    BY <1>1, WaysAreNumbers
  <1>3. \A n \in At(d) : gain[n] = (w[n] * Unit) \div (1 + d)
    OBVIOUS
  <1> HIDE DEF w, gain
  <1> QED
    BY <1>2, <1>3, HopGains

(* Where no entity mentions a chunk, it gains nothing. *)
LEMMA NothingToGain ==
  ASSUME NEW k, NEW d \in 0..max_hops, Mentioned(d, k) = {}
  PROVE  LeastGains(k)[d] = 0 /\ MostGains(k)[d] = 0
  <1> DEFINE low == [n \in Mentioned(d, k) |-> Min(Ways(d, n)) * nodes[n][k]]
             high == [n \in Mentioned(d, k) |-> Max(Ways(d, n)) * nodes[n][k]]
  <1>1. /\ LeastGains(k)[d] = (SumFunctionOnSet(low, {}) * Unit) \div (1 + d)
        /\ MostGains(k)[d] = (SumFunctionOnSet(high, {}) * Unit) \div (1 + d)
    BY DEF LeastGains, MostGains, SumFunction
  <1> HIDE DEF low, high
  <1>2. SumFunctionOnSet(low, {}) = 0 /\ SumFunctionOnSet(high, {}) = 0
    BY EmptySum
  <1>3. (0 * Unit) \div (1 + d) = 0
    BY ConfigAssumption, UnitAssumption
  <1> QED
    BY <1>1, <1>2, <1>3

-----------------------------------------------------------------------------
(* What a search has scored. *)

ScoreOf(k) == IF k \in DOMAIN scores THEN scores[k] ELSE 0

(* The search has gone as far as a distance: it has reached all that is    *)
(* within it, scored the chunks that mention any of that, each by what its *)
(* entities may add, and answers when there is no further to go.           *)
Reaches(h) ==
  /\ visited # <<>> /\ Len(visited) = h + 1
  /\ Frontier = At(h) /\ Reached = Within[h]
  /\ DOMAIN scores = UNION {DOMAIN nodes[n] : n \in Within[h]}
  /\ \A k \in DOMAIN chunks :
       /\ SumFunctionOnSet(LeastGains(k), 0..h) <= ScoreOf(k)
       /\ ScoreOf(k) <= SumFunctionOnSet(MostGains(k), 0..h)

Answers(h) == results # None => results = rank_chunks /\ (h = max_hops \/ Discovered = {})

(* The query names nothing that is in the graph. *)
NoEntry == visited = <<>> /\ Entries = {} /\ DOMAIN scores = {} /\ results = <<>>

ReachInv ==
  query # None => NoEntry \/ \E h \in 0..max_hops : Reaches(h) /\ Answers(h)

(* What the entities at a distance contribute lies between the bounds.     *)
LEMMA Contributed ==
  ASSUME GraphInv, NEW hop \in 0..max_hops, NEW k, NEW weight, DOMAIN weight = At(hop),
         \A n \in At(hop) : \E w \in Ways(hop, n) : weight[n] = (w * Unit) \div (1 + hop)
  PROVE  LET more == IF k \in DOMAIN Contribution(weight) THEN Contribution(weight)[k] ELSE 0
         IN  /\ more \in Nat
             /\ LeastGains(k)[hop] <= more /\ more <= MostGains(k)[hop]
  <1> DEFINE w == [n \in At(hop) |->
                     CHOOSE x \in Ways(hop, n) : weight[n] = (x * Unit) \div (1 + hop)]
             more == IF k \in DOMAIN Contribution(weight) THEN Contribution(weight)[k] ELSE 0
  <1>1. \A n \in At(hop) : w[n] \in Ways(hop, n) /\ weight[n] = (w[n] * Unit) \div (1 + hop)
    OBVIOUS
  <1> DEFINE gains == [n \in Mentioned(hop, k) |-> weight[n] * nodes[n][k]]
  <1>2. more = SumFunction(gains)
    <2>1. Mentioned(hop, k) = {n \in DOMAIN weight : k \in DOMAIN nodes[n]}
      BY DEF Mentioned
    <2>2. DOMAIN Contribution(weight) = UNION {DOMAIN nodes[n] : n \in DOMAIN weight}
      BY DEF Contribution
    <2>3. CASE k \in DOMAIN Contribution(weight)
      <3>1. Contribution(weight)[k] = SumFunction(gains)
        BY <2>1, <2>2, <2>3 DEF Contribution
      <3> QED
        BY <2>3, <3>1
    <2>4. CASE k \notin DOMAIN Contribution(weight)
      <3>1. Mentioned(hop, k) = {}
        BY <2>1, <2>2, <2>4
      <3>2. SumFunction(gains) = SumFunctionOnSet(gains, {})
        BY <3>1 DEF SumFunction
      <3> QED
        BY <2>4, <3>2, EmptySum
    <2> QED
      BY <2>3, <2>4
  <1> HIDE DEF w, more
  <1>3. LET sum == SumFunction(gains)
        IN  /\ LeastGains(k)[hop] \in Nat /\ MostGains(k)[hop] \in Nat /\ sum \in Nat
            /\ LeastGains(k)[hop] <= sum /\ sum <= MostGains(k)[hop]
    BY <1>1, HopGains
  <1> QED
    BY <1>2, <1>3 DEF more

(* A query has just been taken up. *)
Started ==
  /\ query # None
  /\ visited = IF Entries = {} THEN <<>> ELSE <<Entries>>
  /\ scores = Contribution([n \in Entries |-> Unit])
  /\ results = IF Entries = {} THEN <<>> ELSE None

(* A search that has begun has reached the entry entities.                 *)
LEMMA SearchBegins == GraphInv /\ Started => ReachInv
  <1> SUFFICES ASSUME GraphInv, Started PROVE ReachInv
    OBVIOUS
  <1> DEFINE weight == [n \in Entries |-> Unit]
  <1>1. DOMAIN scores = UNION {DOMAIN nodes[n] : n \in Entries}
    BY DEF Started, Contribution
  <1>2. CASE Entries = {}
    BY <1>1, <1>2 DEF Started, ReachInv, NoEntry
  <1>3. CASE Entries # {}
    <2>1. /\ visited = <<Entries>> /\ visited # <<>> /\ Len(visited) = 1
          /\ results = None /\ scores = Contribution(weight)
      BY <1>3 DEF Started
    <2>2. Within[0] = Entries /\ At(0) = Entries
      BY WithinMeaning DEF At
    <2>3. Frontier = Entries /\ Reached = Entries
      <3>1. DOMAIN visited = {1} /\ visited[1] = Entries
        BY <2>1
      <3>2. Range(visited) = {Entries}
        BY <3>1 DEF Range
      <3> QED
        BY <2>1, <3>1, <3>2 DEF Frontier, Reached
    <2>4. 0 \in 0..max_hops
      BY ConfigAssumption
    <2>5. ASSUME NEW k
          PROVE  /\ SumFunctionOnSet(LeastGains(k), 0..0) <= ScoreOf(k)
                 /\ ScoreOf(k) <= SumFunctionOnSet(MostGains(k), 0..0)
      <3>1. \A n \in At(0) : \E w \in Ways(0, n) : weight[n] = (w * Unit) \div (1 + 0)
        <4>1. Unit = (1 * Unit) \div (1 + 0)
          BY UnitAssumption
        <4>2. \A n \in At(0) : weight[n] = Unit /\ 1 \in Ways(0, n)
          BY <2>2 DEF Ways
        <4> QED
          BY <4>1, <4>2
      <3>2. DOMAIN weight = At(0)
        BY <2>2
      <3> HIDE DEF weight
      <3>3. LET more == IF k \in DOMAIN Contribution(weight) THEN Contribution(weight)[k] ELSE 0
            IN  more \in Nat /\ LeastGains(k)[0] <= more /\ more <= MostGains(k)[0]
        BY <2>4, <3>1, <3>2, Contributed
      <3>4. ASSUME NEW f, f[0] \in Nat PROVE SumFunctionOnSet(f, 0..0) = f[0]
        <4>1. 0..0 = {} \union {0} /\ IsFiniteSet({})
          BY FS_EmptySet
        <4>2. SumFunctionOnSet(f, {} \union {0}) = f[0] + SumFunctionOnSet(f, {})
          BY <3>4, <4>1, SumOfOneMore
        <4> QED
          BY <3>4, <4>1, <4>2, EmptySum
      <3>5. LeastGains(k)[0] \in Nat /\ MostGains(k)[0] \in Nat
        BY <2>4, GainsAreNumbers
      <3> QED
        BY <2>1, <3>3, <3>4, <3>5 DEF ScoreOf
    <2>6. Reaches(0)
      BY <1>1, <2>1, <2>2, <2>3, <2>5 DEF Reaches
    <2>7. Answers(0)
      BY <2>1 DEF Answers
    <2> QED
      BY <2>4, <2>6, <2>7 DEF ReachInv
  <1> QED
    BY <1>2, <1>3

(* What is discovered is an edge further. *)
LEMMA DiscoveredIsNext ==
  ASSUME NEW h \in Nat, Frontier = At(h), Reached = Within[h]
  PROVE  /\ Discovered = At(h + 1)
         /\ Within[h + 1] = Within[h] \union At(h + 1)
  <1>1. Within[h + 1] = Within[h] \union NextTo(Within[h])
    BY WithinMeaning
  <1>2. At(h + 1) = Within[h + 1] \ Within[h]
    <2>1. h + 1 # 0 /\ h + 1 - 1 = h
      OBVIOUS
    <2> QED
      BY <2>1 DEF At
  <1>3. ASSUME NEW n \in Discovered PROVE n \in At(h + 1)
    <2>1. n \notin Within[h]
      BY DEF Discovered
    <2>2. PICK f \in At(h) : n \in Neighbours(f)
      BY DEF Discovered
    <2>3. f \in Within[h]
      BY DEF At
    <2>4. n \in DOMAIN nodes /\ {n, f} \in DOMAIN edges
      BY <2>2 DEF Neighbours
    <2>5. {n, f} = {f, n}
      OBVIOUS
    <2>6. n \in NextTo(Within[h])
      BY <2>3, <2>4, <2>5 DEF NextTo
    <2> QED
      BY <1>1, <1>2, <2>1, <2>6
  <1>4. ASSUME NEW n \in At(h + 1) PROVE n \in Discovered
    <2>1. n \in NextTo(Within[h]) /\ n \notin Within[h]
      BY <1>1, <1>2
    <2>2. PICK m \in Within[h] : {m, n} \in DOMAIN edges /\ n \in DOMAIN nodes
      BY <2>1 DEF NextTo
    <2>3. m \in At(h)
      <3>1. SUFFICES ASSUME m \notin At(h) PROVE FALSE
        OBVIOUS
      <3>2. h # 0 /\ m \in Within[h - 1]
        BY <2>2, <3>1 DEF At
      <3> DEFINE e == h - 1
      <3>3. e \in Nat /\ h = e + 1 /\ m \in Within[e]
        BY <3>2
      <3> HIDE DEF e
      <3>4. n \in NextTo(Within[e])
        BY <2>2, <3>3 DEF NextTo
      <3>5. n \in Within[h]
        BY <3>3, <3>4, WithinMeaning
      <3> QED
        BY <2>1, <3>5
    <2>4. {n, m} = {m, n} /\ n # m
      BY <2>1
    <2>5. n \in Neighbours(m)
      BY <2>2, <2>4 DEF Neighbours
    <2> QED
      BY <2>1, <2>3, <2>5 DEF Discovered
  <1>5. Discovered = At(h + 1)
    BY <1>3, <1>4
  <1> QED
    BY <1>1, <1>2, <1>5

(* Distances, and what may be gained at each, depend on the graph and the  *)
(* query alone.                                                            *)
LEMMA DistancesKept ==
  ASSUME nodes' = nodes, edges' = edges, _name_to_id' = _name_to_id, query' = query
  PROVE  /\ Within' = Within
         /\ \A d \in Nat : At(d)' = At(d)
         /\ \A k : LeastGains(k)' = LeastGains(k) /\ MostGains(k)' = MostGains(k)
  <1>1. Within' = Within
    BY DEF Within, resolve_entry_entities, MentionsIn
  <1>2. ASSUME NEW d PROVE At(d)' = At(d)
    BY <1>1 DEF At
  <1>3. ASSUME NEW d, NEW n PROVE Ways(d, n)' = Ways(d, n)
    BY <1>2 DEF Ways
  <1>4. ASSUME NEW d, NEW k PROVE Mentioned(d, k)' = Mentioned(d, k)
    BY <1>2 DEF Mentioned
  <1>5. ASSUME NEW k PROVE LeastGains(k)' = LeastGains(k) /\ MostGains(k)' = MostGains(k)
    BY <1>3, <1>4 DEF LeastGains, MostGains
  <1> QED
    BY <1>1, <1>2, <1>5

(* A hop further, what has been gained is that of one distance more.       *)
LEMMA GainsSoFar ==
  ASSUME NEW h \in Nat, NEW f, \A d \in 0..(h + 1) : f[d] \in Nat
  PROVE  /\ SumFunctionOnSet(f, 0..h) \in Nat
         /\ SumFunctionOnSet(f, 0..(h + 1)) = f[h + 1] + SumFunctionOnSet(f, 0..h)
  <1> DEFINE S == 0..h
  <1>1. /\ S \union {h + 1} = 0..(h + 1) /\ h + 1 \notin S /\ h + 1 \in 0..(h + 1)
        /\ \A d \in S : d \in 0..(h + 1)
    OBVIOUS
  <1>2. IsFiniteSet(S)
    BY FS_Interval
  <1> HIDE DEF S
  <1>3. f[h + 1] \in Nat /\ \A d \in S : f[d] \in Nat
    BY <1>1
  <1>4. SumFunctionOnSet(f, S) \in Nat
    BY <1>2, <1>3, SumGrows
  <1>5. SumFunctionOnSet(f, S \union {h + 1}) = f[h + 1] + SumFunctionOnSet(f, S)
    BY <1>1, <1>2, <1>3, SumOfOneMore
  <1> QED
    BY <1>1, <1>4, <1>5 DEF S

(* What Expand adds lies between the bounds of the next distance.          *)
LEMMA ExpandGains ==
  ASSUME TextInv, GraphInv, SearchInv, Expand, NEW h \in 0..max_hops, Reaches(h), NEW k
  PROVE  /\ h + 1 \in 0..max_hops
         /\ DOMAIN scores' = UNION {DOMAIN nodes[n] : n \in Within[h + 1]}
         /\ \E more \in Nat : /\ ScoreOf(k)' = more + ScoreOf(k)
                              /\ LeastGains(k)[h + 1] <= more
                              /\ more <= MostGains(k)[h + 1]
  <1>1. /\ Len(visited) <= max_hops /\ Len(visited) = h + 1
        /\ Frontier = At(h) /\ Reached = Within[h]
        /\ DOMAIN scores = UNION {DOMAIN nodes[n] : n \in Within[h]}
    BY DEF Expand, Reaches
  <1> DEFINE d == h + 1
  <1>2. d \in 0..max_hops /\ d \in Nat /\ h \in Nat
    BY <1>1, ConfigAssumption
  <1>3. Discovered = At(d) /\ Within[d] = Within[h] \union At(d)
    BY <1>1, <1>2, DiscoveredIsNext
  <1>4. PICK rank \in [Frontier -> 1..Cardinality(Frontier)] :
          scores' = Added(Contribution([n \in Discovered |->
                            (discovery_weight(n, rank) * Unit) \div (1 + Len(visited))]),
                          scores)
    BY DEF Expand
  <1> DEFINE weight == [n \in At(d) |-> (discovery_weight(n, rank) * Unit) \div (1 + d)]
             gained == Contribution(weight)
  <1>5. scores' = Added(gained, scores)
    BY <1>1, <1>3, <1>4
  <1>6. IsFiniteSet(Frontier)
    BY <1>1, <1>2, AtIsOfGraph
  <1> HIDE DEF d
  <1>7. ASSUME NEW n \in At(d)
        PROVE  \E w \in Ways(d, n) : weight[n] = (w * Unit) \div (1 + d)
    <2>1. PICK f \in Frontier : /\ n \in Neighbours(f)
                                /\ discovery_weight(n, rank) = edges[{n, f}].weight
      BY <1>3, <1>6, FirstToFind
    <2>2. {n, f} \in DOMAIN edges /\ {n, f} = {f, n}
      BY <2>1 DEF Neighbours
    <2>3. d # 0 /\ d - 1 = h
      BY <1>2 DEF d
    <2>4. f \in At(d - 1)
      BY <1>1, <2>3
    <2>5. edges[{f, n}].weight \in Ways(d, n)
      BY <2>2, <2>3, <2>4 DEF Ways
    <2> QED
      BY <2>1, <2>2, <2>5
  <1>8. DOMAIN weight = At(d)
    OBVIOUS
  <1> HIDE DEF weight
  <1> DEFINE more == IF k \in DOMAIN gained THEN gained[k] ELSE 0
  <1>9. more \in Nat /\ LeastGains(k)[d] <= more /\ more <= MostGains(k)[d]
    <2>1. LET m == IF k \in DOMAIN Contribution(weight) THEN Contribution(weight)[k] ELSE 0
          IN  m \in Nat /\ LeastGains(k)[d] <= m /\ m <= MostGains(k)[d]
      BY <1>2, <1>7, <1>8, Contributed
    <2> QED
      BY <2>1
  <1>10. DOMAIN gained = UNION {DOMAIN nodes[n] : n \in At(d)}
    BY <1>8 DEF Contribution
  <1> HIDE DEF gained
  <1>11. DOMAIN scores' = DOMAIN gained \union DOMAIN scores
    BY <1>5 DEF Added
  <1>12. ScoreOf(k)' = more + ScoreOf(k)
    <2>1. k \in DOMAIN scores' =>
            scores'[k] = more + ScoreOf(k)
      BY <1>5, <1>11 DEF Added, ScoreOf
    <2>2. k \notin DOMAIN scores' => more = 0 /\ ScoreOf(k) = 0
      BY <1>11 DEF ScoreOf
    <2>3. ScoreOf(k)' = IF k \in DOMAIN scores' THEN scores'[k] ELSE 0
      BY DEF ScoreOf
    <2>4. 0 = 0 + 0
      OBVIOUS
    <2> HIDE DEF more
    <2> QED
      BY <2>1, <2>2, <2>3, <2>4
  <1>13. DOMAIN scores' = UNION {DOMAIN nodes[n] : n \in Within[d]}
    BY <1>1, <1>3, <1>10, <1>11
  <1> HIDE DEF more
  <1> QED
    BY <1>2, <1>9, <1>12, <1>13 DEF d

(* Going on, a search keeps the invariant. *)
LEMMA SearchGoesOn ==
  ASSUME TextInv, GraphInv, SearchInv, ReachInv, Expand
  PROVE  ReachInv'
  <1>1. /\ query # None /\ query' = query /\ nodes' = nodes /\ edges' = edges
        /\ _name_to_id' = _name_to_id /\ results' = results /\ results = None /\ visited' = Append(visited, Discovered)
        /\ chunks' = chunks
    BY DEF Expand, graph, textvars
  <1>2. visited # <<>> /\ visited \in Seq(SUBSET DOMAIN nodes)
    BY <1>1 DEF SearchInv
  <1>3. PICK h \in 0..max_hops : Reaches(h)
    BY <1>1, <1>2 DEF ReachInv, NoEntry
  <1>4. /\ Len(visited) = h + 1 /\ Frontier = At(h) /\ Reached = Within[h] /\ h \in Nat
    BY <1>3, ConfigAssumption DEF Reaches
  <1>5. /\ h + 1 \in 0..max_hops
        /\ DOMAIN scores' = UNION {DOMAIN nodes[n] : n \in Within[h + 1]}
    BY <1>3, ExpandGains
  <1>6. Discovered = At(h + 1) /\ Within[h + 1] = Within[h] \union At(h + 1)
    BY <1>4, DiscoveredIsNext
  <1>7. /\ Within' = Within /\ At(h + 1)' = At(h + 1)
        /\ \A k : LeastGains(k)' = LeastGains(k) /\ MostGains(k)' = MostGains(k)
    <2>1. h + 1 \in Nat
      BY <1>4
    <2> QED
      BY <1>1, <2>1, DistancesKept
  <1>8. /\ visited' # <<>> /\ Len(visited') = h + 2
        /\ Frontier' = Discovered /\ Reached' = Reached \union Discovered
    <2>1. Discovered \in SUBSET DOMAIN nodes
      BY DEF Discovered, Neighbours
    <2> DEFINE D == Discovered
               S == SUBSET DOMAIN nodes
    <2>2. D \in S /\ visited \in Seq(S) /\ visited' = Append(visited, D)
      BY <1>1, <1>2, <2>1
    <2> HIDE DEF D, S
    <2>3. /\ Len(visited') = Len(visited) + 1 /\ visited'[Len(visited) + 1] = D
          /\ DOMAIN visited' = 1..(Len(visited) + 1) /\ DOMAIN visited = 1..Len(visited)
          /\ \A i \in 1..Len(visited) : visited'[i] = visited[i]
          /\ Len(visited) \in Nat /\ visited' # <<>>
      BY <2>2
    <2>4. Frontier' = D
      BY <2>3 DEF Frontier
    <2>5. DOMAIN visited' = DOMAIN visited \union {Len(visited) + 1}
      BY <2>3
    <2>6. Range(visited') = Range(visited) \union {D}
      BY <2>3, <2>5 DEF Range
    <2>7. Reached' = Reached \union D
      BY <2>6 DEF Reached
    <2> QED
      BY <1>4, <2>3, <2>4, <2>7 DEF D
  <1>9. ASSUME NEW k \in DOMAIN chunks
        PROVE  /\ SumFunctionOnSet(LeastGains(k), 0..(h + 1)) <= ScoreOf(k)'
               /\ ScoreOf(k)' <= SumFunctionOnSet(MostGains(k), 0..(h + 1))
    <2>1. PICK more \in Nat : /\ ScoreOf(k)' = more + ScoreOf(k)
                              /\ LeastGains(k)[h + 1] <= more
                              /\ more <= MostGains(k)[h + 1]
      BY <1>3, ExpandGains
    <2>2. /\ SumFunctionOnSet(LeastGains(k), 0..h) <= ScoreOf(k)
          /\ ScoreOf(k) <= SumFunctionOnSet(MostGains(k), 0..h)
      BY <1>3 DEF Reaches
    <2>3. \A d \in 0..(h + 1) : LeastGains(k)[d] \in Nat /\ MostGains(k)[d] \in Nat
      <3>1. \A d \in 0..(h + 1) : d \in 0..max_hops
        BY <1>4, <1>5, ConfigAssumption
      <3> QED
        BY <3>1, GainsAreNumbers
    <2> DEFINE least == LeastGains(k)
               most == MostGains(k)
               low == SumFunctionOnSet(least, 0..h)
               high == SumFunctionOnSet(most, 0..h)
    <2>4. /\ low \in Nat /\ SumFunctionOnSet(least, 0..(h + 1)) = least[h + 1] + low
          /\ high \in Nat /\ SumFunctionOnSet(most, 0..(h + 1)) = most[h + 1] + high
      <3> HIDE DEF least, most
      <3>1. \A d \in 0..(h + 1) : least[d] \in Nat /\ most[d] \in Nat
        BY <2>3 DEF least, most
      <3> QED
        BY <1>4, <3>1, GainsSoFar
    <2>5. least[h + 1] \in Nat /\ most[h + 1] \in Nat
      <3>1. h + 1 \in 0..(h + 1)
        BY <1>4
      <3> QED
        BY <2>3, <3>1
    <2>6. ScoreOf(k) \in Nat
      BY DEF ScoreOf, SearchInv, Scored
    <2> HIDE DEF low, high
    <2>7. low <= ScoreOf(k) /\ ScoreOf(k) <= high
      BY <2>2 DEF low, high
    <2> HIDE DEF least, most
    <2>8. least[h + 1] <= more /\ more <= most[h + 1]
      BY <2>1 DEF least, most
    <2>9. least[h + 1] + low <= more + ScoreOf(k) /\ more + ScoreOf(k) <= most[h + 1] + high
      BY <2>4, <2>5, <2>6, <2>7, <2>8
    <2>10. /\ SumFunctionOnSet(least, 0..(h + 1)) <= ScoreOf(k)'
           /\ ScoreOf(k)' <= SumFunctionOnSet(most, 0..(h + 1))
      BY <2>1, <2>4, <2>9
    <2> QED
      BY <2>10 DEF least, most
  <1> DEFINE d == h + 1
  <1>10. d \in 0..max_hops /\ h + 2 = d + 1
    BY <1>4, <1>5
  <1>11. /\ Frontier' = At(d)' /\ Reached' = Within'[d]
         /\ DOMAIN scores' = UNION {DOMAIN nodes'[n] : n \in Within'[d]}
    BY <1>1, <1>4, <1>5, <1>6, <1>7, <1>8
  <1>12. \A k \in DOMAIN chunks' :
           /\ SumFunctionOnSet(LeastGains(k)', 0..d) <= ScoreOf(k)'
           /\ ScoreOf(k)' <= SumFunctionOnSet(MostGains(k)', 0..d)
    BY <1>1, <1>7, <1>9
  <1>13. visited' # <<>> /\ Len(visited') = d + 1
    BY <1>8, <1>10
  <1> HIDE DEF d
  <1>14. Reaches(d)'
    BY <1>11, <1>12, <1>13 DEF Reaches
  <1>15. Answers(d)'
    BY <1>1 DEF Answers
  <1> QED
    BY <1>10, <1>14, <1>15 DEF ReachInv

(* As long as the graph, the query and the search stay, so does what the   *)
(* search has reached.                                                     *)
LEMMA ReachKept ==
  ASSUME UNCHANGED <<nodes, edges, _name_to_id, query, visited, scores, chunks>>,
         NEW h \in 0..max_hops, Reaches(h)
  PROVE  Reaches(h)' /\ Discovered' = Discovered /\ rank_chunks' = rank_chunks
  <1>1. /\ nodes' = nodes /\ edges' = edges /\ _name_to_id' = _name_to_id
        /\ query' = query /\ visited' = visited /\ scores' = scores /\ chunks' = chunks /\ h \in Nat
    BY ConfigAssumption
  <1>2. /\ Within' = Within /\ At(h)' = At(h)
        /\ \A k : LeastGains(k)' = LeastGains(k) /\ MostGains(k)' = MostGains(k)
    BY <1>1, DistancesKept
  <1>3. /\ Frontier' = Frontier /\ Reached' = Reached
        /\ \A k : ScoreOf(k)' = ScoreOf(k)
    BY <1>1 DEF Frontier, Reached, ScoreOf
  <1>4. Discovered' = Discovered
    BY <1>1, <1>3 DEF Discovered, Neighbours
  <1>5. rank_chunks' = rank_chunks
    BY <1>1 DEF rank_chunks
  <1>6. Reaches(h)'
    BY <1>1, <1>2, <1>3 DEF Reaches
  <1> QED
    BY <1>4, <1>5, <1>6

(* Every step keeps it. *)
LEMMA ReachStep ==
  ASSUME TextInv, GraphInv, GraphInv', SearchInv, ReachInv, [Next]_vars
  PROVE  ReachInv'
  <1>1. ASSUME NEW words \in QueryTexts, StartQuery(words) PROVE ReachInv'
    <2>1. /\ query' = words /\ nodes' = nodes /\ _name_to_id' = _name_to_id
          /\ LET entries == resolve_entry_entities(words)
             IN  /\ visited' = IF entries = {} THEN <<>> ELSE <<entries>>
                 /\ scores' = Contribution([n \in entries |-> Unit])
                 /\ results' = IF entries = {} THEN <<>> ELSE None
      BY <1>1 DEF StartQuery, graph
    <2>2. Entries' = resolve_entry_entities(words)
      BY <2>1 DEF Entries, resolve_entry_entities, MentionsIn
    <2>3. Contribution([n \in Entries |-> Unit])' = Contribution([n \in Entries' |-> Unit])
      BY <2>1 DEF Contribution
    <2>4. query' # None
      BY <2>1, GivenAssumption
    <2>5. Started'
      BY <2>1, <2>2, <2>3, <2>4 DEF Started
    <2>6. GraphInv' /\ Started' => ReachInv'
      BY SearchBegins, PTL
    <2> QED
      BY <2>5, <2>6
  <1>2. CASE Expand
    BY <1>2, SearchGoesOn
  <1>3. CASE Answer
    <2>1. /\ UNCHANGED <<nodes, edges, _name_to_id, query, visited, scores, chunks>>
          /\ query # None /\ results = None /\ results' = rank_chunks
          /\ Len(visited) > max_hops \/ Discovered = {}
      BY <1>3 DEF Answer, graph, textvars
    <2>2. visited # <<>>
      BY <2>1 DEF SearchInv
    <2>3. PICK h \in 0..max_hops : Reaches(h)
      BY <2>1, <2>2 DEF ReachInv, NoEntry
    <2>4. Reaches(h)' /\ Discovered' = Discovered /\ rank_chunks' = rank_chunks
      BY <2>1, <2>3, ReachKept
    <2>5. h = max_hops \/ Discovered = {}
      <3>1. Len(visited) = h + 1
        BY <2>3 DEF Reaches
      <3> QED
        BY <2>1, <3>1, ConfigAssumption
    <2>6. Answers(h)'
      BY <2>1, <2>4, <2>5 DEF Answers
    <2> QED
      BY <2>4, <2>6 DEF ReachInv
  <1>4. CASE query' = None
    BY <1>4 DEF ReachInv
  <1>5. CASE UNCHANGED search /\ UNCHANGED <<graph, chunks>>
    <2>1. /\ UNCHANGED <<nodes, edges, _name_to_id, query, visited, scores, chunks>> /\ results' = results
      BY <1>5 DEF search, graph
    <2>2. CASE query = None
      BY <2>1, <2>2 DEF ReachInv
    <2>3. CASE NoEntry
      <3>1. Entries' = Entries
        BY <2>1 DEF Entries, resolve_entry_entities, MentionsIn
      <3> QED
        BY <2>1, <2>3, <3>1 DEF ReachInv, NoEntry
    <2>4. ASSUME NEW h \in 0..max_hops, Reaches(h), Answers(h) PROVE ReachInv'
      <3>1. Reaches(h)' /\ Discovered' = Discovered /\ rank_chunks' = rank_chunks
        BY <2>1, <2>4, ReachKept
      <3>2. Answers(h)'
        BY <2>1, <2>4, <3>1 DEF Answers
      <3> QED
        BY <3>1, <3>2 DEF ReachInv
    <2> QED
      BY <2>2, <2>3, <2>4 DEF ReachInv
  <1>6. \/ \E words \in QueryTexts : StartQuery(words)
        \/ Expand \/ Answer \/ query' = None
        \/ UNCHANGED search /\ UNCHANGED <<graph, chunks>>
    <2>1. CASE phase \notin {"built", "loaded"}
      <3>1. query = None
        BY <2>1 DEF SearchInv
      <3>2. \/ \E words \in QueryTexts : StartQuery(words)
            \/ query' = None \/ query' = query
        BY DEF Next, vars, Segment, Index, LoadGraph, Locate, Expand, Answer, Fuse, Finish, search
      <3> QED
        BY <3>1, <3>2
    <2>2. CASE phase \in {"built", "loaded"}
      <3>1. \/ \E words \in QueryTexts : StartQuery(words)
            \/ Expand \/ Answer \/ Fuse \/ Finish \/ UNCHANGED vars
        BY <2>2 DEF Next, Segment, DetectChapters, TakeWindow, TakeChunk, Index, LoadGraph, Locate
      <3> QED
        BY <3>1 DEF vars, Fuse, Finish, textvars
    <2> QED
      BY <2>1, <2>2
  <1> QED
    BY <1>1, <1>2, <1>3, <1>4, <1>5, <1>6

(* Where a search that answers has stopped, nothing is left to gain.       *)
LEMMA AllIsReached ==
  ASSUME GraphInv, NEW h \in 0..max_hops, Reaches(h), h = max_hops \/ Discovered = {}, NEW k
  PROVE  /\ Within[max_hops] = Within[h]
         /\ SumFunction(LeastGains(k)) = SumFunctionOnSet(LeastGains(k), 0..h)
         /\ SumFunction(MostGains(k)) = SumFunctionOnSet(MostGains(k), 0..h)
  <1>1. h \in Nat /\ max_hops \in Nat /\ h <= max_hops
    BY ConfigAssumption
  <1>2. DOMAIN LeastGains(k) = 0..max_hops /\ DOMAIN MostGains(k) = 0..max_hops
    BY DEF LeastGains, MostGains
  <1>3. CASE h = max_hops
    BY <1>2, <1>3 DEF SumFunction
  <1>4. CASE Discovered = {}
    <2>1. At(h + 1) = {} /\ Within[h + 1] = Within[h]
      <3>1. Discovered = At(h + 1) /\ Within[h + 1] = Within[h] \union At(h + 1)
        BY <1>1, DiscoveredIsNext DEF Reaches
      <3> QED
        BY <1>4, <3>1
    <2>2. \A d \in Nat : d >= h => Within[d] = Within[h]
      BY <1>1, <2>1, WithinStops
    <2>3. ASSUME NEW d \in 0..max_hops, d \notin 0..h
          PROVE  LeastGains(k)[d] = 0 /\ MostGains(k)[d] = 0
      <3>1. d \in Nat /\ d - 1 \in Nat /\ d >= h /\ d - 1 >= h /\ d # 0
        BY <1>1, <2>3
      <3>2. At(d) = {}
        BY <2>2, <3>1 DEF At
      <3>3. Mentioned(d, k) = {}
        BY <3>2 DEF Mentioned
      <3> QED
        BY <3>3, NothingToGain
    <2> DEFINE S == 0..h
               T == 0..max_hops
    <2>4. S \in SUBSET T /\ IsFiniteSet(T)
      BY <1>1, FS_Interval
    <2>5. \A d \in T : LeastGains(k)[d] \in Nat /\ MostGains(k)[d] \in Nat
      BY GainsAreNumbers
    <2>6. \A d \in T \ S : LeastGains(k)[d] = 0 /\ MostGains(k)[d] = 0
      BY <2>3
    <2> HIDE DEF S, T
    <2>7. /\ SumFunctionOnSet(LeastGains(k), T) = SumFunctionOnSet(LeastGains(k), S)
          /\ SumFunctionOnSet(MostGains(k), T) = SumFunctionOnSet(MostGains(k), S)
      BY <2>4, <2>5, <2>6, SumOfZeros
    <2>8. Within[max_hops] = Within[h]
      BY <1>1, <2>2
    <2> QED
      BY <1>2, <2>7, <2>8 DEF SumFunction, S, T
  <1> QED
    BY <1>3, <1>4

(* What the best of the scored chunks are. *)
LEMMA BestAreKept ==
  ASSUME Scored(scores), results = rank_chunks
  PROVE  /\ ToSet(results) \subseteq DOMAIN scores
         /\ Len(results) = Min({top_k, Cardinality(DOMAIN scores)})
         /\ \A k \in DOMAIN scores \ ToSet(results) : \A j \in ToSet(results) :
              scores[k] <= scores[j]
  <1> DEFINE best == BestFirst(scores, top_k)
             last == Min({top_k, Cardinality(DOMAIN scores)})
  <1>1. top_k \in Nat
    BY ConfigAssumption
  <1>2. /\ DOMAIN best = 1..last /\ last \in Nat
        /\ \A p \in DOMAIN best : best[p] \in DOMAIN scores
        /\ \A p \in DOMAIN best : \A j \in Before(scores, best[p]) :
             \E q \in 1..(p - 1) : best[q] = j
    BY <1>1, BestFirstMeaning
  <1>3. results = best /\ Ranking(best)
    BY BestIsRanking DEF rank_chunks
  <1> HIDE DEF best, last
  <1>4. Len(best) = last
    BY <1>2, <1>3 DEF Ranking
  <1>5. ToSet(best) \subseteq DOMAIN scores
    BY <1>2 DEF ToSet
  <1>6. ASSUME NEW k \in DOMAIN scores \ ToSet(best), NEW j \in ToSet(best)
        PROVE  scores[k] <= scores[j]
    <2>1. PICK p \in DOMAIN best : best[p] = j
      BY DEF ToSet
    <2>2. scores[k] \in Nat /\ scores[j] \in Nat
      BY <1>5 DEF Scored
    <2>3. SUFFICES ASSUME scores[k] > scores[j] PROVE FALSE
      BY <2>2
    <2>4. k \in Before(scores, best[p])
      BY <2>1, <2>3 DEF Before
    <2>5. PICK q \in 1..(p - 1) : best[q] = k
      BY <1>2, <2>4
    <2>6. q \in DOMAIN best
      BY <1>2
    <2> QED
      BY <2>5, <2>6 DEF ToSet
  <1> QED
    BY <1>3, <1>4, <1>5, <1>6 DEF last

(* An answer follows distances. *)
LEMMA AnswersFollow ==
  ASSUME TextInv, GraphInv, SearchInv, ReachInv
  PROVE  ScoresFollowDistance
  <1> SUFFICES ASSUME query # None, results # None PROVE ScoresFollowDistance
    BY DEF ScoresFollowDistance
  <1> DEFINE relevant == UNION {DOMAIN nodes[n] : n \in Within[max_hops]}
  <1>1. max_hops \in Nat
    BY ConfigAssumption
  <1>2. CASE NoEntry
    <2>1. Within[0] = {} /\ Within[0 + 1] = Within[0]
      <3>1. Within[0] = {} /\ Within[0 + 1] = Within[0] \union NextTo(Within[0])
        BY <1>2, WithinMeaning DEF NoEntry
      <3>2. NextTo({}) = {}
        BY DEF NextTo
      <3> QED
        BY <3>1, <3>2
    <2>2. Within[max_hops] = {}
      BY <1>1, <2>1, WithinStops
    <2>3. relevant = {}
      BY <2>2
    <2>4. ToSet(results) = {} /\ Len(results) = 0 /\ DOMAIN scores = {}
      BY <1>2 DEF NoEntry, ToSet
    <2>5. Min({top_k, Cardinality({})}) = 0
      <3>1. Cardinality({}) = 0 /\ top_k \in Nat
        BY FS_EmptySet, ConfigAssumption
      <3> QED
        BY <3>1, OfTwo
    <2> HIDE DEF relevant
    <2> QED
      BY <2>3, <2>4, <2>5 DEF ScoresFollowDistance, relevant
  <1>3. ASSUME NEW h \in 0..max_hops, Reaches(h), Answers(h) PROVE ScoresFollowDistance
    <2>1. results = rank_chunks /\ (h = max_hops \/ Discovered = {})
      BY <1>3 DEF Answers
    <2>2. Within[max_hops] = Within[h]
      BY <1>3, <2>1, AllIsReached
    <2>3. DOMAIN scores = relevant
      BY <1>3, <2>2 DEF Reaches
    <2>4. ASSUME NEW k \in relevant
          PROVE  scores[k] \in SumFunction(LeastGains(k))..SumFunction(MostGains(k))
      <3>1. k \in DOMAIN chunks
        <4>1. Within[max_hops] \subseteq DOMAIN nodes
          BY <1>1, WithinIsOfGraph
        <4> QED
          BY <4>1 DEF GraphInv
      <3>2. ScoreOf(k) = scores[k] /\ scores[k] \in Nat
        BY <2>3 DEF ScoreOf, SearchInv, Scored
      <3> DEFINE low == SumFunction(LeastGains(k))
                 high == SumFunction(MostGains(k))
      <3>3. /\ low = SumFunctionOnSet(LeastGains(k), 0..h)
            /\ high = SumFunctionOnSet(MostGains(k), 0..h)
        BY <1>3, <2>1, AllIsReached
      <3>4. low <= scores[k] /\ scores[k] <= high
        <4> HIDE DEF low, high
        <4> QED
          BY <1>3, <3>1, <3>2, <3>3 DEF Reaches
      <3>5. low \in Nat /\ high \in Nat
        <4> DEFINE S == 0..h
        <4>1. \A d \in S : LeastGains(k)[d] \in Nat /\ MostGains(k)[d] \in Nat
          <5>1. \A d \in S : d \in 0..max_hops
            BY <1>1
          <5> QED
            BY <5>1, GainsAreNumbers
        <4>2. IsFiniteSet(S)
          BY <1>1, FS_Interval
        <4> HIDE DEF S
        <4>3. SumFunctionOnSet(LeastGains(k), S) \in Nat /\ SumFunctionOnSet(MostGains(k), S) \in Nat
          BY <4>1, <4>2, SumGrows
        <4> HIDE DEF low, high
        <4> QED
          BY <3>3, <4>3 DEF S
      <3> HIDE DEF low, high
      <3>6. scores[k] \in low..high
        BY <3>2, <3>4, <3>5
      <3> QED
        BY <3>6 DEF low, high
    <2>5. /\ ToSet(results) \subseteq DOMAIN scores
          /\ Len(results) = Min({top_k, Cardinality(DOMAIN scores)})
          /\ \A k \in DOMAIN scores \ ToSet(results) : \A j \in ToSet(results) :
               scores[k] <= scores[j]
      BY <2>1, BestAreKept DEF SearchInv
    <2> HIDE DEF relevant
    <2> QED
      BY <2>3, <2>4, <2>5 DEF ScoresFollowDistance, relevant
  <1> QED
    BY <1>2, <1>3 DEF ReachInv

(* Every answer scores the chunks by their distance from the query.        *)
THEOREM ScoresAreByDistance == Spec => []ScoresFollowDistance
  <1>1. Init => ReachInv
    BY DEF Init, ReachInv
  <1>2. (TextInv /\ GraphInv /\ SearchInv) /\ (TextInv /\ GraphInv /\ SearchInv)' /\ ReachInv
          /\ [Next]_vars => ReachInv'
    BY ReachStep
  <1>3. TextInv /\ GraphInv /\ SearchInv /\ ReachInv => ScoresFollowDistance
    BY AnswersFollow
  <1> QED
    BY <1>1, <1>2, <1>3, RetrievalCorrect, PTL DEF Spec
=============================================================================
