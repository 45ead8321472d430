--------------------------- MODULE Metrics_proofs ---------------------------
(***************************************************************************)
(* Proofs about the metrics: over any finite sample, what the evaluator    *)
(* computes is what the metric is meant to measure.                        *)
(*                                                                         *)
(* A sum over a finite set is a fold that takes the elements in an order   *)
(* of its own.  The first sections show that it is a sum: facts about a    *)
(* fold hold because a smallest set on which one fails cannot exist.       *)
(***************************************************************************)
EXTENDS Metrics, FiniteSetTheorems, TLAPS

(* A non-empty collection of subsets of a finite set has a minimal one.    *)
LEMMA MinimalSubset ==
  ASSUME NEW S, IsFiniteSet(S), NEW T \in SUBSET SUBSET S, T # {}
  PROVE  \E x \in T : \A y \in T : y \subseteq x => y = x
<1>1. IsWellFoundedOn(StrictSubsetOrdering(S), SUBSET S)
  BY FS_StrictSubsetOrderingWellFounded, FS_FiniteSubsetsOfFinite
<1>2. PICK x \in T : \A y \in T : ~ (<<y, x>> \in StrictSubsetOrdering(S))
  BY <1>1, WFMin
<1>3. \A y \in T : y \subseteq x => y = x
  BY <1>2 DEF StrictSubsetOrdering
<1> QED
  BY <1>3

(* The element that a fold takes first, and the fold itself: the values of *)
(* f are added up or multiplied, one element after the other.              *)
First(s) == CHOOSE x \in s : TRUE
Rest(s) == s \ {First(s)}
Neutral(op) == IF op = "sum" THEN 0 ELSE 1
Combined(op, a, b) == IF op = "sum" THEN a + b ELSE a * b
Unfolded(op, f, S, h) ==
  [s \in SUBSET S |->
     IF s = {} THEN Neutral(op) ELSE Combined(op, f[First(s)], h[Rest(s)])]
IsFold(op, f, S, h) == h = Unfolded(op, f, S, h)
Fold(op, f, S) == CHOOSE h : IsFold(op, f, S, h)

LEMMA FirstInSet ==
  ASSUME NEW s, s # {}
  PROVE  First(s) \in s /\ Rest(s) \subseteq s /\ Rest(s) # s
BY DEF First, Rest

LEMMA FoldUnique ==
  ASSUME NEW op, NEW f, NEW S, NEW T, IsFiniteSet(S), T \subseteq S,
         NEW g, IsFold(op, f, S, g), NEW h, IsFold(op, f, T, h)
  PROVE  \A s \in SUBSET T : g[s] = h[s]
<1> DEFINE Bad == {s \in SUBSET T : g[s] # h[s]}
<1> SUFFICES ASSUME Bad # {}
             PROVE  FALSE
  OBVIOUS
<1>1. IsFiniteSet(T)
  BY FS_Subset
<1>2. PICK x \in Bad : \A y \in Bad : y \subseteq x => y = x
  <2>1. Bad \in SUBSET SUBSET T
    OBVIOUS
  <2> HIDE DEF Bad
  <2> QED
    BY <1>1, <2>1, MinimalSubset
<1>3. /\ g[x] = IF x = {} THEN Neutral(op)
                  ELSE Combined(op, f[First(x)], g[Rest(x)])
      /\ h[x] = IF x = {} THEN Neutral(op)
                  ELSE Combined(op, f[First(x)], h[Rest(x)])
  BY DEF IsFold, Unfolded
<1>4. x # {}
  BY <1>3
<1>5. Rest(x) \subseteq x /\ Rest(x) # x /\ Rest(x) \in SUBSET T
  BY <1>4, FirstInSet
<1>6. g[Rest(x)] = h[Rest(x)]
  BY <1>2, <1>5
<1> QED
  BY <1>3, <1>6

LEMMA FoldExists ==
  ASSUME NEW op, NEW f, NEW S, IsFiniteSet(S)
  PROVE  IsFold(op, f, S, Fold(op, f, S))
<1> DEFINE Bad == {s \in SUBSET S : ~ IsFold(op, f, s, Fold(op, f, s))}
<1> SUFFICES ASSUME Bad # {}
             PROVE  FALSE
  OBVIOUS
<1>1. PICK x \in Bad : \A y \in Bad : y \subseteq x => y = x
  <2>1. Bad \in SUBSET SUBSET S
    OBVIOUS
  <2> HIDE DEF Bad
  <2> QED
    BY <2>1, MinimalSubset
<1>2. \A y \in SUBSET x : y # x => IsFold(op, f, y, Fold(op, f, y))
  BY <1>1
<1>3. IsFiniteSet(x)
  BY FS_Subset
<1> DEFINE h == [s \in SUBSET x |->
                   IF s = {} THEN Neutral(op)
                   ELSE Combined(op, f[First(s)], Fold(op, f, Rest(s))[Rest(s)])]
<1>4. ASSUME NEW s \in SUBSET x, s # x
      PROVE  h[s] = Fold(op, f, s)[s]
  <2>1. Fold(op, f, s)[s] = IF s = {} THEN Neutral(op)
            ELSE Combined(op, f[First(s)], Fold(op, f, s)[Rest(s)])
    BY <1>2, <1>4 DEF IsFold, Unfolded
  <2>2. CASE s = {}
    BY <2>1, <2>2
  <2>3. CASE s # {}
    <3>1. Rest(s) \subseteq s /\ Rest(s) # x /\ Rest(s) \in SUBSET x
      BY <2>3, <1>4, FirstInSet
    <3>2. Fold(op, f, s)[Rest(s)] = Fold(op, f, Rest(s))[Rest(s)]
      <4>1. IsFiniteSet(s)
        BY <1>3, FS_Subset
      <4>2. IsFold(op, f, s, Fold(op, f, s)) /\ IsFold(op, f, Rest(s), Fold(op, f, Rest(s)))
        BY <1>2, <1>4, <3>1
      <4> QED
        BY <3>1, <4>1, <4>2, FoldUnique
    <3> QED
      BY <2>1, <2>3, <3>2
  <2> QED
    BY <2>2, <2>3
<1>5. IsFold(op, f, x, h)
  <2>1. ASSUME NEW s \in SUBSET x, s # {}
        PROVE  h[Rest(s)] = Fold(op, f, Rest(s))[Rest(s)]
    <3>1. Rest(s) \in SUBSET x /\ Rest(s) # x
      BY <2>1, FirstInSet
    <3> QED
      BY <1>4, <3>1
  <2>2. h = [s \in SUBSET x |->
               IF s = {} THEN Neutral(op) ELSE Combined(op, f[First(s)], h[Rest(s)])]
    BY <2>1
  <2> QED
    BY <2>2 DEF IsFold, Unfolded
<1>6. IsFold(op, f, x, Fold(op, f, x))
  BY <1>5 DEF Fold
<1> QED
  BY <1>1, <1>6

LEMMA FoldUnfold ==
  ASSUME NEW op, NEW f, NEW S, IsFiniteSet(S)
  PROVE  Fold(op, f, S)[S]
           = IF S = {} THEN Neutral(op)
             ELSE Combined(op, f[First(S)], Fold(op, f, Rest(S))[Rest(S)])
<1>1. Fold(op, f, S)[S]
        = IF S = {} THEN Neutral(op)
          ELSE Combined(op, f[First(S)], Fold(op, f, S)[Rest(S)])
  <2> DEFINE h == Fold(op, f, S)
  <2>1. h = Unfolded(op, f, S, h)
    BY FoldExists DEF IsFold
  <2> HIDE DEF h
  <2>2. h[S] = IF S = {} THEN Neutral(op)
               ELSE Combined(op, f[First(S)], h[Rest(S)])
    BY <2>1 DEF Unfolded
  <2> QED
    BY <2>2 DEF h
<1>2. CASE S = {}
  BY <1>1, <1>2
<1>3. CASE S # {}
  <2>1. Rest(S) \subseteq S /\ IsFiniteSet(Rest(S))
    BY <1>3, FirstInSet, FS_Subset
  <2>2. Fold(op, f, S)[Rest(S)] = Fold(op, f, Rest(S))[Rest(S)]
    BY <2>1, FoldExists, FoldUnique
  <2> QED
    BY <1>1, <1>3, <2>2
<1> QED
  BY <1>2, <1>3

(* What is folded of integers is an integer.                               *)
LEMMA FoldType ==
  ASSUME NEW op, NEW f, NEW S, IsFiniteSet(S), \A x \in S : f[x] \in Int
  PROVE  Fold(op, f, S)[S] \in Int
<1> DEFINE Bad == {s \in SUBSET S : Fold(op, f, s)[s] \notin Int}
<1> SUFFICES ASSUME Bad # {}
             PROVE  FALSE
  OBVIOUS
<1>1. PICK s \in Bad : \A y \in Bad : y \subseteq s => y = s
  <2>1. Bad \in SUBSET SUBSET S
    OBVIOUS
  <2> HIDE DEF Bad
  <2> QED
    BY <2>1, MinimalSubset
<1>2. Fold(op, f, s)[s]
        = IF s = {} THEN Neutral(op)
          ELSE Combined(op, f[First(s)], Fold(op, f, Rest(s))[Rest(s)])
  BY FoldUnfold, FS_Subset
<1>3. s # {} => Fold(op, f, Rest(s))[Rest(s)] \in Int /\ f[First(s)] \in Int
  BY <1>1, FirstInSet
<1>4. \A a, b \in Int : Combined(op, a, b) \in Int
  BY DEF Combined
<1>5. Neutral(op) \in Int
  BY DEF Neutral
<1> QED
  BY <1>1, <1>2, <1>3, <1>4, <1>5

-----------------------------------------------------------------------------
(* The sum of the values of f on S, which may be unfolded.                 *)
Sigma(f, S) == SumFunctionOnSet(f, S)

LEMMA SumIsFold ==
  ASSUME NEW f, NEW S
  PROVE  Sigma(f, S) = Fold("sum", f, S)[S]
BY DEF Sigma, SumFunctionOnSet, FoldFunctionOnSet, MapThenFoldSet, Fold,
   IsFold, Unfolded, Neutral, Combined, Rest, First

LEMMA SumUnfold ==
  ASSUME NEW f, NEW S, IsFiniteSet(S)
  PROVE  Sigma(f, S)
           = IF S = {} THEN 0 ELSE f[First(S)] + Sigma(f, Rest(S))
BY SumIsFold, FoldUnfold DEF Neutral, Combined

LEMMA SumType ==
  ASSUME NEW S, IsFiniteSet(S), NEW f, \A x \in S : f[x] \in Int
  PROVE  Sigma(f, S) \in Int
BY SumIsFold, FoldType

(* So may a product of numbers.                                            *)
LEMMA ProductIsFold ==
  ASSUME NEW S, IsFiniteSet(S), NEW f, \A x \in S : f[x] = x
  PROVE  ProductSet(S) = Fold("product", f, S)[S]
<1> DEFINE Values(h) == [s \in SUBSET S |->
                           IF s = {} THEN 1 ELSE First(s) * h[Rest(s)]]
           product == CHOOSE h : h = Values(h)
<1>1. ProductSet(S) = product[S]
  BY DEF ProductSet, FoldSet, MapThenFoldSet, Rest, First
<1>2. \A h : Values(h) = Unfolded("product", f, S, h)
  <2> TAKE h
  <2>1. \A s \in SUBSET S : s # {} => f[First(s)] = First(s)
    BY FirstInSet
  <2> QED
    BY <2>1 DEF Unfolded, Neutral, Combined
<1>3. product = Values(product)
  <2> DEFINE g == Fold("product", f, S)
  <2>1. g = Unfolded("product", f, S, g)
    BY FoldExists DEF IsFold
  <2> HIDE DEF g
  <2>2. g = Values(g)
    BY <1>2, <2>1
  <2> HIDE DEF Values
  <2> QED
    BY <2>2
<1> HIDE DEF product, Values
<1>4. IsFold("product", f, S, product)
  BY <1>2, <1>3 DEF IsFold
<1>5. product[S] = Fold("product", f, S)[S]
  BY <1>4, FoldExists, FoldUnique
<1> QED
  BY <1>1, <1>5

LEMMA ProductUnfold ==
  ASSUME NEW S, IsFiniteSet(S)
  PROVE  ProductSet(S)
           = IF S = {} THEN 1 ELSE First(S) * ProductSet(Rest(S))
<1> DEFINE f == [x \in S |-> x]
<1>1. \A x \in S : f[x] = x
  OBVIOUS
<1> HIDE DEF f
<1>2. ProductSet(S) = Fold("product", f, S)[S]
  BY <1>1, ProductIsFold
<1>3. S # {} => ProductSet(Rest(S)) = Fold("product", f, Rest(S))[Rest(S)]
  BY <1>1, FirstInSet, FS_Subset, ProductIsFold
<1>4. S # {} => f[First(S)] = First(S)
  BY <1>1, FirstInSet
<1> QED
  BY <1>2, <1>3, <1>4, FoldUnfold DEF Neutral, Combined

LEMMA ProductType ==
  ASSUME NEW S, IsFiniteSet(S), \A x \in S : x \in Int
  PROVE  ProductSet(S) \in Int
<1> DEFINE f == [x \in S |-> x]
<1>1. \A x \in S : f[x] = x /\ f[x] \in Int
  OBVIOUS
<1> HIDE DEF f
<1>2. ProductSet(S) = Fold("product", f, S)[S]
  BY <1>1, ProductIsFold
<1>3. Fold("product", f, S)[S] \in Int
  BY <1>1, FoldType
<1> QED
  BY <1>2, <1>3

LEMMA ProductPositive ==
  ASSUME NEW S, IsFiniteSet(S), \A x \in S : x \in Int /\ x > 0
  PROVE  ProductSet(S) > 0
<1> DEFINE Bad == {s \in SUBSET S : ~(ProductSet(s) > 0)}
<1> SUFFICES ASSUME Bad # {}
             PROVE  FALSE
  OBVIOUS
<1>1. PICK s \in Bad : \A y \in Bad : y \subseteq s => y = s
  <2>1. Bad \in SUBSET SUBSET S
    OBVIOUS
  <2> HIDE DEF Bad
  <2> QED
    BY <2>1, MinimalSubset
<1>2. ProductSet(s) = IF s = {} THEN 1 ELSE First(s) * ProductSet(Rest(s))
  BY ProductUnfold, FS_Subset
<1>3. s # {} => /\ First(s) \in Int /\ First(s) > 0
                /\ ProductSet(Rest(s)) \in Int /\ ProductSet(Rest(s)) > 0
  <2> SUFFICES ASSUME s # {}
               PROVE  /\ First(s) \in Int /\ First(s) > 0
                      /\ ProductSet(Rest(s)) \in Int /\ ProductSet(Rest(s)) > 0
    OBVIOUS
  <2>1. First(s) \in S /\ Rest(s) \subseteq s /\ Rest(s) # s
    BY FirstInSet
  <2>2. ProductSet(Rest(s)) > 0
    BY <1>1, <2>1
  <2>3. ProductSet(Rest(s)) \in Int
    BY <2>1, ProductType, FS_Subset
  <2> QED
    BY <2>1, <2>2, <2>3
<1>4. \A a, b \in Int : a > 0 /\ b > 0 => a * b > 0
  OBVIOUS
<1> QED
  BY <1>1, <1>2, <1>3, <1>4

LEMMA ProductRemove ==
  ASSUME NEW S, IsFiniteSet(S), \A x \in S : x \in Int, NEW e \in S
  PROVE  ProductSet(S) = e * ProductSet(S \ {e})
<1> DEFINE Bad == {s \in SUBSET S :
                     \E x \in s : ProductSet(s) # x * ProductSet(s \ {x})}
<1> SUFFICES ASSUME Bad # {}
             PROVE  FALSE
  OBVIOUS
<1>1. PICK s \in Bad : \A y \in Bad : y \subseteq s => y = s
  <2>1. Bad \in SUBSET SUBSET S
    OBVIOUS
  <2> HIDE DEF Bad
  <2> QED
    BY <2>1, MinimalSubset
<1>2. PICK x \in s : ProductSet(s) # x * ProductSet(s \ {x})
  OBVIOUS
<1> DEFINE y == First(s)
           r == Rest(s)
<1>3. ProductSet(s) = y * ProductSet(r) /\ y \in s
  BY ProductUnfold, FirstInSet, FS_Subset
<1>4. x # y
  BY <1>2, <1>3 DEF Rest
<1>5. ProductSet(r) = x * ProductSet(r \ {x})
  <2>1. r \in SUBSET S /\ r \subseteq s /\ r # s /\ x \in r
    BY <1>4, FirstInSet DEF Rest
  <2> QED
    BY <1>1, <2>1
<1>6. ProductSet(s \ {x}) = y * ProductSet((s \ {x}) \ {y})
  <2>1. s \ {x} \in SUBSET S /\ s \ {x} \subseteq s /\ s \ {x} # s /\ y \in s \ {x}
    BY <1>3, <1>4
  <2> QED
    BY <1>1, <2>1
<1>7. (s \ {x}) \ {y} = r \ {x}
  BY DEF Rest
<1>8. x \in Int /\ y \in Int /\ ProductSet(r \ {x}) \in Int
  <2>1. r \ {x} \subseteq S
    BY DEF Rest
  <2>2. \A z \in r \ {x} : z \in Int
    BY <2>1
  <2> HIDE DEF y, r
  <2>3. ProductSet(r \ {x}) \in Int
    BY <2>1, <2>2, ProductType, FS_Subset
  <2> QED
    BY <1>3, <2>3
<1> HIDE DEF y, r
<1>9. \A a, b, c \in Int : a * (b * c) = b * (a * c)
  OBVIOUS
<1> QED
  BY <1>2, <1>3, <1>5, <1>6, <1>7, <1>8, <1>9

(* Any element may be taken out first.                                     *)
LEMMA SumRemove ==
  ASSUME NEW S, IsFiniteSet(S), NEW f, \A x \in S : f[x] \in Int, NEW e \in S
  PROVE  Sigma(f, S) = f[e] + Sigma(f, S \ {e})
<1> DEFINE Bad == {s \in SUBSET S :
                     \E x \in s : Sigma(f, s) # f[x] + Sigma(f, s \ {x})}
<1> SUFFICES ASSUME Bad # {}
             PROVE  FALSE
  OBVIOUS
<1>1. PICK s \in Bad : \A y \in Bad : y \subseteq s => y = s
  <2>1. Bad \in SUBSET SUBSET S
    OBVIOUS
  <2> HIDE DEF Bad
  <2> QED
    BY <2>1, MinimalSubset
<1>2. PICK x \in s : Sigma(f, s) # f[x] + Sigma(f, s \ {x})
  OBVIOUS
<1> DEFINE y == First(s)
           r == Rest(s)
<1>3. Sigma(f, s) = f[y] + Sigma(f, r) /\ y \in s
  BY SumUnfold, FirstInSet, FS_Subset
<1>4. x # y
  BY <1>2, <1>3 DEF Rest
<1>5. Sigma(f, r) = f[x] + Sigma(f, r \ {x})
  <2>1. r \in SUBSET S /\ r \subseteq s /\ r # s /\ x \in r
    BY <1>4, FirstInSet DEF Rest
  <2> QED
    BY <1>1, <2>1
<1>6. Sigma(f, s \ {x}) = f[y] + Sigma(f, (s \ {x}) \ {y})
  <2>1. s \ {x} \in SUBSET S /\ s \ {x} \subseteq s /\ s \ {x} # s /\ y \in s \ {x}
    BY <1>3, <1>4
  <2> QED
    BY <1>1, <2>1
<1>7. (s \ {x}) \ {y} = r \ {x}
  BY DEF Rest
<1>8. f[x] \in Int /\ f[y] \in Int /\ Sigma(f, r \ {x}) \in Int
  BY <1>3, SumType, FS_Subset DEF Rest
<1> HIDE DEF y, r
<1> QED
  BY <1>2, <1>3, <1>5, <1>6, <1>7, <1>8

(* Sums of functions that agree.                                           *)
LEMMA SumCongruent ==
  ASSUME NEW S, IsFiniteSet(S), NEW f, NEW g, \A x \in S : f[x] = g[x]
  PROVE  Sigma(f, S) = Sigma(g, S)
<1> DEFINE Bad == {s \in SUBSET S : Sigma(f, s) # Sigma(g, s)}
<1> SUFFICES ASSUME Bad # {}
             PROVE  FALSE
  OBVIOUS
<1>1. PICK s \in Bad : \A y \in Bad : y \subseteq s => y = s
  <2>1. Bad \in SUBSET SUBSET S
    OBVIOUS
  <2> HIDE DEF Bad
  <2> QED
    BY <2>1, MinimalSubset
<1>2. /\ Sigma(f, s) = IF s = {} THEN 0 ELSE f[First(s)] + Sigma(f, Rest(s))
      /\ Sigma(g, s) = IF s = {} THEN 0 ELSE g[First(s)] + Sigma(g, Rest(s))
  BY SumUnfold, FS_Subset
<1>3. s # {} => Sigma(f, Rest(s)) = Sigma(g, Rest(s))
                  /\ f[First(s)] = g[First(s)]
  BY <1>1, FirstInSet
<1> QED
  BY <1>2, <1>3

LEMMA SumEmpty == \A f : Sigma(f, {}) = 0
BY SumUnfold, FS_EmptySet

(* A multiple of one function and another one.                             *)
LEMMA SumLinear ==
  ASSUME NEW S, IsFiniteSet(S), NEW f, \A x \in S : f[x] \in Int,
         NEW g, \A x \in S : g[x] \in Int, NEW a \in Int,
         NEW h, \A x \in S : h[x] = a * f[x] + g[x]
  PROVE  Sigma(h, S) = a * Sigma(f, S) + Sigma(g, S)
<1> DEFINE Bad == {s \in SUBSET S : Sigma(h, s) # a * Sigma(f, s) + Sigma(g, s)}
<1> SUFFICES ASSUME Bad # {}
             PROVE  FALSE
  OBVIOUS
<1>1. PICK s \in Bad : \A y \in Bad : y \subseteq s => y = s
  <2>1. Bad \in SUBSET SUBSET S
    OBVIOUS
  <2> HIDE DEF Bad
  <2> QED
    BY <2>1, MinimalSubset
<1>2. /\ Sigma(f, s) = IF s = {} THEN 0 ELSE f[First(s)] + Sigma(f, Rest(s))
      /\ Sigma(g, s) = IF s = {} THEN 0 ELSE g[First(s)] + Sigma(g, Rest(s))
      /\ Sigma(h, s) = IF s = {} THEN 0 ELSE h[First(s)] + Sigma(h, Rest(s))
  BY SumUnfold, FS_Subset
<1>3. s # {}
  BY <1>1, <1>2
<1> DEFINE x == First(s)
           r == Rest(s)
<1>4. Sigma(h, r) = a * Sigma(f, r) + Sigma(g, r)
  BY <1>1, <1>3, FirstInSet
<1>5. x \in S /\ r \subseteq S
  BY <1>1, <1>3, FirstInSet
<1>6. /\ f[x] \in Int /\ g[x] \in Int /\ h[x] = a * f[x] + g[x]
      /\ Sigma(f, r) \in Int /\ Sigma(g, r) \in Int
  BY <1>5, SumType, FS_Subset
<1>7. \A u, v \in Int : a * (u + v) = a * u + a * v /\ a * u \in Int
  OBVIOUS
<1> HIDE DEF x, r
<1>8. a * (f[x] + Sigma(f, r)) = a * f[x] + a * Sigma(f, r)
      /\ a * f[x] \in Int /\ a * Sigma(f, r) \in Int
  BY <1>6, <1>7
<1>9. /\ Sigma(f, s) = f[x] + Sigma(f, r)
      /\ Sigma(g, s) = g[x] + Sigma(g, r)
      /\ Sigma(h, s) = h[x] + Sigma(h, r)
  BY <1>2, <1>3 DEF x, r
<1> QED
  BY <1>1, <1>4, <1>6, <1>8, <1>9

LEMMA SumConstant ==
  ASSUME NEW S, IsFiniteSet(S), NEW c \in Int,
         NEW f, \A x \in S : f[x] = c
  PROVE  Sigma(f, S) = c * Cardinality(S)
<1> DEFINE Bad == {s \in SUBSET S : Sigma(f, s) # c * Cardinality(s)}
<1> SUFFICES ASSUME Bad # {}
             PROVE  FALSE
  OBVIOUS
<1>1. PICK s \in Bad : \A y \in Bad : y \subseteq s => y = s
  <2>1. Bad \in SUBSET SUBSET S
    OBVIOUS
  <2> HIDE DEF Bad
  <2> QED
    BY <2>1, MinimalSubset
<1>2. Sigma(f, s) = IF s = {} THEN 0 ELSE f[First(s)] + Sigma(f, Rest(s))
  BY SumUnfold, FS_Subset
<1>3. s # {}
  <2>1. Cardinality({}) = 0 /\ c * 0 = 0
    BY FS_EmptySet
  <2> QED
    BY <1>1, <1>2, <2>1
<1> DEFINE r == Rest(s)
<1>4. Sigma(f, r) = c * Cardinality(r) /\ f[First(s)] = c
  BY <1>1, <1>3, FirstInSet
<1>5. IsFiniteSet(s) /\ First(s) \in s
  BY <1>3, FirstInSet, FS_Subset
<1>6. Cardinality(r) = Cardinality(s) - 1 /\ Cardinality(s) \in Nat
  BY <1>5, FS_RemoveElement, FS_CardinalityType DEF Rest
<1>7. \A n \in Nat : c + c * (n - 1) = c * n
  OBVIOUS
<1> HIDE DEF r
<1>8. Sigma(f, s) = c + Sigma(f, r)
  BY <1>2, <1>3, <1>4 DEF r
<1>9. c + c * (Cardinality(s) - 1) = c * Cardinality(s)
  BY <1>6, <1>7
<1> QED
  BY <1>1, <1>4, <1>6, <1>8, <1>9

(* A sum of what is not negative is not; it is 0 only if all of it is.     *)
LEMMA SumPositive ==
  ASSUME NEW S, IsFiniteSet(S), NEW f, \A x \in S : f[x] \in Int /\ f[x] >= 0
  PROVE  /\ Sigma(f, S) >= 0
         /\ Sigma(f, S) = 0 <=> \A x \in S : f[x] = 0
<1>1. \A s \in SUBSET S : Sigma(f, s) >= 0
  <2> DEFINE Bad == {s \in SUBSET S : ~ (Sigma(f, s) >= 0)}
  <2> SUFFICES ASSUME Bad # {}
               PROVE  FALSE
    OBVIOUS
  <2>1. PICK s \in Bad : \A y \in Bad : y \subseteq s => y = s
    <3>1. Bad \in SUBSET SUBSET S
      OBVIOUS
    <3> HIDE DEF Bad
    <3> QED
      BY <3>1, MinimalSubset
  <2>2. Sigma(f, s) = IF s = {} THEN 0 ELSE f[First(s)] + Sigma(f, Rest(s))
    BY SumUnfold, FS_Subset
  <2>3. s # {} => Sigma(f, Rest(s)) >= 0 /\ f[First(s)] >= 0
    BY <2>1, FirstInSet
  <2>4. s # {} => Sigma(f, Rest(s)) \in Int /\ f[First(s)] \in Int
    <3>1. s # {} => First(s) \in S /\ Rest(s) \subseteq S
      BY <2>1, FirstInSet
    <3> QED
      BY <3>1, SumType, FS_Subset
  <2> QED
    BY <2>1, <2>2, <2>3, <2>4
<1>2. ASSUME NEW e \in S, f[e] # 0
      PROVE  Sigma(f, S) > 0
  <2>1. Sigma(f, S) = f[e] + Sigma(f, S \ {e})
    BY SumRemove
  <2>2. Sigma(f, S \ {e}) >= 0 /\ Sigma(f, S \ {e}) \in Int
    BY <1>1, SumType, FS_Subset
  <2> QED
    BY <1>2, <2>1, <2>2
<1>3. ASSUME \A x \in S : f[x] = 0
      PROVE  Sigma(f, S) = 0
  <2>1. Sigma(f, S) = 0 * Cardinality(S) /\ Cardinality(S) \in Nat
    BY <1>3, SumConstant, FS_CardinalityType
  <2> QED
    BY <2>1
<1>4. Sigma(f, S) \in Int
  BY SumType
<1> QED
  BY <1>1, <1>2, <1>3, <1>4

(* Rows counted by what they score: the rows of A at each value.           *)
LEMMA SumGrouped ==
  ASSUME NEW V, IsFiniteSet(V), NEW g, \A v \in V : g[v] \in Int,
         NEW A, IsFiniteSet(A), NEW t, \A k \in A : t[k] \in V,
         NEW h, \A k \in A : h[k] = g[t[k]]
  PROVE  Sigma([v \in V |-> g[v] * Cardinality({k \in A : t[k] = v})], V)
           = Sigma(h, A)
<1> DEFINE At(s, v) == {k \in s : t[k] = v}
           Weighted(s) == [v \in V |-> g[v] * Cardinality(At(s, v))]
           Bad == {s \in SUBSET A : Sigma(Weighted(s), V) # Sigma(h, s)}
<1> SUFFICES ASSUME Bad # {}
             PROVE  FALSE
  OBVIOUS
<1>1. PICK s \in Bad : \A y \in Bad : y \subseteq s => y = s
  <2>1. Bad \in SUBSET SUBSET A
    OBVIOUS
  <2> HIDE DEF Bad
  <2> QED
    BY <2>1, MinimalSubset
<1>2. /\ IsFiniteSet(s)
      /\ \A v : \A u \in SUBSET s :
           IsFiniteSet(At(u, v)) /\ Cardinality(At(u, v)) \in Nat
  <2>1. IsFiniteSet(s)
    BY FS_Subset
  <2>2. \A v : \A u \in SUBSET s : At(u, v) \in SUBSET s
    OBVIOUS
  <2> HIDE DEF At
  <2> QED
    BY <2>1, <2>2, FS_Subset, FS_CardinalityType
<1>3. s # {}
  <2> SUFFICES ASSUME s = {}
               PROVE  Sigma(Weighted(s), V) = Sigma(h, s)
    OBVIOUS
  <2>1. \A v \in V : Weighted(s)[v] = 0
    <3>1. \A v \in V : Cardinality(At(s, v)) = 0
      BY FS_EmptySet
    <3> QED
      BY <3>1
  <2> DEFINE w == Weighted(s)
  <2>2. \A v \in V : w[v] = 0
    BY <2>1
  <2> HIDE DEF w
  <2>3. Sigma(w, V) = 0 * Cardinality(V) /\ Cardinality(V) \in Nat
    BY <2>2, SumConstant, FS_CardinalityType
  <2> QED
    BY <2>3, SumEmpty DEF w
<1> DEFINE e == First(s)
           r == Rest(s)
           value == [v \in V |-> IF v = t[e] THEN g[v] ELSE 0]
<1>4. /\ e \in s /\ r \in SUBSET s /\ r = s \ {e} /\ e \in A /\ t[e] \in V
      /\ Sigma(Weighted(r), V) = Sigma(h, r)
      /\ Sigma(h, s) = h[e] + Sigma(h, r)
  BY <1>1, <1>2, <1>3, FirstInSet, SumUnfold DEF Rest
<1> HIDE DEF e, r
<1>5. \A v \in V : /\ Cardinality(At(s, v)) \in Nat /\ Cardinality(At(r, v)) \in Nat
                   /\ Cardinality(At(s, v))
                        = Cardinality(At(r, v)) + (IF v = t[e] THEN 1 ELSE 0)
  <2> TAKE v \in V
  <2>1. At(s, v) = IF v = t[e] THEN At(r, v) \cup {e} ELSE At(r, v)
    BY <1>4
  <2>2. e \notin At(r, v)
    BY <1>4
  <2> DEFINE a == At(r, v)
             b == At(s, v)
  <2>a. IsFiniteSet(a) /\ Cardinality(a) \in Nat /\ Cardinality(b) \in Nat
    <3> HIDE DEF At
    <3> QED
      BY <1>2, <1>4
  <2>3. /\ IsFiniteSet(a) /\ Cardinality(a) \in Nat /\ Cardinality(b) \in Nat
        /\ b = (IF v = t[e] THEN a \cup {e} ELSE a) /\ e \notin a
    <3> HIDE DEF At
    <3> QED
      BY <2>a, <2>1, <2>2
  <2> HIDE DEF a, b
  <2>4. Cardinality(a \cup {e}) = Cardinality(a) + 1
    BY <2>3, FS_AddElement
  <2>5. Cardinality(b) = Cardinality(a) + (IF v = t[e] THEN 1 ELSE 0)
    BY <2>3, <2>4
  <2> QED
    BY <2>3, <2>5 DEF a, b
<1>6. \A v \in V : /\ Weighted(r)[v] \in Int /\ value[v] \in Int
                   /\ Weighted(s)[v] = 1 * Weighted(r)[v] + value[v]
  <2> TAKE v \in V
  <2> DEFINE m == Cardinality(At(r, v))
             n == Cardinality(At(s, v))
  <2>1. m \in Nat /\ n \in Nat /\ n = m + (IF v = t[e] THEN 1 ELSE 0) /\ g[v] \in Int
    BY <1>5
  <2>a. \A c \in Int, i \in Nat : c * i \in Int /\ c * (i + 1) = c * i + c
    OBVIOUS
  <2> HIDE DEF m, n
  <2>b. g[v] * m \in Int /\ g[v] * (m + 1) = g[v] * m + g[v]
    BY <2>1, <2>a
  <2>2. /\ g[v] * m \in Int
        /\ g[v] * n = g[v] * m + (IF v = t[e] THEN g[v] ELSE 0)
    BY <2>1, <2>b
  <2> QED
    BY <2>1, <2>2 DEF m, n
<1> DEFINE w == Weighted(s)
           u == Weighted(r)
<1>7. Sigma(w, V) = 1 * Sigma(u, V) + Sigma(value, V) /\ Sigma(u, V) \in Int
      /\ Sigma(w, V) # Sigma(h, s) /\ Sigma(u, V) = Sigma(h, r)
  <2>1. \A v \in V : u[v] \in Int /\ value[v] \in Int /\ w[v] = 1 * u[v] + value[v]
    BY <1>6
  <2>2. Sigma(w, V) # Sigma(h, s) /\ Sigma(u, V) = Sigma(h, r)
    BY <1>1, <1>4
  <2> HIDE DEF w, u, value
  <2> QED
    BY <2>1, <2>2, SumLinear, SumType
<1>8. Sigma(value, V) = g[t[e]]
  <2>1. /\ \A v \in V : value[v] \in Int
        /\ \A v \in V \ {t[e]} : value[v] = 0
        /\ value[t[e]] = g[t[e]] /\ g[t[e]] \in Int
    BY <1>4, <1>6
  <2> HIDE DEF value
  <2>2. Sigma(value, V) = value[t[e]] + Sigma(value, V \ {t[e]})
    BY <1>4, <2>1, SumRemove
  <2>3. IsFiniteSet(V \ {t[e]}) /\ Cardinality(V \ {t[e]}) \in Nat
    BY FS_Subset, FS_CardinalityType
  <2>4. Sigma(value, V \ {t[e]}) = 0 * Cardinality(V \ {t[e]})
    BY <2>1, <2>3, SumConstant
  <2> QED
    BY <2>1, <2>2, <2>3, <2>4
<1> HIDE DEF w, u, value
<1>9. h[e] = g[t[e]] /\ g[t[e]] \in Int
  BY <1>4
<1> QED
  BY <1>4, <1>7, <1>8, <1>9

(* The pairs of a relation, row by row.                                    *)
Related(R, k, C) == {l \in C : <<k, l>> \in R}

LEMMA SumRows ==
  ASSUME NEW A, IsFiniteSet(A), NEW C, IsFiniteSet(C), NEW R \in SUBSET (A \X C),
         NEW h, \A k \in A : h[k] = Cardinality(Related(R, k, C))
  PROVE  Sigma(h, A) = Cardinality(R)
<1> DEFINE Rows(s) == {q \in R : q[1] \in s}
           Bad == {s \in SUBSET A : Sigma(h, s) # Cardinality(Rows(s))}
<1>0. Rows(A) = R
  OBVIOUS
<1> SUFFICES ASSUME Bad # {}
             PROVE  FALSE
  BY <1>0
<1>1. PICK s \in Bad : \A y \in Bad : y \subseteq s => y = s
  <2>1. Bad \in SUBSET SUBSET A
    OBVIOUS
  <2> HIDE DEF Bad
  <2> QED
    BY <2>1, MinimalSubset
<1>2. IsFiniteSet(R) /\ IsFiniteSet(s)
  BY FS_Product, FS_Subset
<1>3. s # {}
  <2> SUFFICES ASSUME s = {}
               PROVE  Sigma(h, s) = Cardinality(Rows(s))
    OBVIOUS
  <2>1. Rows(s) = {}
    OBVIOUS
  <2> QED
    BY <2>1, SumEmpty, FS_EmptySet
<1> DEFINE e == First(s)
           r == Rest(s)
<1>4. /\ e \in s /\ r \in SUBSET s /\ r = s \ {e} /\ e \in A
      /\ Sigma(h, r) = Cardinality(Rows(r))
      /\ Sigma(h, s) = h[e] + Sigma(h, r)
  BY <1>1, <1>2, <1>3, FirstInSet, SumUnfold DEF Rest
<1> HIDE DEF e, r
<1> DEFINE row == {l \in C : <<e, l>> \in R}
           pairs == {q \in R : q[1] = e}
<1>5. IsFiniteSet(pairs) /\ Cardinality(pairs) = Cardinality(row)
  <2> DEFINE pair == [l \in row |-> <<e, l>>]
  <2>1. pair \in Bijection(row, pairs)
    <3>1. \A l \in row : pair[l] \in pairs
      OBVIOUS
    <3>2. \A l, m \in row : pair[l] = pair[m] => l = m
      OBVIOUS
    <3>3. \A q \in pairs : q[2] \in row /\ pair[q[2]] = q
      BY <1>4
    <3>4. pair \in [row -> pairs]
      BY <3>1
    <3>5. \A q \in pairs : \E l \in row : pair[l] = q
      BY <3>3
    <3> HIDE DEF pair, pairs, row
    <3>6. pair \in Injection(row, pairs)
      BY <3>2, <3>4 DEF Injection, IsInjective
    <3>7. pair \in Surjection(row, pairs)
      BY <3>4, <3>5 DEF Surjection
    <3> QED
      BY <3>6, <3>7 DEF Bijection
  <2>2. IsFiniteSet(row)
    BY FS_Subset
  <2> HIDE DEF row, pairs, pair
  <2> QED
    BY <2>1, <2>2, FS_Bijection DEF ExistsBijection
<1>6. /\ Rows(s) = Rows(r) \cup pairs /\ Rows(r) \cap pairs = {}
      /\ IsFiniteSet(Rows(r))
  BY <1>2, <1>4, FS_Subset
<1>7. h[e] = Cardinality(row)
  BY <1>4 DEF Related
<1> DEFINE a == Rows(r)
<1> HIDE DEF pairs, row, a
<1>8. Cardinality(a \cup pairs) = Cardinality(a) + Cardinality(pairs) - Cardinality(a \cap pairs)
      /\ Cardinality(a \cap pairs) = 0
  BY <1>5, <1>6, FS_Union, FS_EmptySet DEF a
<1>9. Cardinality(a) \in Nat /\ Cardinality(pairs) \in Nat
  BY <1>5, <1>6, FS_CardinalityType DEF a
<1>10. Sigma(h, s) # Cardinality(a \cup pairs) /\ Sigma(h, r) = Cardinality(a)
  BY <1>1, <1>4, <1>6 DEF a
<1> QED
  BY <1>4, <1>5, <1>7, <1>8, <1>9, <1>10

(* Sums over two parts.                                                    *)
LEMMA SumUnion ==
  ASSUME NEW S, IsFiniteSet(S), NEW T, IsFiniteSet(T), S \cap T = {},
         NEW f, \A x \in S \cup T : f[x] \in Int
  PROVE  Sigma(f, S \cup T) = Sigma(f, S) + Sigma(f, T)
<1> DEFINE Bad == {s \in SUBSET S : Sigma(f, s \cup T) # Sigma(f, s) + Sigma(f, T)}
<1> SUFFICES ASSUME Bad # {}
             PROVE  FALSE
  OBVIOUS
<1>1. PICK s \in Bad : \A y \in Bad : y \subseteq s => y = s
  <2>1. Bad \in SUBSET SUBSET S
    OBVIOUS
  <2> HIDE DEF Bad
  <2> QED
    BY <2>1, MinimalSubset
<1>2. IsFiniteSet(s) /\ IsFiniteSet(s \cup T) /\ Sigma(f, T) \in Int
  BY FS_Subset, FS_Union, SumType
<1>3. s # {}
  <2> SUFFICES ASSUME s = {}
               PROVE  Sigma(f, s \cup T) = Sigma(f, s) + Sigma(f, T)
    OBVIOUS
  <2>1. s \cup T = T
    OBVIOUS
  <2> QED
    BY <1>2, <2>1, SumEmpty
<1> DEFINE e == First(s)
           r == Rest(s)
<1>4. /\ e \in s /\ r \in SUBSET s /\ r = s \ {e}
      /\ Sigma(f, r \cup T) = Sigma(f, r) + Sigma(f, T)
      /\ Sigma(f, s) = f[e] + Sigma(f, r)
  BY <1>1, <1>2, <1>3, FirstInSet, SumUnfold DEF Rest
<1> HIDE DEF e, r
<1>5. Sigma(f, s \cup T) = f[e] + Sigma(f, (s \cup T) \ {e})
  BY <1>2, <1>4, SumRemove
<1>6. (s \cup T) \ {e} = r \cup T
  BY <1>4
<1>7. f[e] \in Int /\ Sigma(f, r) \in Int
  BY <1>4, SumType, FS_Subset
<1>8. Sigma(f, s \cup T) # Sigma(f, s) + Sigma(f, T)
  BY <1>1
<1>9. Sigma(f, s \cup T) = f[e] + Sigma(f, r \cup T)
  BY <1>5, <1>6
<1> HIDE DEF Bad
<1> QED
  BY <1>2, <1>4, <1>7, <1>8, <1>9

(* A sum over pairs with one first component.                              *)
RowOf(m, e, C) == [l \in C |-> m[<<e, l>>]]

LEMMA SumRow ==
  ASSUME NEW C, IsFiniteSet(C), NEW e, NEW m,
         \A l \in C : m[<<e, l>>] \in Int
  PROVE  Sigma(m, {e} \X C) = Sigma(RowOf(m, e, C), C)
<1> DEFINE h == RowOf(m, e, C)
<1>h. \A l \in C : h[l] = m[<<e, l>>]
  BY DEF RowOf
<1> HIDE DEF h
<1> SUFFICES Sigma(m, {e} \X C) = Sigma(h, C)
  BY DEF h
<1> DEFINE Bad == {s \in SUBSET C : Sigma(m, {e} \X s) # Sigma(h, s)}
<1> SUFFICES ASSUME Bad # {}
             PROVE  FALSE
  OBVIOUS
<1>1. PICK s \in Bad : \A y \in Bad : y \subseteq s => y = s
  <2>1. Bad \in SUBSET SUBSET C
    OBVIOUS
  <2> HIDE DEF Bad
  <2> QED
    BY <2>1, MinimalSubset
<1>2. IsFiniteSet(s) /\ IsFiniteSet({e} \X s)
  BY FS_Subset, FS_Singleton, FS_Product
<1>3. s # {}
  <2> SUFFICES ASSUME s = {}
               PROVE  Sigma(m, {e} \X s) = Sigma(h, s)
    OBVIOUS
  <2>1. {e} \X s = {}
    OBVIOUS
  <2> QED
    BY <2>1, SumEmpty
<1> DEFINE y == First(s)
           r == Rest(s)
<1>4. /\ y \in s /\ y \in C /\ r \in SUBSET s /\ r = s \ {y}
      /\ Sigma(m, {e} \X r) = Sigma(h, r)
      /\ Sigma(h, s) = h[y] + Sigma(h, r)
  BY <1>1, <1>2, <1>3, FirstInSet, SumUnfold DEF Rest
<1>a. h[y] = m[<<e, y>>]
  BY <1>4, <1>h
<1> HIDE DEF y, r
<1>5. Sigma(m, {e} \X s) = m[<<e, y>>] + Sigma(m, ({e} \X s) \ {<<e, y>>})
  <2>1. \A q \in {e} \X s : m[q] \in Int
    <3>1. \A q \in {e} \X s : q = <<e, q[2]>> /\ q[2] \in C
      OBVIOUS
    <3> QED
      BY <3>1
  <2>2. <<e, y>> \in {e} \X s
    BY <1>4
  <2> DEFINE Q == {e} \X s
  <2> HIDE DEF Q
  <2> QED
    BY <1>2, <2>1, <2>2, SumRemove DEF Q
<1>6. ({e} \X s) \ {<<e, y>>} = {e} \X r
  BY <1>4
<1>7. Sigma(m, {e} \X s) = m[<<e, y>>] + Sigma(m, {e} \X r)
  BY <1>5, <1>6
<1> QED
  BY <1>1, <1>4, <1>7, <1>a

(* A sum over pairs, row by row.                                           *)
LEMMA SumPairs ==
  ASSUME NEW A, IsFiniteSet(A), NEW C, IsFiniteSet(C), NEW m,
         \A k \in A, l \in C : m[<<k, l>>] \in Int,
         NEW h, \A k \in A : h[k] = Sigma(RowOf(m, k, C), C)
  PROVE  Sigma(m, A \X C) = Sigma(h, A)
<1> DEFINE Bad == {s \in SUBSET A : Sigma(m, s \X C) # Sigma(h, s)}
<1> SUFFICES ASSUME Bad # {}
             PROVE  FALSE
  OBVIOUS
<1>1. PICK s \in Bad : \A y \in Bad : y \subseteq s => y = s
  <2>1. Bad \in SUBSET SUBSET A
    OBVIOUS
  <2> HIDE DEF Bad
  <2> QED
    BY <2>1, MinimalSubset
<1>2. IsFiniteSet(s)
  BY FS_Subset
<1>3. s # {}
  <2> SUFFICES ASSUME s = {}
               PROVE  Sigma(m, s \X C) = Sigma(h, s)
    OBVIOUS
  <2>1. s \X C = {}
    OBVIOUS
  <2> QED
    BY <2>1, SumEmpty
<1> DEFINE e == First(s)
           r == Rest(s)
<1>4. /\ e \in s /\ e \in A /\ r \in SUBSET s /\ r = s \ {e}
      /\ Sigma(m, r \X C) = Sigma(h, r)
      /\ Sigma(h, s) = h[e] + Sigma(h, r)
  BY <1>1, <1>2, <1>3, FirstInSet, SumUnfold DEF Rest
<1> HIDE DEF e, r
<1>5. /\ s \X C = (r \X C) \cup ({e} \X C)
      /\ (r \X C) \cap ({e} \X C) = {}
  BY <1>4
<1>6. IsFiniteSet(r \X C) /\ IsFiniteSet({e} \X C)
  BY <1>2, <1>4, FS_Subset, FS_Singleton, FS_Product
<1>7. \A q \in s \X C : m[q] \in Int
  <2>1. \A q \in s \X C : q = <<q[1], q[2]>> /\ q[1] \in A /\ q[2] \in C
    OBVIOUS
  <2> QED
    BY <2>1
<1> DEFINE X == r \X C
           Y == {e} \X C
<1>8. Sigma(m, s \X C) = Sigma(m, X) + Sigma(m, Y)
  <2>1. \A q \in X \cup Y : m[q] \in Int
    BY <1>5, <1>7
  <2>2. IsFiniteSet(X) /\ IsFiniteSet(Y) /\ X \cap Y = {} /\ s \X C = X \cup Y
    BY <1>5, <1>6
  <2> HIDE DEF X, Y
  <2> QED
    BY <2>1, <2>2, SumUnion
<1>9. Sigma(m, Y) = h[e]
  <2>1. \A l \in C : m[<<e, l>>] \in Int
    BY <1>4
  <2>2. h[e] = Sigma(RowOf(m, e, C), C)
    BY <1>4
  <2>3. Sigma(m, {e} \X C) = Sigma(RowOf(m, e, C), C)
    BY <2>1, SumRow
  <2> QED
    BY <2>2, <2>3
<1>10. h[e] \in Int /\ Sigma(m, X) \in Int
  <2>1. Sigma(m, X) \in Int /\ Sigma(m, Y) \in Int
    BY <1>5, <1>6, <1>7, SumType
  <2> QED
    BY <1>9, <2>1
<1>11. Sigma(m, X) = Sigma(h, r) /\ Sigma(m, s \X C) # Sigma(h, s)
  BY <1>1, <1>4
<1> HIDE DEF X, Y
<1> QED
  BY <1>4, <1>8, <1>9, <1>10, <1>11

-----------------------------------------------------------------------------
(* The spread of values.                                                   *)

IntValued(f) == IsFiniteSet(DOMAIN f) /\ \A k \in DOMAIN f : f[k] \in Int

(* The sum of the squared distances between all pairs is twice the spread. *)
LEMMA DistancesSum ==
  ASSUME NEW f, IntValued(f)
  PROVE  /\ Spread(f) \in Int
         /\ SumFunction([q \in (DOMAIN f) \X (DOMAIN f) |->
                           Square(f[q[1]] - f[q[2]])]) = 2 * Spread(f)
<1> DEFINE D == DOMAIN f
           m == [q \in D \X D |-> Square(f[q[1]] - f[q[2]])]
           sq == [k \in D |-> Square(f[k])]
           n == Cardinality(D)
           F == Sigma(f, D)
           Q == Sigma(sq, D)
<1>0. /\ IsFiniteSet(D) /\ \A k \in D : f[k] \in Int
      /\ \A k \in D : sq[k] = f[k] * f[k]
      /\ DOMAIN sq = D /\ DOMAIN m = D \X D
      /\ \A k, l \in D : m[<<k, l>>] = (f[k] - f[l]) * (f[k] - f[l])
  BY DEF IntValued, Square
<1>m. \A a, b \in Int : a * b \in Int
  OBVIOUS
<1>1. n \in Nat
  BY <1>0, FS_CardinalityType
<1>2. /\ Spread(f) = n * Q - F * F
      /\ SumFunction(m) = Sigma(m, D \X D)
  BY <1>0 DEF Spread, SumFunction, Sigma, Square
<1> HIDE DEF m, sq, D
<1>3. \A k \in D : sq[k] \in Int
  BY <1>0, <1>m
<1>4. F \in Int /\ Q \in Int
  BY <1>0, <1>3, SumType
<1> HIDE DEF n, F, Q
<1> DEFINE constant(k) == [l \in D |-> sq[k]]
           rest(k) == [l \in D |-> sq[l] + sq[k]]
           h == [k \in D |-> Sigma(RowOf(m, k, D), D)]
<1>5. ASSUME NEW k \in D
      PROVE  h[k] = (-2 * f[k]) * F + (Q + sq[k] * n)
  <2> DEFINE c == constant(k)
             r == rest(k)
             row == RowOf(m, k, D)
             a == -2 * f[k]
  <2>1. /\ a \in Int /\ sq[k] \in Int
        /\ \A l \in D : c[l] = sq[k] /\ c[l] \in Int
        /\ \A l \in D : r[l] = 1 * sq[l] + c[l] /\ r[l] \in Int
    BY <1>0, <1>3
  <2>2. \A l \in D : row[l] = a * f[l] + r[l]
    <3> TAKE l \in D
    <3>1. row[l] = (f[k] - f[l]) * (f[k] - f[l])
      BY <1>0 DEF RowOf
    <3>2. r[l] = f[l] * f[l] + f[k] * f[k]
      BY <1>0
    <3>3. f[k] \in Int /\ f[l] \in Int
      BY <1>0
    <3>4. \A x, y \in Int : (x - y) * (x - y) = (-2 * x) * y + (y * y + x * x)
      OBVIOUS
    <3> QED
      BY <3>1, <3>2, <3>3, <3>4
  <2>3. h[k] = Sigma(row, D)
    OBVIOUS
  <2> HIDE DEF c, r, row, a, h
  <2>4. Sigma(c, D) = sq[k] * n
    BY <1>0, <2>1, SumConstant DEF n
  <2>5. Sigma(r, D) = 1 * Q + Sigma(c, D)
    BY <1>0, <1>3, <2>1, SumLinear DEF Q
  <2>6. Sigma(row, D) = a * F + Sigma(r, D)
    BY <1>0, <2>1, <2>2, SumLinear DEF F
  <2> QED
    BY <1>4, <2>3, <2>4, <2>5, <2>6 DEF a
<1> DEFINE z == [k \in D |-> (-2 * F) * f[k] + Q]
           q == [k \in D |-> Q]
<1>6. /\ \A k \in D : q[k] = Q /\ q[k] \in Int
      /\ \A k \in D : z[k] = (-2 * F) * f[k] + q[k] /\ z[k] \in Int
      /\ -2 * F \in Int
  BY <1>0, <1>4, <1>m
<1>7. \A k \in D : h[k] = n * sq[k] + z[k]
  <2> TAKE k \in D
  <2>1. /\ h[k] = (-2 * f[k]) * F + (Q + sq[k] * n)
        /\ z[k] = (-2 * F) * f[k] + Q
        /\ f[k] \in Int /\ sq[k] \in Int
    BY <1>0, <1>3, <1>5, <1>6
  <2>2. \A x, y, w, v \in Int : (-2 * x) * y = (-2 * y) * x /\ w * v = v * w
    OBVIOUS
  <2>3. (-2 * f[k]) * F = (-2 * F) * f[k] /\ sq[k] * n = n * sq[k]
    BY <1>1, <1>4, <2>1, <2>2
  <2>4. (-2 * F) * f[k] \in Int /\ n * sq[k] \in Int
    BY <1>1, <1>6, <2>1, <1>m
  <2> HIDE DEF h, z
  <2> QED
    BY <1>4, <2>1, <2>3, <2>4
<1>8. Sigma(m, D \X D) = Sigma(h, D)
  <2>1. \A k, l \in D : m[<<k, l>>] \in Int
    <3> TAKE k, l \in D
    <3>1. f[k] - f[l] \in Int
      BY <1>0
    <3> QED
      BY <1>0, <1>m, <3>1
  <2>2. \A k \in D : h[k] = Sigma(RowOf(m, k, D), D)
    OBVIOUS
  <2> HIDE DEF h
  <2> QED
    BY <1>0, <2>1, <2>2, SumPairs
<1> HIDE DEF h, z, q
<1>9. Sigma(h, D) = n * Q + Sigma(z, D)
  BY <1>0, <1>1, <1>3, <1>6, <1>7, SumLinear DEF Q
<1>10. Sigma(z, D) = (-2 * F) * F + Sigma(q, D)
  BY <1>0, <1>6, SumLinear DEF F
<1>11. Sigma(q, D) = Q * n
  BY <1>0, <1>4, <1>6, SumConstant DEF n
<1>12. \A x, y, w \in Int : y * x + ((-2 * w) * w + x * y) = 2 * (y * x - w * w)
                         /\ y * x - w * w \in Int
  OBVIOUS
<1>13. n * Q + ((-2 * F) * F + Q * n) = 2 * (n * Q - F * F) /\ n * Q - F * F \in Int
  BY <1>1, <1>4, <1>12
<1> QED
  BY <1>2, <1>8, <1>9, <1>10, <1>11, <1>13 DEF D, m

(* The variance that the evaluator divides by, from two sums, is that of   *)
(* the distances between the values.                                       *)
THEOREM SpreadIsPairwise ==
  ASSUME NEW f, IntValued(f)
  PROVE  Spread(f) = PairwiseSpread(f)
<1>1. \A n \in Int : (2 * n) \div 2 = n
  OBVIOUS
<1> QED
  BY <1>1, DistancesSum DEF PairwiseSpread

(* It is positive exactly when two values differ.                          *)
LEMMA SpreadPositive ==
  ASSUME NEW f, IntValued(f)
  PROVE  Spread(f) > 0 <=> \E k, l \in DOMAIN f : f[k] # f[l]
<1> DEFINE D == DOMAIN f
           m == [q \in D \X D |-> Square(f[q[1]] - f[q[2]])]
<1>1. \A x, y \in Int : /\ (x - y) * (x - y) \in Int /\ (x - y) * (x - y) >= 0
                        /\ (x - y) * (x - y) = 0 <=> x = y
  OBVIOUS
<1>2. \A q \in D \X D : /\ q[1] \in D /\ q[2] \in D
                        /\ m[q] \in Int /\ m[q] >= 0
                        /\ m[q] = 0 <=> f[q[1]] = f[q[2]]
  BY <1>1 DEF IntValued, Square
<1>3. SumFunction(m) = Sigma(m, D \X D) /\ IsFiniteSet(D \X D)
  BY FS_Product DEF SumFunction, Sigma, IntValued
<1>4. SumFunction(m) = 2 * Spread(f) /\ Spread(f) \in Int
  BY DistancesSum
<1>5. (\A q \in D \X D : f[q[1]] = f[q[2]]) <=> \A k, l \in D : f[k] = f[l]
  <2>1. ASSUME \A q \in D \X D : f[q[1]] = f[q[2]], NEW k \in D, NEW l \in D
        PROVE  f[k] = f[l]
    <3>1. <<k, l>> \in D \X D
      OBVIOUS
    <3> QED
      BY <2>1, <3>1
  <2> QED
    BY <1>2, <2>1
<1> DEFINE P == D \X D
<1>6. /\ \A q \in P : m[q] \in Int /\ m[q] >= 0
      /\ (\A q \in P : m[q] = 0) <=> \A q \in P : f[q[1]] = f[q[2]]
  BY <1>2
<1> HIDE DEF m, P
<1>7. Sigma(m, P) >= 0 /\ (Sigma(m, P) = 0 <=> \A q \in P : m[q] = 0)
  BY <1>3, <1>6, SumPositive DEF P
<1>8. Sigma(m, P) = 2 * Spread(f)
  BY <1>3, <1>4 DEF P
<1>9. (\A q \in P : f[q[1]] = f[q[2]]) <=> \A k, l \in D : f[k] = f[l]
  BY <1>5 DEF P
<1> QED
  BY <1>4, <1>6, <1>7, <1>8, <1>9

-----------------------------------------------------------------------------
(* Samples.                                                                *)

IsSample(s) ==
  /\ IsFiniteSet(DOMAIN s)
  /\ \A k \in DOMAIN s : s[k].label \in Int /\ s[k].score \in Int

LEMMA LabelsValued ==
  ASSUME NEW s, IsSample(s)
  PROVE  IntValued(LabelsIn(s)) /\ DOMAIN LabelsIn(s) = DOMAIN s
BY DEF IsSample, IntValued, LabelsIn

(* A sample can be scored exactly when two of its labels differ.           *)
LEMMA ScaleNeedsTwoLabels ==
  ASSUME NEW s, IsSample(s)
  PROVE  RegressionScale(s)
           <=> \E k, l \in DOMAIN s : s[k].label # s[l].label
<1>1. RegressionScale(s) <=> \E k, l \in DOMAIN s : LabelsIn(s)[k] # LabelsIn(s)[l]
  BY LabelsValued, SpreadPositive DEF RegressionScale
<1> QED
  BY <1>1 DEF LabelsIn

(* R2 is the share of the pairwise spread of the labels that is explained. *)
THEOREM ExplainedShare ==
  ASSUME NEW s, IsSample(s), NEW train
  PROVE  Equal(RegressionMetrics(s, train).r2, Explained(s))
<1>1. Spread(LabelsIn(s)) = PairwiseSpread(LabelsIn(s))
  BY LabelsValued, SpreadIsPairwise
<1>2. RegressionMetrics(s, train).r2 = Explained(s)
  BY <1>1 DEF RegressionMetrics, Explained
<1> QED
  BY <1>2 DEF Equal

(* F1 is the harmonic mean of precision and recall, and 0 without a hit.   *)
THEOREM F1IsHarmonicMean ==
  ASSUME NEW s, IsSample(s)
  PROVE  Equal(F1(s), HarmonicMean(s))
<1> DEFINE P == Positive(s)
           Q == Predicted(s)
           h == Cardinality(P \cap Q)
           a == Cardinality(Q \ P)
           b == Cardinality(P \ Q)
<1>1. IsFiniteSet(P) /\ IsFiniteSet(Q)
  BY FS_Subset DEF IsSample, Positive, Predicted
<1> HIDE DEF P, Q
<1>2. /\ h \in Nat /\ a \in Nat /\ b \in Nat
      /\ Cardinality(P) = b + h /\ Cardinality(Q) = a + h
  <2>1. Cardinality(P \ Q) = Cardinality(P) - Cardinality(P \cap Q)
        /\ Cardinality(Q \ P) = Cardinality(Q) - Cardinality(Q \cap P)
    BY <1>1, FS_Difference
  <2>2. Q \cap P = P \cap Q
    OBVIOUS
  <2>3. /\ Cardinality(P) \in Nat /\ Cardinality(Q) \in Nat
        /\ IsFiniteSet(P \ Q) /\ IsFiniteSet(Q \ P) /\ IsFiniteSet(P \cap Q)
    BY <1>1, FS_Subset, FS_CardinalityType
  <2>4. h \in Nat /\ a \in Nat /\ b \in Nat
    BY <2>3, FS_CardinalityType
  <2>5. b = Cardinality(P) - h /\ a = Cardinality(Q) - h
    BY <2>1, <2>2
  <2> HIDE DEF h, a, b
  <2> QED
    BY <2>3, <2>4, <2>5
<1> HIDE DEF h, a, b
<1>3. /\ F1(s) = IF 2 * h + a + b = 0 THEN Ratio(0, 1)
                ELSE Ratio(2 * h, 2 * h + a + b)
      /\ HarmonicMean(s) = IF h = 0 THEN Ratio(0, 1)
                          ELSE Ratio(2 * h, Cardinality(P) + Cardinality(Q))
  BY DEF F1, HarmonicMean, P, Q, h, a, b
<1>4. Cardinality(P) + Cardinality(Q) = 2 * h + a + b
  BY <1>2
<1>5. CASE h = 0
  <2>1. \A n \in Int : 0 * n = 0
    OBVIOUS
  <2> QED
    BY <1>2, <1>3, <1>5, <2>1 DEF Equal, Ratio
<1>6. CASE h # 0
  <2>1. F1(s) = HarmonicMean(s)
    BY <1>2, <1>3, <1>4, <1>6
  <2> QED
    BY <2>1 DEF Equal
<1> QED
  BY <1>5, <1>6

-----------------------------------------------------------------------------
(* Average precision.                                                      *)

(* The scores of a sample, and the scores of its positive rows.            *)
LEMMA ScoresFinite ==
  ASSUME NEW s, IsSample(s)
  PROVE  /\ IsFiniteSet(Scored(s)) /\ IsFiniteSet(Positive(s))
         /\ Positive(s) \subseteq DOMAIN s
         /\ \A k \in DOMAIN s : s[k].score \in Scored(s)
<1> DEFINE D == DOMAIN s
           t == [k \in D |-> s[k].score]
           V == Scored(s)
<1>1. t \in [D -> V] /\ \A v \in V : \E k \in D : t[k] = v
  BY DEF Scored
<1>2. IsFiniteSet(D)
  BY DEF IsSample
<1>3. Positive(s) \subseteq D /\ \A k \in D : s[k].score \in V
  BY DEF Positive, Scored
<1> HIDE DEF t, V, D
<1>4. t \in Surjection(D, V)
  BY <1>1 DEF Surjection
<1>5. IsFiniteSet(V)
  BY <1>2, <1>4, FS_Surjection
<1>6. IsFiniteSet(Positive(s))
  BY <1>2, <1>3, FS_Subset
<1> QED
  BY <1>3, <1>5, <1>6 DEF V, D

(* Grouping the positive rows by their score changes no sum over them.     *)
LEMMA PositivesGrouped ==
  ASSUME NEW s, IsSample(s), NEW g, \A v \in Scored(s) : g[v] \in Int
  PROVE  SumFunction([v \in Scored(s) |->
                        g[v] * Cardinality(Tied(s, v) \cap Positive(s))])
           = Sigma([k \in Positive(s) |-> g[s[k].score]], Positive(s))
<1> DEFINE P == Positive(s)
           V == Scored(s)
           t == [k \in P |-> s[k].score]
           h == [k \in P |-> g[s[k].score]]
           u == [v \in V |-> g[v] * Cardinality({k \in P : t[k] = v})]
           w == [v \in V |-> g[v] * Cardinality(Tied(s, v) \cap P)]
<1>1. /\ IsFiniteSet(V) /\ IsFiniteSet(P) /\ P \subseteq DOMAIN s
      /\ \A k \in P : t[k] \in V
  BY ScoresFinite
<1>2. \A k \in P : h[k] = g[t[k]]
  OBVIOUS
<1>3. \A v \in V : u[v] = w[v]
  <2> TAKE v \in V
  <2>1. Tied(s, v) \cap P = {k \in P : t[k] = v}
    BY <1>1 DEF Tied
  <2> QED
    BY <2>1
<1>4. SumFunction(w) = Sigma(w, V)
  BY DEF SumFunction, Sigma
<1>5. Sigma(u, V) = Sigma(h, P)
  <2> HIDE DEF t, h, P, V
  <2> QED
    BY <1>1, <1>2, SumGrouped DEF V
<1>6. Sigma(u, V) = Sigma(w, V)
  <2> HIDE DEF u, w, V
  <2> QED
    BY <1>1, <1>3, SumCongruent
<1> QED
  BY <1>4, <1>5, <1>6

(* Every precision is a whole number of 1 / Whole.                         *)
LEMMA PrecisionType ==
  ASSUME NEW s, IsSample(s), NEW v \in Scored(s)
  PROVE  PrecisionAt(s, v) \in Int
<1>1. IsFiniteSet(DOMAIN s)
  BY DEF IsSample
<1>2. PICK k \in DOMAIN s : v = s[k].score
  BY DEF Scored
<1>3. k \in From(s, v) /\ From(s, v) \subseteq DOMAIN s
  BY <1>2 DEF From, IsSample
<1>4. Cardinality(From(s, v)) \in Nat \ {0}
  BY <1>1, <1>3, FS_Subset, FS_CardinalityType, FS_EmptySet
<1>5. Cardinality(From(s, v) \cap Positive(s)) \in Nat
  BY <1>1, <1>3, FS_Subset, FS_CardinalityType
<1>6. Whole(s) \in Int
  <2>1. Cardinality(DOMAIN s) \in Nat
    BY <1>1, FS_CardinalityType
  <2> DEFINE N == 1..Cardinality(DOMAIN s)
  <2>2. IsFiniteSet(N) /\ \A x \in N : x \in Int
    BY <2>1, FS_Interval
  <2> HIDE DEF N
  <2>3. ProductSet(N) \in Int
    BY <2>2, ProductType
  <2> QED
    BY <2>3 DEF Whole, N
<1>7. \A a \in Int, b \in Nat \ {0}, c \in Nat : c * (a \div b) \in Int
  OBVIOUS
<1> QED
  BY <1>4, <1>5, <1>6, <1>7 DEF PrecisionAt

(* Thresholds and positive rows add up to the same.                        *)
LEMMA PrecisionsGrouped ==
  ASSUME NEW s, IsSample(s)
  PROVE  AveragePrecision(s) = MeanPrecision(s)
<1> DEFINE P == Positive(s)
           V == Scored(s)
           g == [v \in V |-> PrecisionAt(s, v)]
           gains == [v \in V |-> PrecisionAt(s, v) * Cardinality(Tied(s, v) \cap P)]
           h == [k \in P |-> PrecisionAt(s, s[k].score)]
<1>1. \A v \in V : g[v] \in Int
  BY PrecisionType
<1>2. gains = [v \in V |-> g[v] * Cardinality(Tied(s, v) \cap P)]
  OBVIOUS
<1>3. h = [k \in P |-> g[s[k].score]]
  BY ScoresFinite
<1>4. SumFunction(h) = Sigma(h, P)
  BY DEF SumFunction, Sigma
<1>5. SumFunction(gains) = SumFunction(h)
  <2> HIDE DEF g
  <2> QED
    BY <1>1, <1>2, <1>3, <1>4, PositivesGrouped
<1> QED
  BY <1>5 DEF AveragePrecision, MeanPrecision

(* Average precision is the mean of the precisions at the scores of the    *)
(* positive rows, also where scores tie.                                   *)
THEOREM AveragePrecisionIsMean ==
  ASSUME NEW s, IsSample(s)
  PROVE  Equal(AveragePrecision(s), MeanPrecision(s))
BY PrecisionsGrouped DEF Equal

-----------------------------------------------------------------------------
(* The area under the curve.                                               *)

(* Disjoint finite sets have as many elements together.                    *)
LEMMA DisjointUnion ==
  ASSUME NEW S, IsFiniteSet(S), NEW T, IsFiniteSet(T), S \cap T = {}
  PROVE  /\ IsFiniteSet(S \cup T)
         /\ Cardinality(S \cup T) = Cardinality(S) + Cardinality(T)
<1>1. /\ IsFiniteSet(S \cup T)
      /\ Cardinality(S \cup T)
           = Cardinality(S) + Cardinality(T) - Cardinality(S \cap T)
  BY FS_Union
<1>2. Cardinality(S \cap T) = 0
  BY FS_EmptySet
<1>3. Cardinality(S) \in Nat /\ Cardinality(T) \in Nat
  BY FS_CardinalityType
<1> QED
  BY <1>1, <1>2, <1>3

(* What scores lower than row k, or the same, and the pairs of such rows.  *)
Lower(s, k, C) == {l \in C : s[l].score < s[k].score}
Level(s, k, C) == {l \in C : s[l].score = s[k].score}
Above(s, A, C) == {q \in A \X C : s[q[2]].score < s[q[1]].score}
Ties(s, A, C)  == {q \in A \X C : s[q[2]].score = s[q[1]].score}

(* As many pairs of positive rows are ordered one way as the other; the    *)
(* others tie.                                                             *)
LEMMA OrderedPairs ==
  ASSUME NEW s, IsSample(s), NEW P, P \subseteq DOMAIN s
  PROVE  2 * Cardinality(Above(s, P, P)) + Cardinality(Ties(s, P, P))
           = Cardinality(P) * Cardinality(P)
<1> DEFINE PP == P \X P
           above == {q \in PP : s[q[2]].score < s[q[1]].score}
           below == {q \in PP : s[q[1]].score < s[q[2]].score}
           ties  == {q \in PP : s[q[2]].score = s[q[1]].score}
<1>1. /\ IsFiniteSet(P) /\ IsFiniteSet(PP)
      /\ Cardinality(PP) = Cardinality(P) * Cardinality(P)
  BY FS_Subset, FS_Product DEF IsSample
<1>2. /\ IsFiniteSet(above) /\ IsFiniteSet(below) /\ IsFiniteSet(ties)
      /\ IsFiniteSet(above \cup below)
  BY <1>1, FS_Subset, FS_Union
<1>3. Cardinality(below) = Cardinality(above)
  <2> DEFINE swap == [q \in above |-> <<q[2], q[1]>>]
  <2>1. \A q \in above : swap[q] \in below
    OBVIOUS
  <2>2. \A q, r \in above : swap[q] = swap[r] => q = r
    OBVIOUS
  <2>3. \A r \in below : <<r[2], r[1]>> \in above /\ swap[<<r[2], r[1]>>] = r
    OBVIOUS
  <2>4. swap \in [above -> below]
    BY <2>1
  <2>5. \A r \in below : \E q \in above : swap[q] = r
    BY <2>3
  <2> HIDE DEF swap, above, below
  <2>6. swap \in Injection(above, below)
    BY <2>2, <2>4 DEF Injection, IsInjective
  <2>7. swap \in Surjection(above, below)
    BY <2>4, <2>5 DEF Surjection
  <2> QED
    BY <1>2, <2>6, <2>7, FS_Bijection DEF Bijection, ExistsBijection
<1>4. PP = (above \cup below) \cup ties
  <2>1. \A q \in PP : s[q[1]].score \in Int /\ s[q[2]].score \in Int
    BY DEF IsSample
  <2> QED
    BY <2>1
<1>5. above \cap below = {} /\ (above \cup below) \cap ties = {}
  <2>1. \A q \in PP : s[q[1]].score \in Int /\ s[q[2]].score \in Int
    BY DEF IsSample
  <2> QED
    BY <2>1
<1> HIDE DEF above, below, ties, PP
<1> DEFINE both == above \cup below
<1>6. Cardinality(both) = Cardinality(above) + Cardinality(below)
  BY <1>2, <1>5, DisjointUnion
<1>7. Cardinality(PP) = Cardinality(both) + Cardinality(ties)
  <2>1. IsFiniteSet(both) /\ both \cap ties = {} /\ PP = both \cup ties
    BY <1>2, <1>4, <1>5
  <2> HIDE DEF both
  <2> QED
    BY <1>2, <2>1, DisjointUnion
<1>8. Cardinality(above) \in Nat /\ Cardinality(ties) \in Nat
  BY <1>2, FS_CardinalityType
<1>9. 2 * Cardinality(above) + Cardinality(ties) = Cardinality(P) * Cardinality(P)
  BY <1>1, <1>3, <1>6, <1>7, <1>8
<1> QED
  BY <1>9 DEF above, ties, PP, Above, Ties

(* Twice the average rank of a row counts the positive and the negative    *)
(* rows below it twice and those that tie with it once.                    *)
LEMMA RankCounts ==
  ASSUME NEW s, IsSample(s), NEW k \in DOMAIN s, NEW P, P \subseteq DOMAIN s
  PROVE  TwiceRank(s, s[k].score)
           = 2 * Cardinality(Lower(s, k, DOMAIN s \ P))
               + (Cardinality(Level(s, k, DOMAIN s \ P))
               + (2 * Cardinality(Lower(s, k, P))
               + (Cardinality(Level(s, k, P)) + 1)))
<1> DEFINE D == DOMAIN s
           N == D \ P
           v == s[k].score
           B == Below(s, v)
           T == Tied(s, v)
           bn == {l \in N : s[l].score < v}
           tn == {l \in N : s[l].score = v}
           bp == {l \in P : s[l].score < v}
           tp == {l \in P : s[l].score = v}
<1>1. /\ B = bn \cup bp /\ bn \cap bp = {}
      /\ T = tn \cup tp /\ tn \cap tp = {}
  BY DEF Below, Tied
<1>2. B \cap T = {}
  BY DEF Below, Tied, IsSample
<1>3. /\ IsFiniteSet(bn) /\ IsFiniteSet(tn) /\ IsFiniteSet(bp) /\ IsFiniteSet(tp)
      /\ IsFiniteSet(B) /\ IsFiniteSet(T)
  <2>1. IsFiniteSet(D) /\ bn \subseteq D /\ tn \subseteq D /\ bp \subseteq D
        /\ tp \subseteq D /\ B \subseteq D /\ T \subseteq D
    BY DEF IsSample, Below, Tied
  <2> HIDE DEF D, bn, tn, bp, tp, B, T
  <2> QED
    BY <2>1, FS_Subset
<1>4. TwiceRank(s, v) = (Cardinality(B) + 1) + Cardinality(B \cup T)
  BY DEF TwiceRank
<1> HIDE DEF bn, tn, bp, tp, B, T
<1>5. /\ Cardinality(B) = Cardinality(bn) + Cardinality(bp)
      /\ Cardinality(T) = Cardinality(tn) + Cardinality(tp)
      /\ Cardinality(B \cup T) = Cardinality(B) + Cardinality(T)
  <2>1. Cardinality(B) = Cardinality(bn) + Cardinality(bp)
    BY <1>1, <1>3, DisjointUnion
  <2>2. Cardinality(T) = Cardinality(tn) + Cardinality(tp)
    BY <1>1, <1>3, DisjointUnion
  <2>3. Cardinality(B \cup T) = Cardinality(B) + Cardinality(T)
    BY <1>2, <1>3, DisjointUnion
  <2> QED
    BY <2>1, <2>2, <2>3
<1>6. /\ Cardinality(bn) \in Nat /\ Cardinality(tn) \in Nat
      /\ Cardinality(bp) \in Nat /\ Cardinality(tp) \in Nat
  BY <1>3, FS_CardinalityType
<1>7. TwiceRank(s, v) = 2 * Cardinality(bn)
         + (Cardinality(tn) + (2 * Cardinality(bp) + (Cardinality(tp) + 1)))
  BY <1>4, <1>5, <1>6
<1> QED
  BY <1>7 DEF bn, tn, bp, tp, Lower, Level

(* Adding up what each row of A has below it, or next to it, counts pairs. *)
LEMMA PairsCounted ==
  ASSUME NEW s, IsSample(s), NEW A, A \subseteq DOMAIN s,
         NEW C, C \subseteq DOMAIN s
  PROVE  /\ Sigma([k \in A |-> Cardinality(Lower(s, k, C))], A)
              = Cardinality(Above(s, A, C))
         /\ Sigma([k \in A |-> Cardinality(Level(s, k, C))], A)
              = Cardinality(Ties(s, A, C))
<1> DEFINE less == Above(s, A, C)
           same == Ties(s, A, C)
           hl == [k \in A |-> Cardinality(Lower(s, k, C))]
           hs == [k \in A |-> Cardinality(Level(s, k, C))]
<1>1. IsFiniteSet(A) /\ IsFiniteSet(C)
  BY FS_Subset DEF IsSample
<1>2. less \in SUBSET (A \X C) /\ same \in SUBSET (A \X C)
  BY DEF Above, Ties
<1>3. \A k \in A : /\ Related(less, k, C) = Lower(s, k, C)
                   /\ Related(same, k, C) = Level(s, k, C)
  BY DEF Related, Lower, Level, Above, Ties
<1>4. /\ \A k \in A : hl[k] = Cardinality(Related(less, k, C))
      /\ \A k \in A : hs[k] = Cardinality(Related(same, k, C))
  BY <1>3
<1> HIDE DEF less, same, hl, hs
<1>5. Sigma(hl, A) = Cardinality(less)
  BY <1>1, <1>2, <1>4, SumRows
<1>6. Sigma(hs, A) = Cardinality(same)
  BY <1>1, <1>2, <1>4, SumRows
<1> QED
  BY <1>5, <1>6 DEF less, same, hl, hs

(* Twice the ranks of the positive rows, added up.                         *)
LEMMA RanksCounted ==
  ASSUME NEW s, IsSample(s), NEW P, P \subseteq DOMAIN s
  PROVE  Sigma([k \in P |-> TwiceRank(s, s[k].score)], P)
           = 2 * Cardinality(Above(s, P, DOMAIN s \ P))
               + Cardinality(Ties(s, P, DOMAIN s \ P))
               + Cardinality(P) * Cardinality(P) + Cardinality(P)
<1> DEFINE N == DOMAIN s \ P
           a == [k \in P |-> Cardinality(Lower(s, k, N))]
           b == [k \in P |-> Cardinality(Level(s, k, N))]
           c == [k \in P |-> Cardinality(Lower(s, k, P))]
           d == [k \in P |-> Cardinality(Level(s, k, P))]
           one == [k \in P |-> 1]
           r3 == [k \in P |-> 1 * d[k] + one[k]]
           r2 == [k \in P |-> 2 * c[k] + r3[k]]
           r1 == [k \in P |-> 1 * b[k] + r2[k]]
           r  == [k \in P |-> TwiceRank(s, s[k].score)]
<1>1. /\ N \subseteq DOMAIN s /\ IsFiniteSet(P) /\ IsFiniteSet(N)
  BY FS_Subset DEF IsSample
<1>2. \A k \in P : a[k] \in Int /\ b[k] \in Int /\ c[k] \in Int /\ d[k] \in Int
  <2>1. \A k, C : Lower(s, k, C) \subseteq C /\ Level(s, k, C) \subseteq C
    BY DEF Lower, Level
  <2>2. \A S : S \subseteq N \/ S \subseteq P => Cardinality(S) \in Int
    BY <1>1, FS_Subset, FS_CardinalityType
  <2> QED
    BY <2>1, <2>2
<1>3. \A k \in P : r[k] = 2 * a[k] + (b[k] + (2 * c[k] + (d[k] + 1)))
  BY RankCounts
<1>4. /\ Sigma(a, P) = Cardinality(Above(s, P, N))
      /\ Sigma(b, P) = Cardinality(Ties(s, P, N))
      /\ Sigma(c, P) = Cardinality(Above(s, P, P))
      /\ Sigma(d, P) = Cardinality(Ties(s, P, P))
  BY <1>1, PairsCounted
<1>5. 2 * Cardinality(Above(s, P, P)) + Cardinality(Ties(s, P, P))
        = Cardinality(P) * Cardinality(P)
  BY OrderedPairs
<1>6. /\ \A k \in P : one[k] = 1
      /\ \A k \in P : r3[k] = 1 * d[k] + one[k]
      /\ \A k \in P : r2[k] = 2 * c[k] + r3[k]
      /\ \A k \in P : r1[k] = 1 * b[k] + r2[k]
  OBVIOUS
<1> HIDE DEF a, b, c, d, one, r3, r2, r1, r, N
<1>7. /\ \A k \in P : one[k] \in Int /\ r3[k] \in Int
                      /\ r2[k] \in Int /\ r1[k] \in Int
      /\ \A k \in P : r[k] = 2 * a[k] + r1[k]
  BY <1>2, <1>3, <1>6
<1>8. Sigma(one, P) = 1 * Cardinality(P)
  BY <1>1, <1>6, SumConstant
<1>9. Sigma(r3, P) = 1 * Sigma(d, P) + Sigma(one, P)
  BY <1>1, <1>2, <1>6, <1>7, SumLinear
<1>10. Sigma(r2, P) = 2 * Sigma(c, P) + Sigma(r3, P)
  BY <1>1, <1>2, <1>6, <1>7, SumLinear
<1>11. Sigma(r1, P) = 1 * Sigma(b, P) + Sigma(r2, P)
  BY <1>1, <1>2, <1>6, <1>7, SumLinear
<1>12. Sigma(r, P) = 2 * Sigma(a, P) + Sigma(r1, P)
  BY <1>1, <1>2, <1>7, SumLinear
<1>13. /\ Cardinality(P) \in Nat
       /\ Sigma(a, P) \in Int /\ Sigma(b, P) \in Int
       /\ Sigma(c, P) \in Int /\ Sigma(d, P) \in Int
  BY <1>1, <1>2, SumType, FS_CardinalityType
<1>14. \A x \in Nat : x * x \in Int
  OBVIOUS
<1>15. Sigma(r, P) = 2 * Cardinality(Above(s, P, N)) + Cardinality(Ties(s, P, N))
                       + Cardinality(P) * Cardinality(P) + Cardinality(P)
  <2>1. Sigma(r, P) = 2 * Sigma(a, P) + Sigma(b, P)
                        + (2 * Sigma(c, P) + Sigma(d, P)) + Cardinality(P)
    BY <1>8, <1>9, <1>10, <1>11, <1>12, <1>13
  <2>2. 2 * Sigma(c, P) + Sigma(d, P) = Cardinality(P) * Cardinality(P)
    BY <1>4, <1>5
  <2> QED
    BY <1>4, <1>13, <1>14, <2>1, <2>2
<1> QED
  BY <1>15 DEF r, N

(* Numerator and denominator of the area count pairs.                      *)
LEMMA AucCountsPairs ==
  ASSUME NEW s, IsSample(s)
  PROVE  AverageRankAuc(s) = Concordance(s)
<1> DEFINE P == Positive(s)
           D == DOMAIN s
           N == D \ P
           p == Cardinality(P)
           V == Scored(s)
           g == [v \in V |-> TwiceRank(s, v)]
           u == [v \in V |-> TwiceRank(s, v) * Cardinality(Tied(s, v) \cap P)]
           h == [k \in P |-> TwiceRank(s, s[k].score)]
           above == Above(s, P, N)
           ties  == Ties(s, P, N)
<1>1. /\ IsFiniteSet(D) /\ IsFiniteSet(P) /\ IsFiniteSet(N) /\ P \subseteq D
      /\ IsFiniteSet(P \X N)
      /\ Cardinality(P \X N) = p * (Cardinality(D) - p)
  <2>1. IsFiniteSet(D) /\ P \subseteq D
    BY DEF IsSample, Positive
  <2>2. IsFiniteSet(P) /\ IsFiniteSet(N)
    BY <2>1, FS_Subset
  <2>3. D \cap P = P
    BY <2>1
  <2>4. Cardinality(N) = Cardinality(D) - p
    BY <2>1, <2>2, <2>3, FS_Difference
  <2>5. IsFiniteSet(P \X N) /\ Cardinality(P \X N) = p * Cardinality(N)
    BY <2>2, FS_Product
  <2> QED
    BY <2>1, <2>2, <2>4, <2>5
<1>2. \A v \in V : g[v] \in Int
  <2>1. \A v : /\ Below(s, v) \subseteq D
               /\ Below(s, v) \cup Tied(s, v) \subseteq D
    BY DEF Below, Tied
  <2>2. \A S : S \subseteq D => Cardinality(S) \in Int
    BY <1>1, FS_Subset, FS_CardinalityType
  <2>3. \A v : TwiceRank(s, v) \in Int
    BY <2>1, <2>2 DEF TwiceRank
  <2> QED
    BY <2>3
<1>3. SumFunction(u) = Sigma(h, P)
  <2>1. /\ u = [v \in V |-> g[v] * Cardinality(Tied(s, v) \cap P)]
        /\ h = [k \in P |-> g[s[k].score]]
    BY ScoresFinite
  <2> HIDE DEF g
  <2> QED
    BY <1>2, <2>1, PositivesGrouped
<1>4. Sigma(h, P) = 2 * Cardinality(above) + Cardinality(ties) + p * p + p
  BY <1>1, RanksCounted
<1>5. /\ AverageRankAuc(s) = Ratio(SumFunction(u) - p * (p + 1),
                                   2 * p * (Cardinality(D) - p))
  BY DEF AverageRankAuc
<1>6. Concordance(s) = Ratio(2 * Cardinality(above) + Cardinality(ties),
                             2 * Cardinality(P \X N))
  <2>1. \A q \in P \X N : s[q[1]].score \in Int /\ s[q[2]].score \in Int
    BY <1>1 DEF IsSample
  <2>2. /\ above = {q \in P \X N : s[q[1]].score > s[q[2]].score}
        /\ ties = {q \in P \X N : s[q[1]].score = s[q[2]].score}
    BY <2>1 DEF Above, Ties
  <2> QED
    BY <2>2 DEF Concordance
<1>7. /\ p \in Nat /\ Cardinality(D) \in Nat
      /\ Cardinality(above) \in Nat /\ Cardinality(ties) \in Nat
  <2>1. above \subseteq P \X N /\ ties \subseteq P \X N
    BY DEF Above, Ties
  <2> HIDE DEF above, ties
  <2> QED
    BY <1>1, <2>1, FS_Subset, FS_CardinalityType
<1> HIDE DEF P, D, N, p, V, u, h, above, ties
<1>8. \A x, y \in Int : x * (x + 1) = x * x + x /\ 2 * x * y = 2 * (x * y)
                        /\ x * x \in Int /\ x * y \in Int
  OBVIOUS
<1>9. SumFunction(u) - p * (p + 1) = 2 * Cardinality(above) + Cardinality(ties)
  BY <1>3, <1>4, <1>7, <1>8
<1>10. 2 * p * (Cardinality(D) - p) = 2 * Cardinality(P \X N)
  <2>1. Cardinality(D) - p \in Int
    BY <1>7
  <2> QED
    BY <1>1, <1>7, <1>8, <2>1
<1> QED
  BY <1>5, <1>6, <1>9, <1>10

(* The area computed from average ranks is how often a positive row scores *)
(* above a negative one, a tie being a half (evaluator.py:35-54).          *)
THEOREM AucIsConcordance ==
  ASSUME NEW s, IsSample(s)
  PROVE  Equal(AverageRankAuc(s), Concordance(s))
BY AucCountsPairs DEF Equal

-----------------------------------------------------------------------------
(* The ranges of the contract.                                             *)

LEMMA SumBound ==
  ASSUME NEW S, IsFiniteSet(S), NEW f, NEW c \in Int,
         \A x \in S : f[x] \in Int /\ f[x] <= c
  PROVE  Sigma(f, S) <= c * Cardinality(S)
<1> DEFINE g == [x \in S |-> c - f[x]]
           h == [x \in S |-> c]
<1>1. \A x \in S : /\ g[x] \in Int /\ g[x] >= 0
                   /\ h[x] = c /\ h[x] = 1 * f[x] + g[x]
  OBVIOUS
<1> HIDE DEF g, h
<1>2. Sigma(h, S) = c * Cardinality(S)
  BY <1>1, SumConstant
<1>3. Sigma(h, S) = 1 * Sigma(f, S) + Sigma(g, S)
  BY <1>1, SumLinear
<1>4. Sigma(g, S) >= 0
  BY <1>1, SumPositive
<1>5. Sigma(f, S) \in Int /\ Sigma(g, S) \in Int
  BY <1>1, SumType
<1> QED
  BY <1>2, <1>3, <1>4, <1>5

(* Part of a finite set is at most as large.                               *)
LEMMA PartCounted ==
  ASSUME NEW S, IsFiniteSet(S), NEW T, T \subseteq S
  PROVE  /\ Cardinality(T) \in Nat /\ Cardinality(S) \in Nat
         /\ Cardinality(T) <= Cardinality(S)
         /\ S # {} => Cardinality(S) > 0
BY FS_Subset, FS_CardinalityType, FS_EmptySet

LEMMA WholePositive ==
  ASSUME NEW s, IsSample(s)
  PROVE  Whole(s) \in Int /\ Whole(s) > 0
<1> DEFINE N == 1..Cardinality(DOMAIN s)
<1>1. Cardinality(DOMAIN s) \in Nat
  BY FS_CardinalityType DEF IsSample
<1>2. IsFiniteSet(N) /\ \A x \in N : x \in Int /\ x > 0
  BY <1>1, FS_Interval
<1> HIDE DEF N
<1>3. ProductSet(N) \in Int /\ ProductSet(N) > 0
  BY <1>2, ProductType, ProductPositive
<1> QED
  BY <1>3 DEF Whole, N

(* A precision lies between 0 and 1.                                       *)
LEMMA PrecisionInRange ==
  ASSUME NEW s, IsSample(s), NEW v \in Scored(s)
  PROVE  /\ PrecisionAt(s, v) \in Int
         /\ 0 <= PrecisionAt(s, v) /\ PrecisionAt(s, v) <= Whole(s)
<1> DEFINE n == Cardinality(From(s, v))
           h == Cardinality(From(s, v) \cap Positive(s))
           w == Whole(s)
<1>1. PICK k \in DOMAIN s : v = s[k].score
  BY DEF Scored
<1>2. k \in From(s, v) /\ From(s, v) \subseteq DOMAIN s
  BY <1>1 DEF From, IsSample
<1>3. IsFiniteSet(From(s, v))
  BY <1>2, FS_Subset DEF IsSample
<1>4. n \in Nat /\ h \in Nat /\ h <= n /\ n > 0
  BY <1>2, <1>3, PartCounted
<1>5. w \in Nat
  BY WholePositive
<1>6. PrecisionAt(s, v) = h * (w \div n)
  BY DEF PrecisionAt
<1> HIDE DEF n, h, w
<1>7. w \div n \in Nat /\ n * (w \div n) <= w
  BY <1>4, <1>5
<1>8. \A a, b, q \in Nat : a <= b => a * q \in Nat /\ b * q \in Nat /\ a * q <= b * q
  OBVIOUS
<1>9. h * (w \div n) \in Nat /\ h * (w \div n) <= n * (w \div n)
      /\ n * (w \div n) \in Nat
  BY <1>4, <1>7, <1>8
<1>10. h * (w \div n) <= w
  BY <1>5, <1>7, <1>9
<1> QED
  BY <1>6, <1>9, <1>10 DEF w

(* The precision at a score is exact: Whole is a multiple of every number  *)
(* of rows.                                                                *)
THEOREM PrecisionIsExact ==
  ASSUME NEW s, IsSample(s), NEW v \in Scored(s)
  PROVE  PrecisionAt(s, v) * Cardinality(From(s, v))
           = Cardinality(From(s, v) \cap Positive(s)) * Whole(s)
<1> DEFINE n == Cardinality(From(s, v))
           h == Cardinality(From(s, v) \cap Positive(s))
           D == 1..Cardinality(DOMAIN s)
           r == ProductSet(D \ {n})
<1>1. PICK k \in DOMAIN s : v = s[k].score
  BY DEF Scored
<1>2. k \in From(s, v) /\ From(s, v) \subseteq DOMAIN s
  BY <1>1 DEF From, IsSample
<1>3. IsFiniteSet(From(s, v)) /\ IsFiniteSet(DOMAIN s)
  BY <1>2, FS_Subset DEF IsSample
<1>4. n \in Nat /\ h \in Nat /\ n > 0
  BY <1>2, <1>3, PartCounted
<1>5. n <= Cardinality(DOMAIN s) /\ Cardinality(DOMAIN s) \in Nat
  BY <1>2, <1>3, PartCounted
<1>6. n \in D /\ IsFiniteSet(D) /\ \A x \in D : x \in Int
  BY <1>4, <1>5, FS_Interval
<1>7. Whole(s) = ProductSet(D)
  BY DEF Whole
<1>8. PrecisionAt(s, v) = h * (Whole(s) \div n)
  BY DEF PrecisionAt
<1> HIDE DEF n, h, D
<1>9. Whole(s) = n * r
  BY <1>6, <1>7, ProductRemove
<1>10. r \in Int
  <2>1. IsFiniteSet(D \ {n}) /\ \A x \in D \ {n} : x \in Int
    BY <1>6, FS_Subset
  <2> QED
    BY <2>1, ProductType
<1> HIDE DEF r
<1>11. \A a \in Nat, b \in Int : a > 0 => (a * b) \div a = b
  OBVIOUS
<1>12. \A a, b, c \in Int : (c * b) * a = c * (a * b)
  OBVIOUS
<1>13. Whole(s) \div n = r
  BY <1>4, <1>9, <1>10, <1>11
<1>14. (h * r) * n = h * (n * r)
  BY <1>4, <1>10, <1>12
<1> QED
  BY <1>8, <1>9, <1>13, <1>14 DEF n, h

(* A sample that a classification may be scored on.                        *)
IsClassified(s) ==
  /\ IsSample(s)
  /\ \A k \in DOMAIN s : s[k].label \in {0, 1} /\ s[k].score \in 0..Top

LEMMA AucInRange ==
  ASSUME NEW s, IsSample(s), ClassSupport(s)
  PROVE  Share(AverageRankAuc(s))
<1> DEFINE P == Positive(s)
           N == DOMAIN s \ P
           above == {q \in P \X N : s[q[1]].score > s[q[2]].score}
           ties  == {q \in P \X N : s[q[1]].score = s[q[2]].score}
<1>1. /\ IsFiniteSet(P \X N) /\ P \X N # {}
      /\ above \subseteq P \X N /\ ties \subseteq P \X N
  <2>1. IsFiniteSet(P) /\ IsFiniteSet(N)
    BY FS_Subset, ScoresFinite DEF IsSample
  <2>2. P # {} /\ N # {}
    BY ScoresFinite DEF ClassSupport
  <2>3. IsFiniteSet(P \X N)
    BY <2>1, FS_Product
  <2>4. above \subseteq P \X N /\ ties \subseteq P \X N
    OBVIOUS
  <2>5. P \X N # {}
    <3>1. PICK k \in P, l \in N : TRUE
      BY <2>2
    <3>2. <<k, l>> \in P \X N
      BY <3>1
    <3> QED
      BY <3>2
  <2> QED
    BY <2>3, <2>4, <2>5
<1>2. above \cap ties = {}
  <2>1. \A q \in P \X N : s[q[1]].score \in Int /\ s[q[2]].score \in Int
    BY ScoresFinite DEF IsSample
  <2> QED
    BY <2>1
<1>3. Concordance(s) = Ratio(2 * Cardinality(above) + Cardinality(ties),
                             2 * Cardinality(P \X N))
  BY DEF Concordance
<1> DEFINE pairs == P \X N
<1> HIDE DEF above, ties, P, N, pairs
<1>4. /\ IsFiniteSet(above) /\ IsFiniteSet(ties)
      /\ Cardinality(above) \in Nat /\ Cardinality(ties) \in Nat
      /\ Cardinality(pairs) \in Nat /\ Cardinality(pairs) > 0
  BY <1>1, PartCounted, FS_Subset DEF pairs
<1>5. Cardinality(above \cup ties) = Cardinality(above) + Cardinality(ties)
  BY <1>2, <1>4, DisjointUnion
<1>6. Cardinality(above \cup ties) <= Cardinality(pairs)
  BY <1>1, PartCounted DEF pairs
<1>7. Concordance(s) = Ratio(2 * Cardinality(above) + Cardinality(ties),
                             2 * Cardinality(pairs))
  BY <1>3 DEF pairs
<1>8. Share(Concordance(s))
  BY <1>4, <1>5, <1>6, <1>7 DEF Share, Magnitude, Defined, Ratio
<1> QED
  BY <1>8, AucCountsPairs

LEMMA AveragePrecisionInRange ==
  ASSUME NEW s, IsSample(s), Positive(s) # {}
  PROVE  Share(AveragePrecision(s))
<1> DEFINE P == Positive(s)
           h == [k \in P |-> PrecisionAt(s, s[k].score)]
           w == Whole(s)
           p == Cardinality(P)
<1>1. IsFiniteSet(P) /\ \A k \in P : s[k].score \in Scored(s)
  BY ScoresFinite
<1>2. \A k \in P : h[k] \in Int /\ 0 <= h[k] /\ h[k] <= w
  BY <1>1, PrecisionInRange
<1>3. MeanPrecision(s) = Ratio(Sigma(h, P), p * w)
  BY DEF MeanPrecision, SumFunction, Sigma
<1>4. w \in Int /\ w > 0
  BY WholePositive
<1>5. p \in Nat /\ p > 0
  BY <1>1, PartCounted
<1> HIDE DEF P, h, w
<1>6. Sigma(h, P) >= 0 /\ Sigma(h, P) <= w * p /\ Sigma(h, P) \in Int
  BY <1>1, <1>2, <1>4, SumPositive, SumBound, SumType
<1> HIDE DEF p
<1>7. \A a, b \in Int : a > 0 /\ b > 0 => a * b > 0 /\ a * b = b * a /\ a * b \in Int
  OBVIOUS
<1>8. p * w > 0 /\ p * w = w * p /\ p * w \in Int
  BY <1>4, <1>5, <1>7
<1>9. Share(MeanPrecision(s))
  BY <1>3, <1>6, <1>8 DEF Share, Magnitude, Defined, Ratio
<1> QED
  BY <1>9, PrecisionsGrouped

LEMMA BrierInRange ==
  ASSUME NEW s, IsClassified(s), DOMAIN s # {}
  PROVE  Share(BrierScore(s))
<1> DEFINE D == DOMAIN s
           h == [k \in D |-> Square(s[k].score - Top * s[k].label)]
           n == Cardinality(D)
           t == Top * Top
<1>1. IsFiniteSet(D)
  BY DEF IsClassified, IsSample
<1>2. BrierScore(s) = Ratio(Sigma(h, D), t * n)
  BY DEF BrierScore, SumFunction, Sigma, Square
<1>3. \A a \in Nat : \A x \in Int :
        -a <= x /\ x <= a => x * x \in Int /\ 0 <= x * x /\ x * x <= a * a
  <2> SUFFICES ASSUME NEW a \in Nat, NEW x \in Int, -a <= x, x <= a
               PROVE  x * x \in Int /\ 0 <= x * x /\ x * x <= a * a
    OBVIOUS
  <2>1. CASE x >= 0
    BY <2>1
  <2>2. CASE x < 0
    <3>1. (-x) * (-x) <= a * a /\ (-x) * (-x) = x * x
      BY <2>2
    <3> QED
      BY <3>1
  <2> QED
    BY <2>1, <2>2
<1>4. ASSUME NEW k \in D
      PROVE  h[k] \in Int /\ 0 <= h[k] /\ h[k] <= t
  <2> DEFINE x == s[k].score - Top * s[k].label
  <2>1. Top \in Nat /\ s[k].score \in 0..Top /\ s[k].label \in {0, 1}
    BY TopAssumption DEF IsClassified
  <2>2. x \in Int /\ -Top <= x /\ x <= Top
    BY <2>1
  <2>3. h[k] = x * x
    BY DEF Square
  <2> HIDE DEF x, h
  <2> QED
    BY <1>3, <2>1, <2>2, <2>3
<1>5. t \in Int /\ t > 0
  BY TopAssumption
<1>6. n \in Nat /\ n > 0
  BY <1>1, PartCounted
<1> HIDE DEF D, h, t
<1>7. Sigma(h, D) >= 0 /\ Sigma(h, D) <= t * n /\ Sigma(h, D) \in Int
  BY <1>1, <1>4, <1>5, SumPositive, SumBound, SumType
<1> HIDE DEF n
<1>8. \A a, b \in Int : a > 0 /\ b > 0 => a * b > 0 /\ a * b \in Int
  OBVIOUS
<1>9. t * n > 0 /\ t * n \in Int
  BY <1>5, <1>6, <1>8
<1> QED
  BY <1>2, <1>7, <1>9 DEF Share, Magnitude, Defined, Ratio

LEMMA AccuracyInRange ==
  ASSUME NEW s, IsSample(s), DOMAIN s # {}
  PROVE  Share(Accuracy(s))
<1> DEFINE D == DOMAIN s
           right == {k \in D : k \in Positive(s) <=> k \in Predicted(s)}
<1>1. IsFiniteSet(D) /\ right \subseteq D /\ D # {}
  BY DEF IsSample
<1>2. Accuracy(s) = Ratio(Cardinality(right), Cardinality(D))
  BY DEF Accuracy
<1> HIDE DEF right, D
<1>3. /\ Cardinality(right) \in Nat /\ Cardinality(D) \in Nat
      /\ Cardinality(right) <= Cardinality(D) /\ Cardinality(D) > 0
  BY <1>1, PartCounted
<1> QED
  BY <1>2, <1>3 DEF Share, Magnitude, Defined, Ratio

LEMMA F1InRange ==
  ASSUME NEW s, IsSample(s)
  PROVE  Share(F1(s))
<1> DEFINE P == Positive(s)
           Q == Predicted(s)
           h == Cardinality(P \cap Q)
           a == Cardinality(Q \ P)
           b == Cardinality(P \ Q)
<1>1. IsFiniteSet(DOMAIN s) /\ P \subseteq DOMAIN s /\ Q \subseteq DOMAIN s
  BY DEF IsSample, Positive, Predicted
<1>2. F1(s) = IF 2 * h + a + b = 0 THEN Ratio(0, 1)
              ELSE Ratio(2 * h, 2 * h + a + b)
  BY DEF F1
<1> HIDE DEF P, Q
<1>3. /\ P \cap Q \subseteq DOMAIN s /\ Q \ P \subseteq DOMAIN s
      /\ P \ Q \subseteq DOMAIN s
  BY <1>1
<1>4. h \in Nat /\ a \in Nat /\ b \in Nat
  BY <1>1, <1>3, PartCounted
<1> HIDE DEF h, a, b
<1>5. CASE 2 * h + a + b = 0
  BY <1>2, <1>5 DEF Share, Magnitude, Defined, Ratio
<1>6. CASE 2 * h + a + b # 0
  BY <1>2, <1>4, <1>6 DEF Share, Magnitude, Defined, Ratio
<1> QED
  BY <1>5, <1>6

(* Every metric of a classification that the evaluator computes is a share *)
(* that its contract accepts, and no denominator is 0                      *)
(* (evaluator.py:71-92, models.py:605-611).                                *)
THEOREM ClassificationInRange ==
  ASSUME NEW s, IsClassified(s), ClassSupport(s)
  PROVE  ClassificationContract(ClassificationMetrics(s))
<1>1. IsSample(s)
  BY DEF IsClassified
<1>2. Positive(s) # {} /\ DOMAIN s # {}
  BY <1>1, ScoresFinite DEF ClassSupport
<1>3. Share(AverageRankAuc(s)) /\ Share(AveragePrecision(s))
  BY <1>1, <1>2, AucInRange, AveragePrecisionInRange
<1>4. Share(BrierScore(s)) /\ Share(Accuracy(s)) /\ Share(F1(s))
  BY <1>1, <1>2, BrierInRange, AccuracyInRange, F1InRange
<1> QED
  BY <1>3, <1>4 DEF ClassificationContract, ClassificationMetrics

(* A spread is never negative.                                             *)
LEMMA SpreadInRange ==
  ASSUME NEW f, IntValued(f)
  PROVE  Spread(f) \in Int /\ Spread(f) >= 0
<1> DEFINE P == (DOMAIN f) \X (DOMAIN f)
           m == [q \in P |-> Square(f[q[1]] - f[q[2]])]
<1>1. \A x, y \in Int : (x - y) * (x - y) \in Int /\ (x - y) * (x - y) >= 0
  OBVIOUS
<1>2. \A q \in P : m[q] \in Int /\ m[q] >= 0
  BY <1>1 DEF IntValued, Square
<1>3. IsFiniteSet(P)
  BY FS_Product DEF IntValued
<1>4. SumFunction(m) = Sigma(m, P)
  BY DEF SumFunction, Sigma
<1>5. Spread(f) \in Int /\ SumFunction(m) = 2 * Spread(f)
  BY DistancesSum
<1> HIDE DEF m, P
<1>6. Sigma(m, P) >= 0
  BY <1>2, <1>3, SumPositive
<1> QED
  BY <1>4, <1>5, <1>6

(* The metrics of a regression are magnitudes that the contract accepts,   *)
(* and no denominator is 0, when two labels of the test split differ and   *)
(* there are two training targets (evaluator.py:95-111, models.py:614-617, *)
(* contracts/inference.py:171-172).                                        *)
THEOREM RegressionInRange ==
  ASSUME NEW s, IsSample(s), DOMAIN s # {}, RegressionScale(s),
         NEW train, IntValued(train), Cardinality(DOMAIN train) >= 2
  PROVE  RegressionContract(RegressionMetrics(s, train))
<1> DEFINE D == DOMAIN s
           n == Cardinality(D)
           m == Cardinality(DOMAIN train)
           gaps == [k \in D |-> Gap(s[k].label, s[k].score)]
           errors == [k \in D |-> Square(s[k].label - s[k].score)]
           mae == Sigma(gaps, D)
           residual == Sigma(errors, D)
           total == Spread(LabelsIn(s))
           scale == Spread(train)
<1>1. IsFiniteSet(D) /\ \A k \in D : s[k].label \in Int /\ s[k].score \in Int
  BY DEF IsSample
<1>2. n \in Nat /\ n > 0
  BY <1>1, PartCounted
<1>3. m \in Nat /\ m >= 2
  BY FS_CardinalityType DEF IntValued
<1>4. \A k \in D : gaps[k] \in Int /\ gaps[k] >= 0
  BY <1>1 DEF Gap
<1>5. \A k \in D : errors[k] \in Int /\ errors[k] >= 0
  <2>1. \A x, y \in Int : (x - y) * (x - y) \in Int /\ (x - y) * (x - y) >= 0
    OBVIOUS
  <2> QED
    BY <1>1, <2>1 DEF Square
<1>6. /\ RegressionMetrics(s, train).mae = Ratio(mae, n)
      /\ RegressionMetrics(s, train).rmse = Ratio(residual, n)
      /\ RegressionMetrics(s, train).r2 = Ratio(total - n * residual, total)
      /\ RegressionMetrics(s, train).nmae
           = IF scale = 0 THEN Ratio(1, 1)
             ELSE Ratio(Square(mae) * m * (m - 1), Square(n) * scale)
  BY DEF RegressionMetrics, Residual, SumFunction, Sigma
<1>7. total > 0
  BY DEF RegressionScale
<1>8. scale \in Int /\ scale >= 0
  BY SpreadInRange
<1> HIDE DEF gaps, errors, D
<1>9. /\ mae \in Int /\ mae >= 0
      /\ residual \in Int /\ residual >= 0
  BY <1>1, <1>4, <1>5, SumType, SumPositive
<1> HIDE DEF n, m, mae, residual, total, scale
<1>10. /\ Magnitude(RegressionMetrics(s, train).mae)
       /\ Magnitude(RegressionMetrics(s, train).rmse)
       /\ Defined(RegressionMetrics(s, train).r2)
  BY <1>2, <1>6, <1>7, <1>9 DEF Magnitude, Defined, Ratio
<1>11. \A a, b \in Int : /\ a >= 0 /\ b >= 0 => a * b >= 0
                         /\ a > 0 /\ b > 0 => a * b > 0
                         /\ a * b \in Int
  OBVIOUS
<1>12. Square(mae) * m * (m - 1) >= 0
  <2>1. Square(mae) \in Int /\ Square(mae) >= 0
    BY <1>9, <1>11 DEF Square
  <2>2. Square(mae) * m \in Int /\ Square(mae) * m >= 0
    BY <1>3, <1>11, <2>1
  <2>3. m - 1 \in Int /\ m - 1 >= 0
    BY <1>3
  <2> QED
    BY <1>11, <2>2, <2>3
<1>13. scale # 0 => Square(n) * scale > 0
  <2>1. Square(n) \in Int /\ Square(n) > 0
    BY <1>2, <1>11 DEF Square
  <2> QED
    BY <1>8, <1>11, <2>1
<1>14. Magnitude(RegressionMetrics(s, train).nmae)
  BY <1>6, <1>12, <1>13 DEF Magnitude, Defined, Ratio
<1> QED
  BY <1>10, <1>14 DEF RegressionContract
=============================================================================
