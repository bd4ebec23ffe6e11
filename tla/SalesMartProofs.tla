--------------------------- MODULE SalesMartProofs ---------------------------
(***************************************************************************)
(* Proofs about SalesMart, for any dimensions, keys, rows, measures and    *)
(* proposals, and for any changes of the source during the load.           *)
(*                                                                         *)
(* The argument: a foreign key of the source always refers to a row, which *)
(* is in what the load read of that dimension unless it came later.  So as *)
(* long as nothing changed, every key that the fact brings has a number,   *)
(* and whether or not something changed, a number is the number of that    *)
(* key and of no other.                                                    *)
(*                                                                         *)
(* Recipes, values and totals are folds.  The first sections say what a    *)
(* fold is, by induction over the numbers: the definition of the community *)
(* modules is a choice among functions, of which one has to exist.  What   *)
(* follows of them is that a proposal is compiled to KPI of it, that a     *)
(* load stores numbers under their codes, and that the parts of a ranking  *)
(* add up to what SQL says of all its rows.                                *)
(*                                                                         *)
(* A load computes formulas in one pass and a dashboard in rounds.  What   *)
(* a load finds that goes in order stays as it is when it is computed      *)
(* again; a round finds nothing else, and always the next formula of that  *)
(* order, so that as many rounds as there are formulas find them all.      *)
(***************************************************************************)
EXTENDS SalesMart, FiniteSetTheorems, SequenceTheorems, TLAPS

-----------------------------------------------------------------------------
(* Induction and folds *)

\* Induction over the natural numbers, for a set of them.
LEMMA NaturalInduction ==
  ASSUME NEW D \in SUBSET Nat, 0 \in D, \A n \in D : n + 1 \in D
  PROVE  D = Nat
<1> SUFFICES ASSUME Nat \ D # {} PROVE FALSE
  OBVIOUS
<1> DEFINE R == OpToRel(<, Nat)
<1>1. \A x, y \in Nat : x < y => <<x, y>> \in R
  BY DEF OpToRel
<1>2. IsWellFoundedOn(R, Nat)
  BY NatLessThanWellFounded
<1> HIDE DEF R
<1>3. PICK x \in Nat \ D : \A y \in Nat \ D : ~ (<<y, x>> \in R)
  BY <1>2, WFMin, Nat \ D \subseteq Nat
<1>4. x # 0 /\ x - 1 \in Nat /\ x - 1 < x
  OBVIOUS
<1>5. x - 1 \in D
  BY <1>1, <1>3, <1>4
<1>6. (x - 1) + 1 = x
  OBVIOUS
<1>7. QED
  BY <1>5, <1>6

\* The sizes of the subsets of a finite set: one less without one element.
LEMMA Sizes ==
  ASSUME NEW S, IsFiniteSet(S)
  PROVE  \E size \in [SUBSET S -> Nat] :
            \A s \in SUBSET S : /\ size[s] = 0 <=> s = {}
                                /\ size[s] <= size[S]
                                /\ \A x \in s : size[s \ {x}] = size[s] - 1
<1> DEFINE size == [s \in SUBSET S |-> Cardinality(s)]
<1>1. \A s \in SUBSET S : /\ IsFiniteSet(s)
                          /\ Cardinality(s) \in Nat
                          /\ Cardinality(s) = 0 <=> s = {}
                          /\ Cardinality(s) <= Cardinality(S)
  BY FS_Subset, FS_CardinalityType, FS_EmptySet
<1>2. \A s \in SUBSET S : \A x \in s : Cardinality(s \ {x}) = Cardinality(s) - 1
  <2> TAKE s \in SUBSET S
  <2> TAKE x \in s
  <2>1. Cardinality(s \ {x}) = IF x \in s THEN Cardinality(s) - 1 ELSE Cardinality(s)
    BY <1>1, FS_RemoveElement
  <2>2. QED
    BY <2>1
<1>3. size \in [SUBSET S -> Nat]
  BY <1>1
<1>4. \A s \in SUBSET S : size[s] = Cardinality(s)
  OBVIOUS
<1> HIDE DEF size
<1>5. \A s \in SUBSET S : s \in SUBSET S /\ S \in SUBSET S /\ \A x \in s : s \ {x} \in SUBSET S
  OBVIOUS
<1>6. \A s \in SUBSET S : /\ size[s] = 0 <=> s = {}
                          /\ size[s] <= size[S]
                          /\ \A x \in s : size[s \ {x}] = size[s] - 1
  BY <1>1, <1>2, <1>4, <1>5
<1>7. QED
  BY <1>3, <1>6

\* What the definition of a fold says of its partial results.
IsFold(h, S, base, c, G) ==
    \A s \in SUBSET S : h[s] = IF s = {} THEN base ELSE G[<<c[s], h[s \ {c[s]}]>>]

\* The same over the numbers from 1 to n, the greatest first.
IsFoldLeft(h, n, base, G) ==
    \A s \in SUBSET (1 .. n) : h[s] = IF s = {} THEN base ELSE G[<<Max(s), h[s \ {Max(s)}]>>]

\* A recursion over the subsets of a finite set, as the definition of a fold has it.
LEMMA FoldExists ==
  ASSUME NEW S, IsFiniteSet(S), NEW V, NEW base \in V,
         NEW c \in [(SUBSET S) \ {{}} -> S], \A s \in (SUBSET S) \ {{}} : c[s] \in s,
         NEW G \in [S \X V -> V]
  PROVE  \E h \in [SUBSET S -> V] : IsFold(h, S, base, c, G)
<1>1. PICK size \in [SUBSET S -> Nat] :
            \A s \in SUBSET S : /\ size[s] = 0 <=> s = {}
                                /\ size[s] <= size[S]
                                /\ \A x \in s : size[s \ {x}] = size[s] - 1
  BY Sizes
<1> DEFINE Small(n) == {s \in SUBSET S : size[s] <= n}
           Folds(n, h) == \A s \in Small(n) :
                              h[s] = IF s = {} THEN base ELSE G[<<c[s], h[s \ {c[s]}]>>]
           D == {n \in Nat : \E h \in [Small(n) -> V] : Folds(n, h)}
<1>2. 0 \in D
  <2>1. \A s \in Small(0) : s = {}
    BY <1>1
  <2>2. [s \in Small(0) |-> base] \in [Small(0) -> V] /\ Folds(0, [s \in Small(0) |-> base])
    BY <2>1
  <2>3. QED
    BY <2>2
<1>3. ASSUME NEW n \in Nat, NEW h \in [Small(n) -> V], Folds(n, h)
      PROVE  \E g \in [Small(n + 1) -> V] : Folds(n + 1, g)
  <2> DEFINE Value(s) == IF s = {} THEN base ELSE G[<<c[s], h[s \ {c[s]}]>>]
             g == [s \in Small(n + 1) |-> Value(s)]
  <2>1. \A s \in Small(n) : s \in Small(n + 1) /\ h[s] = Value(s)
    <3>1. \A s \in Small(n) : h[s] = Value(s)
      BY <1>3
    <3>2. \A s \in Small(n) : s \in Small(n + 1)
      OBVIOUS
    <3>3. QED
      BY <3>1, <3>2
  <2>2. \A s \in Small(n + 1) : s # {} => s \ {c[s]} \in Small(n) /\ c[s] \in S
    <3> SUFFICES ASSUME NEW s \in SUBSET S, size[s] <= n + 1, s # {}
                 PROVE  s \ {c[s]} \in SUBSET S /\ size[s \ {c[s]}] <= n /\ c[s] \in S
      OBVIOUS
    <3>1. c[s] \in s
      OBVIOUS
    <3>2. size[s \ {c[s]}] = size[s] - 1 /\ size[s] \in Nat
      BY <1>1, <3>1
    <3>3. QED
      BY <3>1, <3>2
  <2> HIDE DEF Small
  <2>3. g \in [Small(n + 1) -> V]
    BY <2>2
  <2>4. \A s \in Small(n) : g[s] = h[s]
    BY <2>1
  <2>5. Folds(n + 1, g)
    BY <2>2, <2>4
  <2> HIDE DEF g
  <2>6. QED
    BY <2>3, <2>5
<1>4. D = Nat
  <2>1. \A n \in D : n + 1 \in D
    <3> HIDE DEF Small
    <3> SUFFICES ASSUME NEW n \in D PROVE n + 1 \in Nat /\ \E g \in [Small(n + 1) -> V] : Folds(n + 1, g)
      OBVIOUS
    <3>1. PICK h \in [Small(n) -> V] : Folds(n, h)
      OBVIOUS
    <3> HIDE DEF Folds
    <3>2. QED
      BY <1>3, <3>1
  <2>2. D \in SUBSET Nat
    OBVIOUS
  <2> HIDE DEF D
  <2>3. QED
    BY <1>2, <2>1, <2>2, NaturalInduction
<1>5. size[S] \in D
  <2> HIDE DEF D
  <2>1. QED
    BY <1>4
<1>6. Small(size[S]) = SUBSET S
  BY <1>1
<1> HIDE DEF Small
<1>7. PICK h \in [Small(size[S]) -> V] : Folds(size[S], h)
  BY <1>5
<1>8. QED
  BY <1>6, <1>7 DEF IsFold

\* A set of numbers from 1 to n that is not empty has a greatest one.
LEMMA MaxOfInterval ==
  ASSUME NEW n \in Nat
  PROVE  /\ \A k \in 1 .. n : Max(1 .. k) = k
         /\ \A s \in (SUBSET (1 .. n)) \ {{}} : Max(s) \in s
<1> DEFINE Greatest(s) == {x \in s : \A y \in s : x >= y}
           D == {k \in Nat : \A s \in SUBSET (1 .. k) : s # {} => Greatest(s) # {}}
<1>1. 0 \in D
  OBVIOUS
<1>2. \A k \in D : k + 1 \in D
  <2> SUFFICES ASSUME NEW k \in D, NEW s \in SUBSET (1 .. (k + 1)), s # {} PROVE Greatest(s) # {}
    OBVIOUS
  <2>1. CASE k + 1 \in s
    <3>1. k + 1 \in Greatest(s)
      BY <2>1
    <3>2. QED
      BY <3>1
  <2>2. CASE k + 1 \notin s
    <3>1. s \in SUBSET (1 .. k)
      BY <2>2
    <3>2. QED
      BY <3>1
  <2>3. QED
    BY <2>1, <2>2
<1>3. D = Nat
  <2>1. D \in SUBSET Nat
    OBVIOUS
  <2> HIDE DEF D
  <2>2. QED
    BY <1>1, <1>2, <2>1, NaturalInduction
<1>4. \A s \in (SUBSET (1 .. n)) \ {{}} : Greatest(s) # {}
  <2>1. n \in D
    BY <1>3
  <2>2. QED
    BY <2>1
<1>5. \A s \in (SUBSET (1 .. n)) \ {{}} : Max(s) \in Greatest(s)
  BY <1>4 DEF Max
<1>6. \A k \in 1 .. n : Max(1 .. k) \in Greatest(1 .. k) /\ k \in 1 .. k
  BY <1>5
<1>7. QED
  BY <1>5, <1>6

\* The recursion of a fold from the left over n elements.
LEMMA FoldLeftExists ==
  ASSUME NEW n \in Nat, NEW V, NEW base \in V, NEW G \in [(1 .. n) \X V -> V]
  PROVE  \E h \in [SUBSET (1 .. n) -> V] : IsFoldLeft(h, n, base, G)
<1> DEFINE S == 1 .. n
           c == [s \in (SUBSET S) \ {{}} |-> Max(s)]
<1>1. IsFiniteSet(S)
  BY FS_Interval
<1>2. c \in [(SUBSET S) \ {{}} -> S]
  BY MaxOfInterval
<1>3. \A s \in (SUBSET S) \ {{}} : c[s] = Max(s) /\ c[s] \in s
  BY MaxOfInterval
<1>4. G \in [S \X V -> V]
  OBVIOUS
<1> HIDE DEF S, c
<1>5. PICK h \in [SUBSET S -> V] : IsFold(h, S, base, c, G)
  BY <1>1, <1>2, <1>3, <1>4, FoldExists
<1>6. \A s \in SUBSET S : h[s] = IF s = {} THEN base ELSE G[<<Max(s), h[s \ {Max(s)}]>>]
  BY <1>3, <1>5 DEF IsFold
<1>7. QED
  BY <1>6 DEF S, IsFoldLeft

-----------------------------------------------------------------------------
(* Sums *)

\* What holds of no element and stays with one more holds of a finite set.
LEMMA SetInduction ==
  ASSUME NEW S, IsFiniteSet(S), NEW D \in SUBSET (SUBSET S),
         {} \in D, \A s \in D : \A x \in S \ s : s \cup {x} \in D
  PROVE  S \in D
<1>1. PICK size \in [SUBSET S -> Nat] :
            \A s \in SUBSET S : /\ size[s] = 0 <=> s = {}
                                /\ size[s] <= size[S]
                                /\ \A x \in s : size[s \ {x}] = size[s] - 1
  BY Sizes
<1> DEFINE N == {n \in Nat : \A s \in SUBSET S : size[s] = n => s \in D}
<1>2. 0 \in N
  BY <1>1
<1>3. \A n \in N : n + 1 \in N
  <2> SUFFICES ASSUME NEW n \in N, NEW s \in SUBSET S, size[s] = n + 1 PROVE s \in D
    OBVIOUS
  <2>1. PICK x : x \in s
    BY <1>1
  <2>2. size[s \ {x}] = n /\ s \ {x} \in SUBSET S
    BY <1>1, <2>1
  <2>3. s \ {x} \in D
    BY <2>2
  <2>4. (s \ {x}) \cup {x} = s /\ x \in S \ (s \ {x})
    BY <2>1
  <2>5. QED
    BY <2>3, <2>4
<1>4. N = Nat
  <2>1. N \in SUBSET Nat
    OBVIOUS
  <2> HIDE DEF N
  <2>2. QED
    BY <1>2, <1>3, <2>1, NaturalInduction
<1>5. size[S] \in N
  BY <1>4
<1>6. QED
  BY <1>5

\* The sums of v over the subsets of S, whichever element is added first.
IsSum(h, S, v) ==
    /\ h \in [SUBSET S -> Int]
    /\ h[{}] = 0
    /\ \A s \in SUBSET S : \A x \in s : h[s] = v[x] + h[s \ {x}]

SumOf(v, S) == (CHOOSE h : IsSum(h, S, v))[S]

\* There are such sums.
LEMMA SumExists ==
  ASSUME NEW S, IsFiniteSet(S), NEW v \in [S -> Int]
  PROVE  \E h : IsSum(h, S, v)
<1> DEFINE c == [s \in (SUBSET S) \ {{}} |-> CHOOSE x \in s : TRUE]
           G == [p \in S \X Int |-> v[p[1]] + p[2]]
<1>1. \A s \in (SUBSET S) \ {{}} : c[s] \in s
  OBVIOUS
<1>2. c \in [(SUBSET S) \ {{}} -> S]
  BY <1>1
<1>3. G \in [S \X Int -> Int] /\ 0 \in Int
  OBVIOUS
<1>4. \A x \in S, n \in Int : G[<<x, n>>] = v[x] + n
  OBVIOUS
<1> HIDE DEF c, G
<1>5. PICK h \in [SUBSET S -> Int] : IsFold(h, S, 0, c, G)
  BY <1>1, <1>2, <1>3, FoldExists
<1>6. h[{}] = 0 /\ \A s \in SUBSET S : s # {} => h[s] = v[c[s]] + h[s \ {c[s]}]
  BY <1>1, <1>4, <1>5 DEF IsFold
<1>7. PICK size \in [SUBSET S -> Nat] :
            \A s \in SUBSET S : /\ size[s] = 0 <=> s = {}
                                /\ size[s] <= size[S]
                                /\ \A x \in s : size[s \ {x}] = size[s] - 1
  BY Sizes
<1> DEFINE N == {n \in Nat : \A s \in SUBSET S : size[s] = n =>
                                \A x \in s : h[s] = v[x] + h[s \ {x}]}
<1>8. 0 \in N
  BY <1>7
<1>9. ASSUME NEW n \in N PROVE n + 1 \in N
  <2> SUFFICES ASSUME NEW s \in SUBSET S, size[s] = n + 1, NEW x \in s
               PROVE  h[s] = v[x] + h[s \ {x}]
    OBVIOUS
  <2> DEFINE y == c[s]
  <2>1. y \in s /\ h[s] = v[y] + h[s \ {y}]
    BY <1>1, <1>6
  <2> HIDE DEF y
  <2>2. CASE x = y
    BY <2>1, <2>2
  <2>3. CASE x # y
    <3> DEFINE u == s \ {x}
               w == s \ {y}
               z == u \ {y}
    <3>1. u \in SUBSET S /\ w \in SUBSET S /\ z \in SUBSET S /\ z = w \ {x} /\ y \in u /\ x \in w
      BY <2>1, <2>3
    <3>2. size[u] = n /\ size[w] = n
      <4>1. size[u] = size[s] - 1 /\ size[w] = size[s] - 1
        BY <1>7, <2>1
      <4>2. QED
        BY <4>1
    <3> HIDE DEF u, w, z
    <3>3. h[u] = v[y] + h[z]
      BY <3>1, <3>2 DEF z
    <3>4. h[w] = v[x] + h[z]
      BY <3>1, <3>2
    <3>5. h[z] \in Int /\ v[x] \in Int /\ v[y] \in Int
      BY <2>1, <3>1
    <3>6. h[s] = v[x] + h[u]
      BY <2>1, <3>3, <3>4, <3>5 DEF w
    <3>7. QED
      BY <3>6 DEF u
  <2>4. QED
    BY <2>2, <2>3
<1>10. N = Nat
  <2>1. N \in SUBSET Nat
    OBVIOUS
  <2> HIDE DEF N
  <2>2. QED
    BY <1>8, <1>9, <2>1, NaturalInduction
<1>11. \A s \in SUBSET S : \A x \in s : h[s] = v[x] + h[s \ {x}]
  <2> TAKE s \in SUBSET S
  <2>1. size[s] \in N
    BY <1>10
  <2>2. QED
    BY <2>1
<1>12. QED
  BY <1>6, <1>11 DEF IsSum

\* A sum over a part of the domain of v.
LEMMA SumUnique ==
  ASSUME NEW U, NEW v \in [U -> Int], NEW S \in SUBSET U, IsFiniteSet(S),
         NEW T, NEW h, IsSum(h, T, v), S \in SUBSET T
  PROVE  h[S] = SumOf(v, S)
<1> DEFINE k == CHOOSE g : IsSum(g, S, v)
           w == [x \in S |-> v[x]]
           D == {s \in SUBSET S : k[s] = h[s]}
<1>1. IsSum(k, S, v)
  <2>1. w \in [S -> Int]
    OBVIOUS
  <2>2. PICK g : IsSum(g, S, w)
    BY <2>1, SumExists
  <2>3. IsSum(g, S, v)
    BY <2>2 DEF IsSum
  <2>4. QED
    BY <2>3
<1> HIDE DEF k
<1>2. {} \in D
  BY <1>1 DEF IsSum
<1>3. \A s \in D : \A x \in S \ s : s \cup {x} \in D
  <2> SUFFICES ASSUME NEW s \in D, NEW x \in S \ s PROVE k[s \cup {x}] = h[s \cup {x}]
    OBVIOUS
  <2> DEFINE t == s \cup {x}
  <2>1. t \in SUBSET S /\ t \in SUBSET T /\ x \in t /\ t \ {x} = s
    OBVIOUS
  <2> HIDE DEF t
  <2>2. k[t] = v[x] + k[s] /\ h[t] = v[x] + h[s] /\ k[s] = h[s]
    BY <1>1, <2>1 DEF IsSum
  <2>3. QED
    BY <2>2 DEF t
<1>4. S \in D
  <2>1. D \in SUBSET (SUBSET S)
    OBVIOUS
  <2> HIDE DEF D
  <2>2. QED
    BY <1>2, <1>3, <2>1, SetInduction
<1>5. QED
  BY <1>4 DEF SumOf, k

\* What there is to know of a sum.
LEMMA SumRules ==
  ASSUME NEW U, IsFiniteSet(U), NEW v \in [U -> Int]
  PROVE  /\ SumOf(v, {}) = 0
         /\ \A S \in SUBSET U : SumOf(v, S) \in Int
         /\ \A S \in SUBSET U : \A x \in S : SumOf(v, S) = v[x] + SumOf(v, S \ {x})
         /\ \A S \in SUBSET U : \A x \in U \ S : SumOf(v, S \cup {x}) = v[x] + SumOf(v, S)
<1>1. PICK h : IsSum(h, U, v)
  BY SumExists
<1>2. \A S \in SUBSET U : h[S] = SumOf(v, S)
  <2> TAKE S \in SUBSET U
  <2>1. IsFiniteSet(S)
    BY FS_Subset
  <2>2. QED
    BY <1>1, <2>1, SumUnique
<1>3. SumOf(v, {}) = 0
  BY <1>1, <1>2 DEF IsSum
<1>4. \A S \in SUBSET U : SumOf(v, S) \in Int
  BY <1>1, <1>2 DEF IsSum
<1>5. \A S \in SUBSET U : \A x \in S : SumOf(v, S) = v[x] + SumOf(v, S \ {x})
  BY <1>1, <1>2 DEF IsSum
<1>6. \A S \in SUBSET U : \A x \in U \ S : SumOf(v, S \cup {x}) = v[x] + SumOf(v, S)
  <2> TAKE S \in SUBSET U
  <2> TAKE x \in U \ S
  <2>1. S \cup {x} \in SUBSET U /\ x \in S \cup {x} /\ (S \cup {x}) \ {x} = S
    OBVIOUS
  <2>2. QED
    BY <1>5, <2>1
<1>7. QED
  BY <1>3, <1>4, <1>5, <1>6

\* The sum of two parts.
LEMMA SumOfUnion ==
  ASSUME NEW U, IsFiniteSet(U), NEW v \in [U -> Int],
         NEW S \in SUBSET U, NEW T \in SUBSET U, S \cap T = {}
  PROVE  SumOf(v, S \cup T) = SumOf(v, S) + SumOf(v, T)
<1> DEFINE D == {t \in SUBSET T : SumOf(v, S \cup t) = SumOf(v, S) + SumOf(v, t)}
<1>1. IsFiniteSet(T)
  BY FS_Subset
<1>2. {} \in D
  <2>1. S \cup {} = S
    OBVIOUS
  <2>2. QED
    BY <2>1, SumRules
<1>3. \A t \in D : \A x \in T \ t : t \cup {x} \in D
  <2> SUFFICES ASSUME NEW t \in D, NEW x \in T \ t
               PROVE  SumOf(v, S \cup (t \cup {x})) = SumOf(v, S) + SumOf(v, t \cup {x})
    OBVIOUS
  <2>1. S \cup (t \cup {x}) = (S \cup t) \cup {x} /\ S \cup t \in SUBSET U /\ x \in U \ (S \cup t)
         /\ t \in SUBSET U /\ x \in U \ t
    OBVIOUS
  <2>2. SumOf(v, (S \cup t) \cup {x}) = v[x] + SumOf(v, S \cup t)
    BY <2>1, SumRules
  <2>3. SumOf(v, t \cup {x}) = v[x] + SumOf(v, t)
    BY <2>1, SumRules
  <2>4. SumOf(v, S) \in Int /\ SumOf(v, t) \in Int /\ v[x] \in Int
    BY <2>1, SumRules
  <2>5. SumOf(v, S \cup t) = SumOf(v, S) + SumOf(v, t)
    OBVIOUS
  <2>6. v[x] + (SumOf(v, S) + SumOf(v, t)) = SumOf(v, S) + (v[x] + SumOf(v, t))
    BY <2>4
  <2>7. SumOf(v, S \cup (t \cup {x})) = v[x] + SumOf(v, S \cup t)
    BY <2>1, <2>2
  <2>8. QED
    BY <2>3, <2>5, <2>6, <2>7
<1>4. T \in D
  <2>1. D \in SUBSET (SUBSET T)
    OBVIOUS
  <2> HIDE DEF D
  <2>2. QED
    BY <1>1, <1>2, <1>3, <2>1, SetInduction
<1>5. QED
  BY <1>4

\* The sum over the classes of a function is the sum of all.
LEMMA SumByClasses ==
  ASSUME NEW U, IsFiniteSet(U), NEW v \in [U -> Int], NEW G, IsFiniteSet(G),
         NEW class \in [U -> G]
  PROVE  SumOf([g \in G |-> SumOf(v, {x \in U : class[x] = g})], G) = SumOf(v, U)
<1> DEFINE Of(g) == {x \in U : class[x] = g}
           w == [g \in G |-> SumOf(v, Of(g))]
           In(s) == {x \in U : class[x] \in s}
           D == {s \in SUBSET G : SumOf(w, s) = SumOf(v, In(s))}
<1>1. w \in [G -> Int]
  BY SumRules
<1>2. {} \in D
  <2>1. In({}) = {}
    OBVIOUS
  <2>2. SumOf(w, {}) = 0 /\ SumOf(v, {}) = 0
    BY <1>1, SumRules
  <2>3. QED
    BY <2>1, <2>2
<1>3. \A s \in D : \A g \in G \ s : s \cup {g} \in D
  <2> SUFFICES ASSUME NEW s \in D, NEW g \in G \ s
               PROVE  SumOf(w, s \cup {g}) = SumOf(v, In(s \cup {g}))
    OBVIOUS
  <2>1. In(s \cup {g}) = In(s) \cup Of(g) /\ In(s) \cap Of(g) = {}
         /\ In(s) \in SUBSET U /\ Of(g) \in SUBSET U
    OBVIOUS
  <2>2. SumOf(w, s) = SumOf(v, In(s)) /\ w[g] = SumOf(v, Of(g))
    OBVIOUS
  <2> HIDE DEF w, In, Of
  <2>3. SumOf(w, s \cup {g}) = w[g] + SumOf(w, s)
    BY <1>1, SumRules
  <2>4. SumOf(v, In(s) \cup Of(g)) = SumOf(v, In(s)) + SumOf(v, Of(g))
    BY <2>1, SumOfUnion
  <2>5. SumOf(v, In(s)) \in Int /\ SumOf(v, Of(g)) \in Int
    BY <2>1, SumRules
  <2>6. SumOf(v, Of(g)) + SumOf(v, In(s)) = SumOf(v, In(s)) + SumOf(v, Of(g))
    BY <2>5
  <2>7. SumOf(v, In(s \cup {g})) = SumOf(v, In(s)) + SumOf(v, Of(g))
    BY <2>1, <2>4
  <2>8. QED
    BY <2>2, <2>3, <2>6, <2>7
<1>4. G \in D
  <2>1. D \in SUBSET (SUBSET G)
    OBVIOUS
  <2> HIDE DEF D
  <2>2. QED
    BY <1>2, <1>3, <2>1, SetInduction
<1>5. In(G) = U
  OBVIOUS
<1>6. QED
  BY <1>4, <1>5

\* Whatever adds the elements one at a time gets the sum.
LEMMA AnyOrderSums ==
  ASSUME NEW U, IsFiniteSet(U), NEW v \in [U -> Int], NEW h, h[{}] = 0,
         \A s \in SUBSET U : s # {} => \E x \in s : h[s] = v[x] + h[s \ {x}]
  PROVE  h[U] = SumOf(v, U)
<1>1. PICK size \in [SUBSET U -> Nat] :
            \A s \in SUBSET U : /\ size[s] = 0 <=> s = {}
                                /\ size[s] <= size[U]
                                /\ \A x \in s : size[s \ {x}] = size[s] - 1
  BY Sizes
<1> DEFINE N == {n \in Nat : \A s \in SUBSET U : size[s] = n => h[s] = SumOf(v, s)}
<1>2. 0 \in N
  BY <1>1, SumRules
<1>3. \A n \in N : n + 1 \in N
  <2> SUFFICES ASSUME NEW n \in N, NEW s \in SUBSET U, size[s] = n + 1
               PROVE  h[s] = SumOf(v, s)
    OBVIOUS
  <2>1. s # {}
    BY <1>1
  <2>2. PICK x \in s : h[s] = v[x] + h[s \ {x}]
    BY <2>1
  <2>3. size[s \ {x}] = size[s] - 1 /\ s \ {x} \in SUBSET U
    BY <1>1
  <2>4. h[s \ {x}] = SumOf(v, s \ {x})
    BY <2>3
  <2>5. SumOf(v, s) = v[x] + SumOf(v, s \ {x})
    BY SumRules
  <2>6. QED
    BY <2>2, <2>4, <2>5
<1>4. N = Nat
  <2>1. N \in SUBSET Nat
    OBVIOUS
  <2> HIDE DEF N
  <2>2. QED
    BY <1>2, <1>3, <2>1, NaturalInduction
<1>5. size[U] \in N
  BY <1>4
<1>6. QED
  BY <1>5

-----------------------------------------------------------------------------
(* Aggregates *)

Numbers == (Int \X Int) \cup {Null}

\* A least and a greatest value.
LEMMA Extremes ==
  ASSUME NEW S, IsFiniteSet(S), S # {}, NEW v \in [S -> Int]
  PROVE  /\ \E x \in S : \A y \in S : v[x] =< v[y]
         /\ \E x \in S : \A y \in S : v[x] >= v[y]
<1> DEFINE D == {s \in SUBSET S : s # {} => /\ \E x \in s : \A y \in s : v[x] =< v[y]
                                           /\ \E x \in s : \A y \in s : v[x] >= v[y]}
<1>1. {} \in D
  OBVIOUS
<1>2. \A s \in D : \A z \in S \ s : s \cup {z} \in D
  <2> SUFFICES ASSUME NEW s \in D, NEW z \in S \ s
               PROVE  /\ \E x \in s \cup {z} : \A y \in s \cup {z} : v[x] =< v[y]
                      /\ \E x \in s \cup {z} : \A y \in s \cup {z} : v[x] >= v[y]
    OBVIOUS
  <2>1. CASE s = {}
    BY <2>1
  <2>2. CASE s # {}
    <3>1. PICK a \in s : \A y \in s : v[a] =< v[y]
      BY <2>2
    <3>2. PICK b \in s : \A y \in s : v[b] >= v[y]
      BY <2>2
    <3>3. \A y \in s \cup {z} : v[y] \in Int
      OBVIOUS
    <3>4. \E x \in s \cup {z} : \A y \in s \cup {z} : v[x] =< v[y]
      <4>1. CASE v[a] =< v[z]
        BY <3>1, <4>1
      <4>2. CASE ~ (v[a] =< v[z])
        <5>1. \A y \in s \cup {z} : v[z] =< v[y]
          BY <3>1, <3>3, <4>2
        <5>2. QED
          BY <5>1
      <4>3. QED
        BY <4>1, <4>2
    <3>5. \E x \in s \cup {z} : \A y \in s \cup {z} : v[x] >= v[y]
      <4>1. CASE v[b] >= v[z]
        BY <3>2, <4>1
      <4>2. CASE ~ (v[b] >= v[z])
        <5>1. \A y \in s \cup {z} : v[z] >= v[y]
          BY <3>2, <3>3, <4>2
        <5>2. QED
          BY <5>1
      <4>3. QED
        BY <4>1, <4>2
    <3>6. QED
      BY <3>4, <3>5
  <2>3. QED
    BY <2>1, <2>2
<1>3. S \in D
  <2>1. D \in SUBSET (SUBSET S)
    OBVIOUS
  <2> HIDE DEF D
  <2>2. QED
    BY <1>1, <1>2, <2>1, SetInduction
<1>4. QED
  BY <1>3

Present(m, rows) == {r \in rows : r.value[m] # Null}
Column(m, rows) == [r \in Present(m, rows) |-> r.value[m]]

Values(m, rows) == {r.value[m] : r \in Present(m, rows)}
Total(m, rows) == SumOf(Column(m, rows), Present(m, rows))

\* The total that an aggregate works with is the sum over the rows with a value.
LEMMA AggregateCases ==
  ASSUME NEW rows, IsFiniteSet(rows), NEW m, \A r \in rows : r.value[m] \in Int \cup {Null},
         NEW operation
  PROVE  /\ operation = "count" => Aggregate(operation, m, rows) = Whole(Cardinality(Present(m, rows)))
         /\ operation = "count_distinct" =>
               Aggregate(operation, m, rows) = Whole(Cardinality(Values(m, rows)))
         /\ operation \notin {"count", "count_distinct"} =>
               Aggregate(operation, m, rows) =
                  IF Present(m, rows) = {} THEN Null
                  ELSE IF operation = "sum" THEN Whole(Total(m, rows))
                  ELSE IF operation = "average" THEN <<Total(m, rows), Cardinality(Present(m, rows))>>
                  ELSE IF operation = "min" THEN Whole(Min(Values(m, rows)))
                  ELSE Whole(Max(Values(m, rows)))
<1> DEFINE present == Present(m, rows)
           v == Column(m, rows)
           Eq(g) == g = [s \in SUBSET present |->
                           IF s = {} THEN 0
                           ELSE (CHOOSE r \in s : TRUE).value[m] + g[s \ {CHOOSE r \in s : TRUE}]]
           iter == CHOOSE g : Eq(g)
           h == [s \in SUBSET present |-> SumOf(v, s)]
<1>1. IsFiniteSet(present) /\ v \in [present -> Int]
  BY FS_Subset DEF Present, Column
<1>2. \A s \in SUBSET present : s # {} => /\ (CHOOSE r \in s : TRUE) \in s
                                         /\ \A r \in s : v[r] = r.value[m]
  BY DEF Column
<1>3. SumOf(v, {}) = 0 /\ \A s \in SUBSET present : \A x \in s : SumOf(v, s) = v[x] + SumOf(v, s \ {x})
  BY <1>1, SumRules
<1>4. Eq(h)
  <2> HIDE DEF v
  <2>1. QED
  BY <1>2, <1>3
<1>5. Eq(iter)
  BY <1>4
<1>6. iter[present] = SumOf(v, present)
  <2> HIDE DEF iter, v
  <2>1. iter[{}] = 0
    BY <1>5
  <2>2. \A s \in SUBSET present : s # {} => \E x \in s : iter[s] = v[x] + iter[s \ {x}]
    <3> SUFFICES ASSUME NEW s \in SUBSET present, s # {}
                 PROVE  \E x \in s : iter[s] = v[x] + iter[s \ {x}]
      OBVIOUS
    <3> DEFINE x == CHOOSE r \in s : TRUE
    <3>1. x \in s /\ v[x] = x.value[m]
      BY <1>2
    <3>2. iter[s] = x.value[m] + iter[s \ {x}]
      BY <1>5
    <3> HIDE DEF x
    <3>3. QED
      BY <3>1, <3>2
  <2>3. QED
    BY <1>1, <2>1, <2>2, AnyOrderSums
<1> DEFINE values == {r.value[m] : r \in present}
           total == SumOf(v, present)
           Chosen(t) == CASE operation = "count"          -> Whole(Cardinality(present))
                          [] operation = "count_distinct" -> Whole(Cardinality(values))
                          [] operation = "sum"            -> Whole(t)
                          [] operation = "average"        -> <<t, Cardinality(present)>>
                          [] operation = "min"            -> Whole(Min(values))
                          [] OTHER                        -> Whole(Max(values))
           chosen == Chosen(total)
<1>7. Aggregate(operation, m, rows) =
          IF present = {} /\ operation \notin {"count", "count_distinct"} THEN Null ELSE chosen
  <2> DEFINE tot == MapThenFoldSet(+, 0, LAMBDA r : r.value[m],
                                  LAMBDA S : CHOOSE r \in S : TRUE, present)
  <2>1. tot = iter[present]
    BY DEF MapThenFoldSet
  <2>2. tot = total
    BY <1>6, <2>1
  <2>3. Aggregate(operation, m, rows) =
          IF present = {} /\ operation \notin {"count", "count_distinct"} THEN Null ELSE Chosen(tot)
    BY DEF Aggregate, Present
  <2> HIDE DEF tot, total, present, values
  <2>4. QED
    BY <2>2, <2>3
<1>8. present = Present(m, rows) /\ values = Values(m, rows) /\ total = Total(m, rows)
  BY DEF Values, Total
<1>9. operation = "count" => chosen = Whole(Cardinality(present))
  OBVIOUS
<1>10. operation = "count_distinct" => chosen = Whole(Cardinality(values))
  OBVIOUS
<1>11. operation \notin {"count", "count_distinct"} =>
          chosen = IF operation = "sum" THEN Whole(total)
                   ELSE IF operation = "average" THEN <<total, Cardinality(present)>>
                   ELSE IF operation = "min" THEN Whole(Min(values))
                   ELSE Whole(Max(values))
  OBVIOUS
<1> HIDE DEF Chosen, chosen, present, values, total
<1>12. QED
  BY <1>7, <1>8, <1>9, <1>10, <1>11

\* An aggregate of a column of numbers is a number or NULL, and a number when there is
\* something to aggregate.
LEMMA AggregateIsANumber ==
  ASSUME NEW rows, IsFiniteSet(rows), NEW m, \A r \in rows : r.value[m] \in Int \cup {Null},
         NEW operation
  PROVE  /\ Aggregate(operation, m, rows) \in Numbers
         /\ (\E r \in rows : r.value[m] # Null) => Aggregate(operation, m, rows) \in Int \X Int
<1> DEFINE present == Present(m, rows)
           v == Column(m, rows)
           values  == {r.value[m] : r \in present}
<1>1. IsFiniteSet(present) /\ v \in [present -> Int]
  BY FS_Subset DEF Present, Column
<1>2. SumOf(v, present) \in Int
  BY <1>1, SumRules
<1>3. \A r \in present : v[r] = r.value[m]
  BY DEF Column
<1>4. values \in SUBSET Int
  BY <1>1, <1>3
<1>5. IsFiniteSet(values)
  <2>1. v \in Surjection(present, values)
    BY <1>1, <1>3 DEF Surjection
  <2>2. QED
    BY <1>1, <2>1, FS_Surjection
<1>6. Cardinality(present) \in Int /\ Cardinality(values) \in Int
  BY <1>1, <1>5, FS_CardinalityType
<1>7. present # {} => Min(values) \in Int /\ Max(values) \in Int
  <2> SUFFICES ASSUME present # {} PROVE Min(values) \in values /\ Max(values) \in values
    BY <1>4
  <2>1. PICK a \in present : \A y \in present : v[a] =< v[y]
    BY <1>1, Extremes
  <2>2. PICK b \in present : \A y \in present : v[b] >= v[y]
    BY <1>1, Extremes
  <2>3. v[a] \in values /\ \A y \in values : v[a] =< y
    BY <1>3, <2>1
  <2>4. v[b] \in values /\ \A y \in values : v[b] >= y
    BY <1>3, <2>2
  <2> HIDE DEF values, v
  <2>5. QED
    BY <2>3, <2>4 DEF Min, Max
<1>8. present = Present(m, rows) /\ values = Values(m, rows) /\ SumOf(v, present) = Total(m, rows)
  BY DEF Values, Total
<1> HIDE DEF present, v, values
<1>9. (\E r \in rows : r.value[m] # Null) => present # {}
  BY <1>8 DEF Present
<1>10. QED
  BY <1>2, <1>6, <1>7, <1>8, <1>9, AggregateCases DEF Numbers, Whole

-----------------------------------------------------------------------------
(* Recipes *)

\* The parts of an interval from 1 that a fold from the left goes through.
LEMMA Intervals ==
  ASSUME NEW n \in Nat, NEW i \in 1 .. n
  PROVE  /\ Max(1 .. i) = i
         /\ (1 .. i) \ {i} = 1 .. (i - 1)
         /\ 1 .. i # {}
         /\ 1 .. i \in SUBSET (1 .. n)
<1>1. Max(1 .. i) = i
  BY MaxOfInterval
<1>2. (1 .. i) \ {i} = 1 .. (i - 1) /\ i \in 1 .. i /\ 1 .. i \in SUBSET (1 .. n)
  OBVIOUS
<1>3. QED
  BY <1>1, <1>2

\* The partial results of a fold from the left, each from the one before, while they
\* are in V.
GoesOn(h, n, base, V, G) ==
    /\ h[1 .. 0] = base
    /\ \A i \in 1 .. n : h[1 .. (i - 1)] \in V => h[1 .. i] = G[<<i, h[1 .. (i - 1)]>>]

\* A value for each of the first n elements, each from the one before.
GoesThrough(f, n, base, G) ==
    /\ f[0] = base
    /\ \A i \in 1 .. n : f[i] = G[<<i, f[i - 1]>>]

HasSteps(n, V, base, G, h) ==
    \E f \in [0 .. n -> V] : GoesThrough(f, n, base, G) /\ f[n] = h[1 .. n]

\* The partial results of a fold from the left follow one from the other, and what every
\* step keeps holds of all of them.
LEMMA FoldLeftSteps ==
  ASSUME NEW n \in Nat, NEW V, NEW base \in V, NEW G \in [(1 .. n) \X V -> V],
         NEW h, GoesOn(h, n, base, V, G)
  PROVE  HasSteps(n, V, base, G, h)
<1> DEFINE D == {i \in Nat : i \in 0 .. n => h[1 .. i] \in V}
           f == [i \in 0 .. n |-> h[1 .. i]]
<1>1. 0 \in D
  BY DEF GoesOn
<1>2. ASSUME NEW i \in D PROVE i + 1 \in D
  <2> SUFFICES ASSUME i + 1 \in 0 .. n PROVE h[1 .. (i + 1)] \in V
    OBVIOUS
  <2>1. i \in Nat /\ i \in 0 .. n /\ i + 1 \in 1 .. n /\ (i + 1) - 1 = i
    OBVIOUS
  <2>2. h[1 .. i] \in V
    BY <2>1
  <2>3. h[1 .. (i + 1)] = G[<<i + 1, h[1 .. i]>>]
    BY <2>1, <2>2 DEF GoesOn
  <2>4. QED
    BY <2>1, <2>2, <2>3
<1>3. D = Nat
  <2>1. D \in SUBSET Nat
    OBVIOUS
  <2> HIDE DEF D
  <2>2. QED
    BY <1>1, <1>2, <2>1, NaturalInduction
<1>4. \A i \in 0 .. n : h[1 .. i] \in V
  BY <1>3
<1>5. \A i \in 1 .. n : i \in 0 .. n /\ i - 1 \in 0 .. n
  OBVIOUS
<1>6. \A i \in 1 .. n : h[1 .. i] = G[<<i, h[1 .. (i - 1)]>>]
  BY <1>4, <1>5 DEF GoesOn
<1>7. f \in [0 .. n -> V] /\ f[0] = base /\ f[n] = h[1 .. n]
  BY <1>4 DEF GoesOn
<1>8. \A i \in 1 .. n : f[i] = G[<<i, f[i - 1]>>]
  BY <1>5, <1>6
<1> HIDE DEF f
<1>9. QED
  BY <1>7, <1>8 DEF GoesThrough, HasSteps

\* A KPI that can be calculated: an aggregate is of a measure of the fact.
Calculable(measures, k) == k.kind = "aggregate" => k.args[1] \in DOMAIN measures

\* Compilation goes through a proposal, and keeps KPI of it that can be calculated.
CompileGoes(f, measures, K, kpis) ==
    LET n == Len(kpis)
        V == [recipes : Seq({k \in K : Calculable(measures, k)}), issues : SUBSET {k.code : k \in K}]
        Step(v, i) == CompileOne(measures, v, kpis[i])
    IN  /\ f \in [0 .. n -> V]
        /\ f[0] = [recipes |-> <<>>, issues |-> {}]
        /\ f[n] = Compile(measures, kpis)
        /\ \A i \in 1 .. n : f[i] = Step(f[i - 1], i)

LEMMA CompileSteps ==
  ASSUME NEW measures, NEW K, NEW kpis \in Seq(K)
  PROVE  \E f : CompileGoes(f, measures, K, kpis)
<1> DEFINE n == Len(kpis)
           V == [recipes : Seq({k \in K : Calculable(measures, k)}), issues : SUBSET {k.code : k \in K}]
           Step(v, i) == CompileOne(measures, v, kpis[i])
           G == [p \in (1 .. n) \X V |-> Step(p[2], p[1])]
           Eq(g) == g = [s \in SUBSET (1 .. n) |->
                            IF s = {} THEN [recipes |-> <<>>, issues |-> {}] ELSE Step(g[s \ {Max(s)}], Max(s))]
           iter == CHOOSE g : Eq(g)
<1>1. n \in Nat /\ DOMAIN kpis = 1 .. n
  OBVIOUS
<1>2. Compile(measures, kpis) = iter[1 .. n]
  BY <1>1 DEF Compile, FoldLeft, MapThenFoldSet
<1>3. \A i \in 1 .. n, v \in V : Step(v, i) \in V
  <2> TAKE i \in 1 .. n, v \in V
  <2>1. kpis[i] \in K
    BY <1>1
  <2>2. [v EXCEPT !.issues = @ \cup {kpis[i].code}] \in V
    BY <2>1
  <2>3. ASSUME Calculable(measures, kpis[i])
        PROVE  [v EXCEPT !.recipes = Append(@, kpis[i])] \in V
    <3>1. Append(v.recipes, kpis[i]) \in Seq({k \in K : Calculable(measures, k)})
      BY <2>1, <2>3, AppendProperties
    <3>2. QED
      BY <3>1
  <2>4. kpis[i].kind \in DerivedKinds => Calculable(measures, kpis[i])
    BY DEF DerivedKinds, Calculable
  <2>5. kpis[i].args[1] \in DOMAIN measures => Calculable(measures, kpis[i])
    BY DEF Calculable
  <2> HIDE DEF V
  <2>6. QED
    BY <2>2, <2>3, <2>4, <2>5 DEF CompileOne
<1>6. G \in [(1 .. n) \X V -> V]
  BY <1>3
<1>7. [recipes |-> <<>>, issues |-> {}] \in V
  OBVIOUS
<1>8. \A i \in 1 .. n, v \in V : G[<<i, v>>] = Step(v, i)
  OBVIOUS
<1> HIDE DEF V, G, Step
<1>9. PICK h \in [SUBSET (1 .. n) -> V] : IsFoldLeft(h, n, [recipes |-> <<>>, issues |-> {}], G)
  <2> HIDE DEF n
  <2>1. QED
    BY <1>1, <1>6, <1>7, FoldLeftExists
<1>10. Eq(h)
  <2>1. \A s \in SUBSET (1 .. n) : s # {} => h[s] = Step(h[s \ {Max(s)}], Max(s))
    BY <1>1, <1>8, <1>9, MaxOfInterval DEF IsFoldLeft
  <2>2. QED
    BY <1>9, <2>1 DEF IsFoldLeft
<1>11. Eq(iter)
  BY <1>10
<1> HIDE DEF iter
<1>12. ASSUME NEW i \in 1 .. n PROVE iter[1 .. i] = Step(iter[1 .. (i - 1)], i)
  <2>1. Max(1 .. i) = i /\ (1 .. i) \ {i} = 1 .. (i - 1) /\ 1 .. i # {} /\ 1 .. i \in SUBSET (1 .. n)
    <3> HIDE DEF n
    <3>1. QED
      BY <1>1, Intervals
  <2>2. QED
    BY <1>11, <2>1
<1>13. GoesOn(iter, n, [recipes |-> <<>>, issues |-> {}], V, G)
  <2>1. iter[1 .. 0] = [recipes |-> <<>>, issues |-> {}]
    BY <1>11
  <2>2. QED
    BY <1>8, <1>12, <2>1 DEF GoesOn
<1>14. PICK f \in [0 .. n -> V] : GoesThrough(f, n, [recipes |-> <<>>, issues |-> {}], G) /\ f[n] = iter[1 .. n]
  <2> HIDE DEF n
  <2>1. HasSteps(n, V, [recipes |-> <<>>, issues |-> {}], G, iter)
    BY <1>1, <1>6, <1>7, <1>13, FoldLeftSteps
  <2>2. QED
    BY <2>1 DEF HasSteps
<1>15. ASSUME NEW i \in 1 .. n PROVE f[i] = Step(f[i - 1], i)
  <2> HIDE DEF n
  <2>1. i - 1 \in 0 .. n
    BY <1>1
  <2>2. f[i - 1] \in V
    BY <2>1
  <2>3. QED
    BY <1>8, <1>14, <2>2 DEF GoesThrough
<1>16. QED
  BY <1>2, <1>14, <1>15 DEF V, Step, GoesThrough, CompileGoes

\* What is kept are KPI of the proposal.
LEMMA CompileKeeps ==
  ASSUME NEW measures, NEW K, NEW kpis \in Seq(K)
  PROVE  Compile(measures, kpis).recipes \in Seq({k \in K : Calculable(measures, k)})
<1> DEFINE C == {k \in K : Calculable(measures, k)}
           V == [recipes : Seq(C), issues : SUBSET {k.code : k \in K}]
<1>1. PICK f : CompileGoes(f, measures, K, kpis)
  BY CompileSteps
<1>2. Len(kpis) \in 0 .. Len(kpis)
  OBVIOUS
<1>3. Compile(measures, kpis) \in V
  BY <1>1, <1>2 DEF CompileGoes
<1>4. QED
  BY <1>3

\* A formula of numbers is a number or nothing.
LEMMA DerivedIsANumber ==
  ASSUME NEW x \in Numbers, NEW y \in Numbers, NEW kind
  PROVE  Derived(kind, x, y) \in Numbers
<1>1. CASE IsNumber(x) /\ IsNumber(y)
  <2>1. x \in Int \X Int /\ y \in Int \X Int
    BY <1>1 DEF Numbers, IsNumber
  <2>2. /\ x[1] * y[2] \in Int /\ y[1] * x[2] \in Int /\ x[2] * y[2] \in Int
        /\ x[2] * y[1] \in Int /\ 100 * x[1] \in Int /\ (100 * x[1]) * y[2] \in Int
    BY <2>1
  <2>3. Minus(x, y) \in Int \X Int
    BY <2>1, <2>2 DEF Minus
  <2>4. Over(x, y) \in Int \X Int /\ Over(<<100 * x[1], x[2]>>, y) \in Int \X Int
    BY <2>1, <2>2 DEF Over
  <2>5. QED
    BY <2>3, <2>4 DEF Derived, Numbers
<1>2. CASE ~ (IsNumber(x) /\ IsNumber(y))
  BY <1>2 DEF Derived, Numbers
<1>3. QED
  BY <1>1, <1>2

\* Values under some of the names in C.
Valued(C) == UNION {[codes -> Numbers] : codes \in SUBSET C}

\* A value more.
LEMMA PutIsValued ==
  ASSUME NEW C, NEW v \in Valued(C), NEW c \in C, NEW x \in Numbers
  PROVE  Put(v, c, x) \in Valued(C)
<1>1. PICK codes \in SUBSET C : v \in [codes -> Numbers]
  BY DEF Valued
<1>2. Put(v, c, x) \in [codes \cup {c} -> Numbers]
  BY <1>1 DEF Put
<1>3. QED
  BY <1>2 DEF Valued

\* Nothing has no value.
LEMMA NothingIsValued ==
  ASSUME NEW C
  PROVE  <<>> \in Valued(C)
<1>1. <<>> \in [{} -> Numbers]
  OBVIOUS
<1>2. QED
  BY <1>1 DEF Valued

\* What a load gives to a KPI, from values that it has, is a number or nothing.
LEMMA LoadValueIsANumber ==
  ASSUME NEW measures, NEW K, NEW k \in {k \in K : Calculable(measures, k)},
         NEW rows, IsFiniteSet(rows),
         \A r \in rows : \A m \in DOMAIN measures : r.value[m] \in Int \cup {Null},
         NEW C, NEW v \in Valued(C)
  PROVE  LoadValue(k, v, TargetTotals(measures, rows), rows) \in Numbers
<1> DEFINE totals == TargetTotals(measures, rows)
<1>1. \A name : Lookup(Completed(v, totals), name) \in Numbers
  <2> TAKE name
  <2>1. \A m \in DOMAIN measures : totals[m] \in Numbers
    <3> TAKE m \in DOMAIN measures
    <3>1. Aggregate(measures[m].aggregation, m, rows) \in Numbers
      BY AggregateIsANumber
    <3>2. Zero \in Numbers
      BY DEF Zero, Numbers
    <3>3. QED
      BY <3>1, <3>2 DEF TargetTotals, OrZero
  <2>2. DOMAIN totals = DOMAIN measures
    BY DEF TargetTotals
  <2>3. \A c \in DOMAIN v : v[c] \in Numbers
    BY DEF Valued
  <2>4. Null \in Numbers
    BY DEF Numbers
  <2> HIDE DEF totals
  <2>5. QED
    BY <2>1, <2>2, <2>3, <2>4 DEF Lookup, Completed
<1>2. CASE k.kind = "aggregate"
  <2>1. k.args[1] \in DOMAIN measures
    BY <1>2 DEF Calculable
  <2>2. Aggregate(k.args[2], k.args[1], rows) \in Numbers
    BY <2>1, AggregateIsANumber
  <2>3. QED
    BY <1>2, <2>2 DEF LoadValue
<1>3. CASE k.kind # "aggregate"
  <2> HIDE DEF totals
  <2>1. QED
    BY <1>1, <1>3, DerivedIsANumber DEF LoadValue, totals
<1>4. QED
  BY <1>2, <1>3

\* A load gives the KPI their values one after the other.
LoadGoes(f, measures, recipes, rows) ==
    LET n == Len(recipes)
        V == Valued(RecipeCodes(recipes))
        Step(v, i) == Put(v, recipes[i].code, LoadValue(recipes[i], v, TargetTotals(measures, rows), rows))
    IN  /\ f \in [0 .. n -> V]
        /\ f[0] = <<>>
        /\ f[n] = LoadValues(measures, recipes, rows)
        /\ \A i \in 1 .. n : f[i] = Step(f[i - 1], i)

LEMMA LoadSteps ==
  ASSUME NEW measures, NEW K, NEW recipes \in Seq({k \in K : Calculable(measures, k)}),
         NEW rows, IsFiniteSet(rows),
         \A r \in rows : \A m \in DOMAIN measures : r.value[m] \in Int \cup {Null}
  PROVE  \E f : LoadGoes(f, measures, recipes, rows)
<1> DEFINE n == Len(recipes)
           V == Valued(RecipeCodes(recipes))
           Step(v, i) == Put(v, recipes[i].code, LoadValue(recipes[i], v, TargetTotals(measures, rows), rows))
           G == [p \in (1 .. n) \X V |-> Step(p[2], p[1])]
           Eq(g) == g = [s \in SUBSET (1 .. n) |->
                            IF s = {} THEN <<>> ELSE Step(g[s \ {Max(s)}], Max(s))]
           iter == CHOOSE g : Eq(g)
<1>1. n \in Nat /\ DOMAIN recipes = 1 .. n
  OBVIOUS
<1>2. LoadValues(measures, recipes, rows) = iter[1 .. n]
  BY <1>1 DEF LoadValues, FoldLeft, MapThenFoldSet
<1>3. \A i \in 1 .. n, v \in V : Step(v, i) \in V
  <2> SUFFICES ASSUME NEW i \in 1 .. n, NEW v \in V PROVE Step(v, i) \in V
    OBVIOUS
  <2>1. recipes[i].code \in RecipeCodes(recipes)
    BY <1>1 DEF RecipeCodes
  <2>2. LoadValue(recipes[i], v, TargetTotals(measures, rows), rows) \in Numbers
    <3>1. recipes[i] \in {k \in K : Calculable(measures, k)}
      BY <1>1
    <3>2. QED
      BY <3>1, LoadValueIsANumber
  <2>3. QED
    BY <2>1, <2>2, PutIsValued
<1>6. G \in [(1 .. n) \X V -> V]
  BY <1>3
<1>7. <<>> \in V
  BY NothingIsValued
<1>8. \A i \in 1 .. n, v \in V : G[<<i, v>>] = Step(v, i)
  OBVIOUS
<1> HIDE DEF V, G, Step
<1>9. PICK h \in [SUBSET (1 .. n) -> V] : IsFoldLeft(h, n, <<>>, G)
  <2> HIDE DEF n
  <2>1. QED
    BY <1>1, <1>6, <1>7, FoldLeftExists
<1>10. Eq(h)
  <2>1. \A s \in SUBSET (1 .. n) : s # {} => h[s] = Step(h[s \ {Max(s)}], Max(s))
    BY <1>1, <1>8, <1>9, MaxOfInterval DEF IsFoldLeft
  <2>2. QED
    BY <1>9, <2>1 DEF IsFoldLeft
<1>11. Eq(iter)
  BY <1>10
<1> HIDE DEF iter
<1>12. ASSUME NEW i \in 1 .. n PROVE iter[1 .. i] = Step(iter[1 .. (i - 1)], i)
  <2>1. Max(1 .. i) = i /\ (1 .. i) \ {i} = 1 .. (i - 1) /\ 1 .. i # {} /\ 1 .. i \in SUBSET (1 .. n)
    <3> HIDE DEF n
    <3>1. QED
      BY <1>1, Intervals
  <2>2. QED
    BY <1>11, <2>1
<1>13. GoesOn(iter, n, <<>>, V, G)
  <2>1. iter[1 .. 0] = <<>>
    BY <1>11
  <2>2. QED
    BY <1>8, <1>12, <2>1 DEF GoesOn
<1>14. PICK f \in [0 .. n -> V] : GoesThrough(f, n, <<>>, G) /\ f[n] = iter[1 .. n]
  <2> HIDE DEF n
  <2>1. HasSteps(n, V, <<>>, G, iter)
    BY <1>1, <1>6, <1>7, <1>13, FoldLeftSteps
  <2>2. QED
    BY <2>1 DEF HasSteps
<1>15. ASSUME NEW i \in 1 .. n PROVE f[i] = Step(f[i - 1], i)
  <2> HIDE DEF n
  <2>1. i - 1 \in 0 .. n
    BY <1>1
  <2>2. f[i - 1] \in V
    BY <2>1
  <2>3. QED
    BY <1>8, <1>14, <2>2 DEF GoesThrough
<1>16. QED
  BY <1>2, <1>14, <1>15 DEF V, Step, GoesThrough, LoadGoes

\* What a load computes has values under the codes of its KPI and no others.
LEMMA LoadValuesOfRecipes ==
  ASSUME NEW measures, NEW K, NEW recipes \in Seq({k \in K : Calculable(measures, k)}),
         NEW rows, IsFiniteSet(rows),
         \A r \in rows : \A m \in DOMAIN measures : r.value[m] \in Int \cup {Null}
  PROVE  \E codes \in SUBSET RecipeCodes(recipes) :
            LoadValues(measures, recipes, rows) \in [codes -> Numbers]
<1> DEFINE V == Valued(RecipeCodes(recipes))
<1>1. PICK f : LoadGoes(f, measures, recipes, rows)
  BY LoadSteps
<1>2. Len(recipes) \in 0 .. Len(recipes)
  OBVIOUS
<1>3. LoadValues(measures, recipes, rows) \in V
  BY <1>1, <1>2 DEF LoadGoes
<1>4. QED
  BY <1>3 DEF Valued

-----------------------------------------------------------------------------
(* Parts and totals *)

\* Two recursions that agree wherever they agreed one element before.
LEMMA SameResults ==
  ASSUME NEW S, IsFiniteSet(S), NEW h, NEW k, h[{}] = k[{}],
         \A s \in SUBSET S : s # {} => \E x \in s : h[s \ {x}] = k[s \ {x}] => h[s] = k[s]
  PROVE  h[S] = k[S]
<1>1. PICK size \in [SUBSET S -> Nat] :
            \A s \in SUBSET S : /\ size[s] = 0 <=> s = {}
                                /\ size[s] <= size[S]
                                /\ \A x \in s : size[s \ {x}] = size[s] - 1
  BY Sizes
<1> DEFINE N == {n \in Nat : \A s \in SUBSET S : size[s] = n => h[s] = k[s]}
<1>2. 0 \in N
  BY <1>1
<1>3. \A n \in N : n + 1 \in N
  <2> SUFFICES ASSUME NEW n \in N, NEW s \in SUBSET S, size[s] = n + 1 PROVE h[s] = k[s]
    OBVIOUS
  <2>1. s # {}
    BY <1>1
  <2>2. PICK x \in s : h[s \ {x}] = k[s \ {x}] => h[s] = k[s]
    BY <2>1
  <2>3. size[s \ {x}] = size[s] - 1 /\ s \ {x} \in SUBSET S
    BY <1>1
  <2>4. size[s \ {x}] = n
    BY <2>3
  <2>5. QED
    BY <2>2, <2>3, <2>4
<1>4. N = Nat
  <2>1. N \in SUBSET Nat
    OBVIOUS
  <2> HIDE DEF N
  <2>2. QED
    BY <1>2, <1>3, <2>1, NaturalInduction
<1>5. size[S] \in N
  BY <1>4
<1>6. QED
  BY <1>5

\* The sum over a part, of the values there.
LEMMA SumOfPart ==
  ASSUME NEW U, IsFiniteSet(U), NEW v \in [U -> Int], NEW S \in SUBSET U,
         NEW w \in [S -> Int], \A x \in S : w[x] = v[x]
  PROVE  SumOf(w, S) = SumOf(v, S)
<1> DEFINE h == [s \in SUBSET S |-> SumOf(v, s)]
<1>1. IsFiniteSet(S)
  BY FS_Subset
<1>2. h[{}] = 0
  BY SumRules
<1>3. \A s \in SUBSET S : s # {} => \E x \in s : h[s] = w[x] + h[s \ {x}]
  <2> SUFFICES ASSUME NEW s \in SUBSET S, NEW x \in s PROVE h[s] = w[x] + h[s \ {x}]
    OBVIOUS
  <2>1. s \in SUBSET U /\ s \ {x} \in SUBSET S /\ w[x] = v[x]
    OBVIOUS
  <2>2. SumOf(v, s) = v[x] + SumOf(v, s \ {x})
    BY <2>1, SumRules
  <2>3. QED
    BY <2>1, <2>2
<1> HIDE DEF h
<1>4. h[S] = SumOf(w, S)
  BY <1>1, <1>2, <1>3, AnyOrderSums
<1>5. QED
  BY <1>4 DEF h

\* The values of a measure in some rows: numbers or NULL.
NumbersOf(rows, m) == \A r \in rows : r.value[m] \in Int \cup {Null}

\* A card with a sum adds up what there is, and shows 0 when there is nothing.
LEMMA CardOfSum ==
  ASSUME NEW rows, IsFiniteSet(rows), NEW k, NumbersOf(rows, k.args[1]), k.args[2] = "sum"
  PROVE  Card(k, rows) = <<Total(k.args[1], rows), 1>>
<1> DEFINE m == k.args[1]
<1>1. Aggregate("sum", m, rows) = IF Present(m, rows) = {} THEN Null ELSE Whole(Total(m, rows))
  BY AggregateCases DEF NumbersOf
<1>2. Total(m, rows) \in Int /\ (Present(m, rows) = {} => Total(m, rows) = 0)
  <2>1. IsFiniteSet(Present(m, rows)) /\ Column(m, rows) \in [Present(m, rows) -> Int]
    BY FS_Subset DEF Present, Column, NumbersOf
  <2>2. QED
    BY <2>1, SumRules DEF Total
<1>3. CASE Present(m, rows) = {}
  BY <1>1, <1>2, <1>3 DEF Card, OrZero, IsNumber, Zero
<1>4. CASE Present(m, rows) # {}
  <2>1. Aggregate("sum", m, rows) = <<Total(m, rows), 1>>
    BY <1>1, <1>4 DEF Whole
  <2>2. <<Total(m, rows), 1>> # Null
    BY <1>2, NullAssumption
  <2>3. QED
    BY <2>1, <2>2 DEF Card, OrZero, IsNumber
<1>5. QED
  BY <1>3, <1>4

\* The values by the members of a dimension add up to the value over all the rows.
LEMMA PartsAddUp ==
  ASSUME NEW rows, IsFiniteSet(rows), NEW k, NumbersOf(rows, k.args[1]), k.args[2] = "sum",
         NEW d
  PROVE  LET value == Grouped(k, rows, d)
         IN  MapThenFoldSet(LAMBDA x, y : Minus(x, Minus(Zero, y)), Zero,
                            LAMBDA g : value[g], LAMBDA S : CHOOSE g \in S : TRUE,
                            DOMAIN value) = Card(k, rows)
<1> DEFINE m == k.args[1]
           G == Groups(rows, d)
           value == Grouped(k, rows, d)
           U == Present(m, rows)
           v == Column(m, rows)
           class == [r \in U |-> KeyOf(r, d)]
           w == [g \in G |-> SumOf(v, {r \in U : class[r] = g})]
           Eq(h) == h = [s \in SUBSET G |->
                           IF s = {} THEN Zero
                           ELSE Minus(value[CHOOSE g \in s : TRUE],
                                      Minus(Zero, h[s \ {CHOOSE g \in s : TRUE}]))]
           iter == CHOOSE h : Eq(h)
           sums == [s \in SUBSET G |-> <<SumOf(w, s), 1>>]
<1>1. IsFiniteSet(U) /\ v \in [U -> Int]
  BY FS_Subset DEF Present, Column, NumbersOf
<1>2. IsFiniteSet(G)
  <2> DEFINE f == [r \in rows |-> KeyOf(r, d)]
  <2>1. f \in Surjection(rows, G)
    BY DEF Groups, Surjection
  <2>2. QED
    BY <2>1, FS_Surjection
<1>3. class \in [U -> G]
  BY DEF Present, Groups
<1>4. w \in [G -> Int]
  <2> HIDE DEF U, v, class, G
  <2>1. QED
    BY <1>1, SumRules
<1>5. \A g \in G : value[g] = <<w[g], 1>>
  <2> SUFFICES ASSUME NEW g \in G PROVE value[g] = <<w[g], 1>>
    OBVIOUS
  <2> DEFINE some == {r \in rows : KeyOf(r, d) = g}
  <2>1. IsFiniteSet(some) /\ NumbersOf(some, m)
    BY FS_Subset DEF NumbersOf
  <2>2. value[g] = Card(k, some)
    BY DEF Grouped
  <2>3. Card(k, some) = <<Total(m, some), 1>>
    BY <2>1, CardOfSum
  <2>4. Present(m, some) = {r \in U : class[r] = g}
    BY DEF Present
  <2>5. Column(m, some) \in [Present(m, some) -> Int]
    BY <2>1 DEF Present, Column, NumbersOf
  <2>6. \A r \in Present(m, some) : Column(m, some)[r] = v[r]
    BY <2>4 DEF Column
  <2>7. SumOf(Column(m, some), Present(m, some)) = SumOf(v, Present(m, some))
    <3>1. Present(m, some) \in SUBSET U
      BY <2>4
    <3> HIDE DEF U, v, some
    <3>2. QED
      BY <1>1, <2>5, <2>6, <3>1, SumOfPart
  <2>8. Total(m, some) = w[g]
    BY <2>4, <2>7 DEF Total
  <2>9. QED
    BY <2>2, <2>3, <2>8
<1>6. /\ SumOf(w, {}) = 0
      /\ \A s \in SUBSET G : SumOf(w, s) \in Int
      /\ \A s \in SUBSET G : \A x \in s : SumOf(w, s) = w[x] + SumOf(w, s \ {x})
  <2> HIDE DEF w, G
  <2>1. QED
    BY <1>2, <1>4, SumRules
<1>7. \A s \in SUBSET G : \A x \in s :
          Minus(value[x], Minus(Zero, sums[s \ {x}])) = sums[s]
  <2> SUFFICES ASSUME NEW s \in SUBSET G, NEW x \in s
               PROVE  Minus(value[x], Minus(Zero, sums[s \ {x}])) = sums[s]
    OBVIOUS
  <2> DEFINE a == w[x]
             b == SumOf(w, s \ {x})
  <2>1. a \in Int /\ b \in Int /\ SumOf(w, s) = a + b
    BY <1>4, <1>6
  <2>2. value[x] = <<a, 1>> /\ sums[s \ {x}] = <<b, 1>> /\ sums[s] = <<SumOf(w, s), 1>>
    BY <1>5
  <2> HIDE DEF a, b, sums, value
  <2>3. Minus(Zero, <<b, 1>>) = <<-b, 1>>
    BY <2>1 DEF Minus, Zero
  <2>4. Minus(<<a, 1>>, <<-b, 1>>) = <<a + b, 1>>
    BY <2>1 DEF Minus
  <2>5. QED
    BY <2>1, <2>2, <2>3, <2>4
<1>8. sums[{}] = Zero
  BY <1>6 DEF Zero
<1> HIDE DEF w, value
<1>9. Eq(sums)
  <2>1. sums = [s \in SUBSET G |-> sums[s]]
    OBVIOUS
  <2>2. \A s \in SUBSET G : s # {} => (CHOOSE g \in s : TRUE) \in s
    OBVIOUS
  <2> HIDE DEF sums, G
  <2>3. QED
    BY <1>7, <1>8, <2>1, <2>2
<1>10. Eq(iter)
  BY <1>9
<1> HIDE DEF iter
<1>11. iter[G] = sums[G]
  <2>1. iter[{}] = sums[{}]
    BY <1>8, <1>10
  <2>2. \A s \in SUBSET G : s # {} =>
            \E x \in s : iter[s \ {x}] = sums[s \ {x}] => iter[s] = sums[s]
    <3> SUFFICES ASSUME NEW s \in SUBSET G, s # {}
                 PROVE  \E x \in s : iter[s \ {x}] = sums[s \ {x}] => iter[s] = sums[s]
      OBVIOUS
    <3> DEFINE x == CHOOSE g \in s : TRUE
    <3>1. x \in s
      OBVIOUS
    <3>2. iter[s] = Minus(value[x], Minus(Zero, iter[s \ {x}]))
      BY <1>10
    <3> HIDE DEF x, sums
    <3>3. QED
      BY <1>7, <3>1, <3>2
  <2> HIDE DEF G, sums
  <2>3. QED
    BY <1>2, <2>1, <2>2, SameResults
<1>12. SumOf(w, G) = SumOf(v, U)
  <2> HIDE DEF U, v, class, G
  <2>1. QED
    BY <1>1, <1>2, <1>3, SumByClasses DEF w
<1>13. Card(k, rows) = <<SumOf(v, U), 1>>
  BY CardOfSum DEF Total
<1>14. DOMAIN value = G
  BY DEF value, Grouped
<1>15. MapThenFoldSet(LAMBDA x, y : Minus(x, Minus(Zero, y)), Zero,
                      LAMBDA g : value[g], LAMBDA S : CHOOSE g \in S : TRUE, G) = iter[G]
  <2> HIDE DEF G
  <2>1. QED
    BY DEF MapThenFoldSet, iter
<1>16. QED
  BY <1>11, <1>12, <1>13, <1>14, <1>15 DEF value

-----------------------------------------------------------------------------
(* The invariant *)

Sources == [keys : [DimensionNames -> SUBSET AllKeys], facts : SUBSET Rows]

\* The dimensions that have been read are numbered from 1, blanks aside ...
Numbered ==
    /\ DOMAIN mart.keys \subseteq DimensionNames
    /\ \A d \in DOMAIN mart.keys : DOMAIN mart.keys[d] \subseteq Nat
    /\ execution.step \in {"fact", "loaded"} => DOMAIN mart.keys = DimensionNames

\* ... and they have every key of the source, if it stood still.
Covered ==
    changes = 0 =>
        \A d \in DOMAIN mart.keys : \A k \in source.keys[d] :
            \E i \in DOMAIN mart.keys[d] : Clean[mart.keys[d][i]] = Clean[k]

\* The records whose fields the load sets.
Records == "step" \in DOMAIN execution /\ {"keys", "rows"} \subseteq DOMAIN mart

MInv ==
    /\ Records
    /\ source \in Sources
    /\ \A r \in source.facts : Fits(r)
    /\ changes \in Nat
    /\ execution.step \in {"new", "prepared"} => mart = EmptyMart
    /\ Numbered
    /\ Covered
    /\ KeysResolve

LEMMA InitEstablishesMInv == Init => MInv
<1> SUFFICES ASSUME Init PROVE MInv
  OBVIOUS
<1>1. /\ Records
      /\ source \in Sources
      /\ \A r \in source.facts : Fits(r)
      /\ changes \in Nat
      /\ execution.step = "new"
      /\ mart = EmptyMart
  BY DEF Init, Sources, Records, EmptyMart
<1>2. DOMAIN mart.keys = {}
  BY <1>1 DEF EmptyMart
<1>3. QED
  BY <1>1, <1>2 DEF MInv, Numbered, Covered, KeysResolve

-----------------------------------------------------------------------------
(* The owner of the source *)

\* What a load has read stays, and nothing is claimed of it once the source changes.
LEMMA ChangeKeepsMInv ==
  ASSUME MInv, NEW new \in Sources, Change(new), \A r \in new.facts : Fits(r)'
  PROVE  MInv'
<1>1. /\ source' = new
      /\ changes' \in Nat /\ changes' # 0
      /\ UNCHANGED <<execution, mart>>
      /\ execution.step \in {"dimensions", "fact"}
  BY DEF MInv, Change, Loading
<1>2. Numbered' /\ Covered' /\ KeysResolve'
  BY <1>1 DEF MInv, Numbered, Covered, KeysResolve
<1>3. QED
  BY <1>1, <1>2 DEF MInv, Records

LEMMA OwnerKeepsMInv ==
  ASSUME MInv,
         \/ \E d \in DimensionNames : \E k \in Keys[d] : InsertKey(d, k)
         \/ \E r \in Rows : InsertFact(r) \/ DeleteFact(r)
  PROVE  MInv'
<1>1. ASSUME NEW d \in DimensionNames, NEW k \in Keys[d], InsertKey(d, k) PROVE MInv'
  <2> DEFINE new == [source EXCEPT !.keys[d] = @ \cup {k}]
  <2>1. k \in AllKeys
    BY KeysAssumption DEF AllKeys, Range
  <2>2. /\ new \in Sources
        /\ new.facts = source.facts
        /\ \A e \in DimensionNames : source.keys[e] \subseteq new.keys[e]
    BY <2>1 DEF MInv, Sources
  <2>3. Change(new)
    BY <1>1 DEF InsertKey
  <2> HIDE DEF new
  <2>4. \A r \in new.facts : Fits(r)'
    BY <2>2, <2>3 DEF MInv, Fits, Change
  <2>5. QED
    BY <2>2, <2>3, <2>4, ChangeKeepsMInv
<1>2. ASSUME NEW r \in Rows, InsertFact(r) PROVE MInv'
  <2> DEFINE new == [source EXCEPT !.facts = @ \cup {r}]
  <2>1. /\ new \in Sources
        /\ new.facts = source.facts \cup {r}
        /\ new.keys = source.keys
    BY DEF MInv, Sources
  <2>2. Change(new) /\ Fits(r)
    BY <1>2 DEF InsertFact
  <2> HIDE DEF new
  <2>3. \A q \in new.facts : Fits(q)'
    BY <2>1, <2>2 DEF MInv, Fits, Change
  <2>4. QED
    BY <2>1, <2>2, <2>3, ChangeKeepsMInv
<1>3. ASSUME NEW r \in Rows, DeleteFact(r) PROVE MInv'
  <2> DEFINE new == [source EXCEPT !.facts = @ \ {r}]
  <2>1. /\ new \in Sources
        /\ new.facts = source.facts \ {r}
        /\ new.keys = source.keys
    BY DEF MInv, Sources
  <2>2. Change(new)
    BY <1>3 DEF DeleteFact
  <2> HIDE DEF new
  <2>3. \A q \in new.facts : Fits(q)'
    BY <2>1, <2>2 DEF MInv, Fits, Change
  <2>4. QED
    BY <2>1, <2>2, <2>3, ChangeKeepsMInv
<1>4. QED
  BY <1>1, <1>2, <1>3

-----------------------------------------------------------------------------
(* The load *)

LEMMA PreparationKeepsMInv ==
  ASSUME MInv, Prepare \/ Begin
  PROVE  MInv'
<1>1. /\ UNCHANGED <<source, changes, read, mart>>
      /\ execution.step \in {"new", "prepared"}
      /\ execution'.step \in {"prepared", "dimensions"}
      /\ "step" \in DOMAIN execution'
  BY DEF MInv, Records, Prepare, Begin
<1>2. mart = EmptyMart
  BY <1>1 DEF MInv
<1>3. Records' /\ (\A r \in source.facts : Fits(r))'
  BY <1>1 DEF MInv, Records, Fits
<1>4. Numbered' /\ Covered' /\ KeysResolve'
  BY <1>1 DEF MInv, Numbered, Covered, KeysResolve
<1>5. QED
  BY <1>1, <1>2, <1>3, <1>4 DEF MInv

LEMMA LoadFailsKeepsMInv ==
  ASSUME MInv, LoadFails
  PROVE  MInv'
<1>1. /\ UNCHANGED <<source, changes, read>>
      /\ execution'.step = "failed"
      /\ "step" \in DOMAIN execution'
      /\ mart' = EmptyMart
  BY DEF MInv, Records, LoadFails
<1>2. /\ mart'.keys = <<>>
      /\ {"keys", "rows"} \subseteq DOMAIN mart'
  BY <1>1 DEF EmptyMart
<1>3. Numbered' /\ Covered' /\ KeysResolve'
  BY <1>1, <1>2 DEF MInv, Numbered, Covered, KeysResolve
<1>4. QED
  BY <1>1, <1>2, <1>3 DEF MInv, Records, Fits

\* What a load keeps of a dimension is numbered from 1 and has every key.
LEMMA DeduplicationsCover ==
  ASSUME NEW keys, NEW kept \in Deduplications(keys)
  PROVE  /\ DOMAIN kept \subseteq Nat
         /\ \A k \in keys : \E i \in DOMAIN kept : Clean[kept[i]] = Clean[k]
<1>1. PICK n \in 0 .. Cardinality(keys) : kept \in [1 .. n -> keys]
  BY DEF Deduplications
<1>2. DOMAIN kept \subseteq Nat
  BY <1>1
<1>3. QED
  BY <1>2 DEF Deduplications

LEMMA ReadDimensionKeepsMInv ==
  ASSUME MInv, NEW i \in DOMAIN Dimensions, ReadDimension(i)
  PROVE  MInv'
<1> DEFINE d == Dimensions[i]
<1>1. d \in DimensionNames
  BY DEF DimensionNames, Range
<1>2. PICK kept \in Deduplications(source.keys[d]) :
          mart' = [mart EXCEPT !.keys = [e \in DOMAIN mart.keys \cup {d} |->
                                            IF e = d THEN kept ELSE mart.keys[e]]]
  BY DEF ReadDimension
<1>3. /\ {"keys", "rows"} \subseteq DOMAIN mart'
      /\ mart'.keys = [e \in DOMAIN mart.keys \cup {d} |->
                            IF e = d THEN kept ELSE mart.keys[e]]
  BY <1>2 DEF MInv, Records
<1>4. /\ DOMAIN mart'.keys = DOMAIN mart.keys \cup {d}
      /\ mart'.keys[d] = kept
      /\ \A e \in DOMAIN mart.keys \ {d} : mart'.keys[e] = mart.keys[e]
  BY <1>3
<1>5. /\ UNCHANGED <<source, changes, read>>
      /\ execution'.step \in {"dimensions", "fact"}
      /\ execution'.step = "fact" => DOMAIN mart'.keys = DimensionNames
      /\ "step" \in DOMAIN execution'
  BY DEF MInv, Records, ReadDimension
<1>6. Numbered'
  BY <1>1, <1>4, <1>5, DeduplicationsCover DEF MInv, Numbered
<1>7. Covered'
  BY <1>4, <1>5, DeduplicationsCover DEF MInv, Covered
<1>8. QED
  BY <1>3, <1>5, <1>6, <1>7 DEF MInv, Records, Fits, KeysResolve

\* A number is the number of the key, and a key that is there has one.
LEMMA NumberFinds ==
  ASSUME NEW d \in DimensionNames, NEW key, DOMAIN mart.keys[d] \subseteq Nat
  PROVE  LET n == Number(d, key)
         IN  /\ n # Null => /\ key # Null
                            /\ n \in DOMAIN mart.keys[d]
                            /\ Clean[mart.keys[d][n]] = Clean[key]
             /\ n = Null /\ key # Null =>
                    ~ \E i \in DOMAIN mart.keys[d] : Clean[mart.keys[d][i]] = Clean[key]
<1> DEFINE at == {i \in DOMAIN mart.keys[d] : key # Null /\ Clean[mart.keys[d][i]] = Clean[key]}
<1>1. Number(d, key) = IF at = {} THEN Null ELSE CHOOSE i \in at : TRUE
  BY DEF Number
<1>2. CASE at = {}
  BY <1>1, <1>2
<1>3. CASE at # {}
  <2>1. (CHOOSE i \in at : TRUE) \in at
    BY <1>3
  <2>2. Number(d, key) \in at
    BY <1>1, <1>3, <2>1
  <2>3. QED
    BY <2>2, NullAssumption
<1>4. QED
  BY <1>2, <1>3

LEMMA ReadFactKeepsMInv ==
  ASSUME MInv, ReadFact
  PROVE  MInv'
<1> DEFINE stored == Stored(Accepted(source.facts))
<1>1. /\ UNCHANGED <<source, changes>>
      /\ read' = source.facts
      /\ execution.step = "fact"
      /\ execution'.step = "loaded"
      /\ "step" \in DOMAIN execution'
  BY DEF MInv, Records, ReadFact
<1>2. /\ mart'.keys = mart.keys
      /\ mart'.rows = stored
      /\ {"keys", "rows"} \subseteq DOMAIN mart'
  BY DEF MInv, Records, ReadFact
<1>3. DOMAIN mart.keys = DimensionNames
  BY <1>1 DEF MInv, Numbered
<1>4. KeysResolve'
  <2> SUFFICES ASSUME NEW m \in stored, NEW r \in source.facts, m.row = r.id,
                      NEW d \in DimensionNames
               PROVE  IF m.sk[d] = Null THEN changes = 0 => r.key[d] = Null
                      ELSE r.key[d] # Null /\ Clean[mart.keys[d][m.sk[d]]] = Clean[r.key[d]]
    BY <1>1, <1>2 DEF KeysResolve, KeyOf
  <2>1. m.sk[d] = Number(d, r.key[d])
    <3>1. PICK q \in Accepted(source.facts) :
              m = MartRow(q, [e \in DimensionNames |-> Number(e, q.key[e])])
      BY DEF Stored
    <3>2. q \in source.facts /\ m.row = q.id /\ m.sk[d] = Number(d, q.key[d])
      BY <3>1 DEF Accepted, MartRow
    <3>3. q = r
      BY <3>2, RowsAssumption DEF MInv, Sources
    <3>4. QED
      BY <3>2, <3>3
  <2>2. r.key[d] # Null => r.key[d] \in source.keys[d]
    BY DEF MInv, Fits
  <2>3. DOMAIN mart.keys[d] \subseteq Nat
    BY <1>3 DEF MInv, Numbered
  <2>4. QED
    BY <1>3, <2>1, <2>2, <2>3, NumberFinds DEF MInv, Covered
<1>5. Numbered' /\ Covered'
  BY <1>1, <1>2 DEF MInv, Numbered, Covered
<1>6. QED
  BY <1>1, <1>2, <1>4, <1>5 DEF MInv, Records, Fits

-----------------------------------------------------------------------------
(* Every key resolves *)

\* The invariant of the load holds in every reachable state.
THEOREM MInvAlways == Spec => []MInv
<1>1. MInv /\ [Next]_vars => MInv'
  <2> SUFFICES ASSUME MInv, [Next]_vars PROVE MInv'
    OBVIOUS
  <2>1. CASE UNCHANGED vars
    BY <2>1 DEF vars, MInv, Records, Fits, Numbered, Covered, KeysResolve, KeyOf
  <2>2. CASE Next
    BY <2>2, OwnerKeepsMInv, PreparationKeepsMInv, LoadFailsKeepsMInv,
       ReadDimensionKeepsMInv, ReadFactKeepsMInv DEF Next
  <2>3. QED
    BY <2>1, <2>2
<1>2. QED
  BY <1>1, InitEstablishesMInv, PTL DEF Spec

\* A row of the mart refers to the dimension row of its own key and to no other, and
\* finds it whenever the source stood still during the load, in whatever order the
\* source returned the rows of a dimension (materialize_sales).
THEOREM EveryKeyResolves == Spec => []KeysResolve
<1>1. MInv => KeysResolve
  BY DEF MInv
<1>2. QED
  BY <1>1, MInvAlways, PTL

-----------------------------------------------------------------------------
(* Types *)

Recipes == UNION {Range(kpis) : kpis \in Proposals}
Valuations == UNION {[codes -> Numbers] : codes \in SUBSET {k.code : k \in Recipes}}

Executions == [step : Steps, kpis : Proposals, selected : Seq(Recipes),
               verdict : BOOLEAN, values : Valuations]

\* The selected KPI are some of the proposal, and can be calculated ...
SelectionFits ==
    /\ execution.selected \in
          Seq({k \in Range(execution.kpis) : Calculable(Measures, k)})
    /\ DOMAIN execution.values \subseteq RecipeCodes(execution.selected)
    /\ execution.step \in {"new", "prepared"} => execution.values = <<>>

\* ... what has been read of a dimension are keys of it ...
KeysFit == \A d \in DOMAIN mart.keys : mart.keys[d] \in Seq(Keys[d])

\* ... and a row of the mart has the measures of a row of the source and numbers
\* of dimensions that are there.
RowsFit ==
    /\ IsFiniteSet(mart.rows)
    /\ execution.step # "loaded" => mart.rows = {}
    /\ \A m \in mart.rows : /\ \E r \in Rows : m.value = r.value
                            /\ \A d \in DimensionNames :
                                  m.sk[d] \in DOMAIN mart.keys[d] \cup {Null}

SourceFits ==
    /\ \A d \in DimensionNames : source.keys[d] \subseteq Keys[d]
    /\ IsFiniteSet(source.facts)
    /\ changes <= MaxChanges
    /\ read \subseteq Rows

TInv ==
    /\ execution \in Executions
    /\ SelectionFits
    /\ KeysFit
    /\ RowsFit
    /\ SourceFits

\* Nothing has been selected, read or stored.
LEMMA InitEstablishesTInv == Init => TInv
<1> SUFFICES ASSUME Init PROVE TInv
  OBVIOUS
<1>1. execution \in Executions
  <2>1. <<>> \in [{} -> Numbers] /\ <<>> \in Seq(Recipes)
    OBVIOUS
  <2>2. <<>> \in Valuations
    BY <2>1 DEF Valuations
  <2> HIDE DEF Valuations
  <2>3. QED
    BY <2>1, <2>2 DEF Init, Executions, Steps
<1>2. SelectionFits
  <2>1. execution.selected = <<>> /\ execution.values = <<>>
    BY DEF Init
  <2>2. QED
    BY <2>1 DEF SelectionFits
<1>3. KeysFit /\ RowsFit
  <2>1. mart.rows = {} /\ mart.keys = <<>>
    BY DEF Init, EmptyMart
  <2>2. QED
    BY <2>1, FS_EmptySet DEF KeysFit, RowsFit
<1>4. SourceFits
  BY ChangesAssumption DEF Init, SourceFits
<1>5. QED
  BY <1>1, <1>2, <1>3, <1>4 DEF TInv

\* The owner of the source adds keys and rows that it may have.
LEMMA OwnerKeepsTInv ==
  ASSUME MInv, TInv,
         \/ \E d \in DimensionNames : \E k \in Keys[d] : InsertKey(d, k)
         \/ \E r \in Rows : InsertFact(r) \/ DeleteFact(r)
  PROVE  TInv'
<1>1. ASSUME NEW new, Change(new),
             \A d \in DimensionNames : new.keys[d] \subseteq Keys[d],
             IsFiniteSet(new.facts)
      PROVE  TInv'
  <2>1. /\ source' = new
        /\ changes' = changes + 1 /\ changes < MaxChanges /\ changes \in Nat
        /\ UNCHANGED <<execution, read, mart>>
    BY <1>1 DEF Change, MInv
  <2>2. SourceFits'
    BY <1>1, <2>1, ChangesAssumption DEF TInv, SourceFits
  <2>3. QED
    BY <2>1, <2>2 DEF TInv, SelectionFits, KeysFit, RowsFit
<1>2. ASSUME NEW d \in DimensionNames, NEW k \in Keys[d], InsertKey(d, k) PROVE TInv'
  <2> DEFINE new == [source EXCEPT !.keys[d] = @ \cup {k}]
  <2>1. new.facts = source.facts
        /\ \A e \in DimensionNames : new.keys[e] \subseteq Keys[e]
    BY DEF MInv, Sources, TInv, SourceFits
  <2>2. Change(new) /\ IsFiniteSet(source.facts)
    BY <1>2 DEF InsertKey, TInv, SourceFits
  <2> HIDE DEF new
  <2>3. QED
    BY <1>1, <2>1, <2>2
<1>3. ASSUME NEW r \in Rows, InsertFact(r) PROVE TInv'
  <2> DEFINE new == [source EXCEPT !.facts = @ \cup {r}]
  <2>1. new.facts = source.facts \cup {r} /\ new.keys = source.keys
    BY DEF MInv, Sources
  <2>2. Change(new) /\ IsFiniteSet(source.facts) /\ SourceFits
    BY <1>3 DEF InsertFact, TInv, SourceFits
  <2> HIDE DEF new
  <2>3. IsFiniteSet(new.facts)
    BY <2>1, <2>2, FS_AddElement
  <2>4. QED
    BY <1>1, <2>1, <2>2, <2>3 DEF SourceFits
<1>4. ASSUME NEW r \in Rows, DeleteFact(r) PROVE TInv'
  <2> DEFINE new == [source EXCEPT !.facts = @ \ {r}]
  <2>1. new.facts = source.facts \ {r} /\ new.keys = source.keys
    BY DEF MInv, Sources
  <2>2. Change(new) /\ IsFiniteSet(source.facts) /\ SourceFits
    BY <1>4 DEF DeleteFact, TInv, SourceFits
  <2> HIDE DEF new
  <2>3. IsFiniteSet(new.facts)
    BY <2>1, <2>2, FS_RemoveElement
  <2>4. QED
    BY <1>1, <2>1, <2>2, <2>3 DEF SourceFits
<1>5. QED
  BY <1>2, <1>3, <1>4

\* What is selected are recipes.
LEMMA SelectionsOf ==
  ASSUME NEW recipes, NEW s \in Selections(recipes)
  PROVE  IsInjective(s) /\ \E n \in 1 .. Len(recipes) : s \in [1 .. n -> Range(recipes)]
<1>1. Available(recipes) \subseteq Range(recipes)
  BY DEF Available, Range
<1>2. PICK n \in 1 .. Len(recipes) : s \in [1 .. n -> Available(recipes)] /\ IsInjective(s)
  BY DEF Selections
<1>3. s \in [1 .. n -> Range(recipes)]
  BY <1>1, <1>2
<1>4. QED
  BY <1>2, <1>3

\* A selection of recipes is a sequence of them.
LEMMA PrepareKeepsTInv ==
  ASSUME MInv, TInv, Prepare
  PROVE  TInv'
<1> DEFINE K == Range(execution.kpis)
           C == {k \in K : Calculable(Measures, k)}
           recipes == Compile(Measures, execution.kpis).recipes
<1>1. execution.kpis \in Proposals /\ execution.kpis \in Seq(K)
  BY ProposalsAssumption DEF TInv, Executions
<1>2. recipes \in Seq(C)
  BY <1>1, CompileKeeps
<1>3. PICK s \in Selections(recipes) :
          execution' = [execution EXCEPT !.step = "prepared", !.selected = s]
  BY DEF Prepare
<1>4. execution.step = "new" /\ UNCHANGED <<source, changes, read, mart>>
  BY DEF Prepare
<1>5. PICK n \in 1 .. Len(recipes) : s \in [1 .. n -> Range(recipes)]
  BY <1>3, SelectionsOf
<1>6. n \in Nat /\ Range(recipes) \subseteq C
  <2> HIDE DEF C, recipes
  <2>1. QED
    BY <1>2 DEF Range
<1>7. s \in Seq(C)
  BY <1>5, <1>6
<1>8. C \subseteq K /\ K \subseteq Recipes
  BY <1>1 DEF Recipes
<1> HIDE DEF C, K, recipes
<1>9. s \in Seq(Recipes)
  BY <1>7, <1>8
<1>10. execution \in Executions
  BY DEF TInv
<1>11. execution' \in Executions
  BY <1>3, <1>9, <1>10 DEF Executions, Steps
<1>12. /\ execution'.kpis = execution.kpis
       /\ execution'.selected = s
       /\ execution'.values = execution.values
       /\ execution'.step = "prepared"
  BY <1>3, <1>10 DEF Executions
<1>13. SelectionFits'
  BY <1>4, <1>7, <1>12 DEF TInv, SelectionFits, C, K
<1>14. QED
  BY <1>4, <1>11, <1>12, <1>13 DEF TInv, KeysFit, RowsFit, SourceFits

\* The load begins with the record as it is.
LEMMA BeginKeepsTInv ==
  ASSUME MInv, TInv, Begin
  PROVE  TInv'
<1>1. /\ UNCHANGED <<source, changes, read, mart>>
      /\ execution.step = "prepared"
      /\ execution' = [execution EXCEPT !.step = "dimensions"]
  BY DEF Begin
<1>2. execution \in Executions
  BY DEF TInv
<1>3. execution' \in Executions
  BY <1>1, <1>2 DEF Executions, Steps
<1>4. /\ execution'.kpis = execution.kpis
      /\ execution'.selected = execution.selected
      /\ execution'.values = execution.values
      /\ execution'.step = "dimensions"
  BY <1>1, <1>2 DEF Executions
<1>5. QED
  BY <1>1, <1>3, <1>4 DEF TInv, SelectionFits, KeysFit, RowsFit, SourceFits

\* A load that fails leaves the record of the selection, and an empty mart.
LEMMA LoadFailsKeepsTInv ==
  ASSUME MInv, TInv, LoadFails
  PROVE  TInv'
<1>1. /\ UNCHANGED <<source, changes, read>>
      /\ execution' = [execution EXCEPT !.step = "failed"]
      /\ mart'.rows = {} /\ mart'.keys = <<>>
  BY DEF LoadFails, EmptyMart
<1>2. execution \in Executions
  BY DEF TInv
<1>3. execution' \in Executions
  BY <1>1, <1>2 DEF Executions, Steps
<1>4. /\ execution'.kpis = execution.kpis
      /\ execution'.selected = execution.selected
      /\ execution'.values = execution.values
      /\ execution'.step = "failed"
  BY <1>1, <1>2 DEF Executions
<1>5. SelectionFits' /\ SourceFits'
  BY <1>1, <1>4 DEF TInv, SelectionFits, SourceFits
<1>6. KeysFit' /\ RowsFit'
  BY <1>1, FS_EmptySet DEF KeysFit, RowsFit
<1>7. QED
  BY <1>3, <1>5, <1>6 DEF TInv

\* What is read of a dimension is some of its keys.
LEMMA ReadDimensionKeepsTInv ==
  ASSUME MInv, TInv, NEW i \in DOMAIN Dimensions, ReadDimension(i)
  PROVE  TInv'
<1> DEFINE d == Dimensions[i]
<1>1. d \in DimensionNames
  BY DEF DimensionNames, Range
<1>2. PICK kept \in Deduplications(source.keys[d]) :
          mart' = [mart EXCEPT !.keys = [e \in DOMAIN mart.keys \cup {d} |->
                                            IF e = d THEN kept ELSE mart.keys[e]]]
  BY DEF ReadDimension
<1>3. /\ mart'.rows = mart.rows
      /\ mart'.keys = [e \in DOMAIN mart.keys \cup {d} |->
                            IF e = d THEN kept ELSE mart.keys[e]]
  BY <1>2 DEF MInv, Records
<1>4. kept \in Seq(Keys[d])
  <2>1. PICK n \in 0 .. Cardinality(source.keys[d]) : kept \in [1 .. n -> source.keys[d]]
    BY DEF Deduplications
  <2>2. source.keys[d] \subseteq Keys[d]
    BY <1>1 DEF TInv, SourceFits
  <2>3. n \in Nat
    BY <2>1
  <2>4. kept \in [1 .. n -> Keys[d]]
    BY <2>1, <2>2
  <2>5. QED
    BY <2>3, <2>4
<1>5. /\ UNCHANGED <<source, changes, read>>
      /\ execution.step = "dimensions"
      /\ execution' \in {execution, [execution EXCEPT !.step = "fact"]}
  BY DEF ReadDimension
<1>6. execution \in Executions
  BY DEF TInv
<1>7. execution' \in Executions
  BY <1>5, <1>6 DEF Executions, Steps
<1>8. /\ execution'.kpis = execution.kpis
      /\ execution'.selected = execution.selected
      /\ execution'.values = execution.values
      /\ execution'.step \in {"dimensions", "fact"}
  BY <1>5, <1>6 DEF Executions
<1>9. KeysFit'
  BY <1>3, <1>4 DEF TInv, KeysFit
<1>10. SelectionFits' /\ SourceFits'
  BY <1>5, <1>8 DEF TInv, SelectionFits, SourceFits
<1>11. RowsFit'
  BY <1>3, <1>5 DEF TInv, RowsFit
<1>12. QED
  BY <1>7, <1>9, <1>10, <1>11 DEF TInv

\* What is stored of finitely many rows is finite, and has their measures.
LEMMA StoredFits ==
  ASSUME NEW rows \in SUBSET Rows, IsFiniteSet(rows)
  PROVE  /\ IsFiniteSet(Stored(rows))
         /\ \A m \in Stored(rows) : \E r \in rows :
               /\ m.value = r.value
               /\ \A d \in DimensionNames : m.sk[d] = Number(d, r.key[d])
<1> DEFINE Image(r) == MartRow(r, [d \in DimensionNames |-> Number(d, r.key[d])])
<1>1. Stored(rows) = {Image(r) : r \in rows}
  BY DEF Stored
<1>2. \A r \in rows : /\ Image(r).value = r.value
                      /\ \A d \in DimensionNames : Image(r).sk[d] = Number(d, r.key[d])
  BY DEF MartRow
<1> HIDE DEF Image
<1>3. IsFiniteSet({Image(r) : r \in rows})
  <2> DEFINE f == [r \in rows |-> Image(r)]
  <2>1. f \in Surjection(rows, {Image(r) : r \in rows})
    BY DEF Surjection
  <2>2. QED
    BY <2>1, FS_Surjection
<1>4. QED
  BY <1>1, <1>2, <1>3

\* The rows that are stored refer to the dimensions that were read, and the values are
\* numbers of the selected KPI.
LEMMA ReadFactKeepsTInv ==
  ASSUME MInv, TInv, ReadFact
  PROVE  TInv'
<1> DEFINE rows == Accepted(source.facts)
           stored == Stored(rows)
           values == LoadValues(Measures, execution.selected, stored)
           verdict == Reconciled(source.facts, stored)
<1>1. /\ UNCHANGED <<source, changes>>
      /\ read' = source.facts
      /\ mart'.keys = mart.keys
      /\ mart'.rows = stored
      /\ execution.step = "fact"
      /\ execution' = [execution EXCEPT !.step = "loaded", !.verdict = verdict,
                                        !.values = values]
  BY DEF MInv, Records, ReadFact
<1>2. rows \in SUBSET Rows /\ IsFiniteSet(rows)
  <2>1. rows \subseteq source.facts
    BY DEF Accepted
  <2>2. source.facts \subseteq Rows /\ IsFiniteSet(source.facts)
    BY DEF MInv, Sources, TInv, SourceFits
  <2>3. QED
    BY <2>1, <2>2, FS_Subset
<1> HIDE DEF rows
<1>3. /\ IsFiniteSet(stored)
      /\ \A m \in stored : \E r \in rows :
            /\ m.value = r.value
            /\ \A d \in DimensionNames : m.sk[d] = Number(d, r.key[d])
  BY <1>2, StoredFits
<1> HIDE DEF stored
<1>4. \A r \in stored : \A m \in DOMAIN Measures : r.value[m] \in Int \cup {Null}
  BY <1>2, <1>3, RowsAssumption
<1>5. PICK codes \in SUBSET RecipeCodes(execution.selected) : values \in [codes -> Numbers]
  BY <1>3, <1>4, LoadValuesOfRecipes DEF TInv, SelectionFits
<1> HIDE DEF values
<1>6. RecipeCodes(execution.selected) \subseteq {k.code : k \in Recipes}
  BY DEF RecipeCodes, TInv, Executions
<1>7. values \in Valuations
  BY <1>5, <1>6 DEF Valuations
<1>8. verdict \in BOOLEAN
  BY DEF Reconciled
<1> HIDE DEF verdict
<1>9. execution \in Executions
  BY DEF TInv
<1>10. execution' \in Executions
  BY <1>1, <1>7, <1>8, <1>9 DEF Executions, Steps
<1>11. /\ execution'.kpis = execution.kpis
       /\ execution'.selected = execution.selected
       /\ execution'.values = values
       /\ execution'.step = "loaded"
  BY <1>1, <1>9 DEF Executions
<1>12. SelectionFits'
  BY <1>5, <1>11 DEF TInv, SelectionFits
<1>13. DOMAIN mart.keys = DimensionNames /\ \A d \in DimensionNames : DOMAIN mart.keys[d] \subseteq Nat
  BY <1>1 DEF MInv, Numbered
<1>14. \A d \in DimensionNames : \A key : Number(d, key) \in DOMAIN mart.keys[d] \cup {Null}
  BY <1>13, NumberFinds
<1>15. RowsFit'
  BY <1>1, <1>2, <1>3, <1>11, <1>14 DEF RowsFit
<1>16. SourceFits' /\ KeysFit'
  BY <1>1 DEF MInv, Sources, TInv, SourceFits, KeysFit
<1>17. QED
  BY <1>10, <1>12, <1>15, <1>16 DEF TInv

\* The types hold in every reachable state.
THEOREM TInvAlways == Spec => []TInv
<1>1. MInv /\ TInv /\ [Next]_vars => TInv'
  <2> SUFFICES ASSUME MInv, TInv, [Next]_vars PROVE TInv'
    OBVIOUS
  <2>1. CASE UNCHANGED vars
    BY <2>1 DEF vars, TInv, SelectionFits, KeysFit, RowsFit, SourceFits
  <2>2. CASE Next
    BY <2>2, OwnerKeepsTInv, PrepareKeepsTInv, BeginKeepsTInv, LoadFailsKeepsTInv,
       ReadDimensionKeepsTInv, ReadFactKeepsTInv DEF Next
  <2>3. QED
    BY <2>1, <2>2
<1>2. QED
  BY <1>1, InitEstablishesTInv, MInvAlways, PTL DEF Spec

\* The record of an execution names KPI of its proposal and values of those, and the
\* rows of the mart refer to dimension rows that are there (compile_kpi_recipes,
\* materialize_sales).
THEOREM TypesHold == Spec => []TypeOK
<1>1. MInv /\ TInv => TypeOK
  <2> SUFFICES ASSUME MInv, TInv PROVE TypeOK
    OBVIOUS
  <2>1. RecipeCodes(execution.selected) \subseteq RecipeCodes(execution.kpis)
    <3>1. \A i \in DOMAIN execution.selected : execution.selected[i] \in Range(execution.kpis)
      BY DEF TInv, SelectionFits
    <3>2. QED
      BY <3>1 DEF RecipeCodes, Range
  <2>2. /\ execution.step \in Steps
        /\ execution.kpis \in Proposals
        /\ execution.verdict \in BOOLEAN
    BY DEF TInv, Executions
  <2>3. \A r \in mart.rows, d \in DimensionNames : r.sk[d] \in DOMAIN mart.keys[d] \cup {Null}
    BY DEF TInv, RowsFit
  <2>4. changes \in 0 .. MaxChanges
    BY ChangesAssumption DEF MInv, TInv, SourceFits
  <2>5. source.facts \subseteq Rows
    BY DEF MInv, Sources
  <2>6. QED
    BY <2>1, <2>2, <2>3, <2>4, <2>5 DEF TInv, SelectionFits, KeysFit, SourceFits, TypeOK
<1>2. QED
  BY <1>1, MInvAlways, TInvAlways, PTL

-----------------------------------------------------------------------------
(* The readers of the mart *)

\* When every row has a date and a territory, both readers see the same rows: a join
\* takes nothing away, and the filters that the question names are the dashboard's.
LEMMA SameRows ==
  ASSUME Date \in DimensionNames, AllPlaced, NEW filter, Answerable(filter), NEW d
  PROVE  Shown(filter) \cap Joined({d}) =
            {r \in Joined({d} \cup {e \in {Date} : filter.year # Null}
                              \cup {e \in {Territory} : filter.territory # Null}) :
                /\ filter.year # Null => KeyOf(r, Date) = filter.year
                /\ filter.territory # Null => KeyOf(r, Territory) = filter.territory}
<1>1. \A r \in mart.rows : \A e \in {Date, Territory} \cap DimensionNames : r.sk[e] # Null
  BY DEF AllPlaced, Joined
<1>2. \A r \in mart.rows : r.sk[Date] # Null
  BY <1>1
<1>3. filter.territory # Null => \A r \in mart.rows : r.sk[Territory] # Null
  BY <1>1, TerritoryAssumption DEF Answerable
<1>4. Joined({Date, Territory} \cap DimensionNames) = mart.rows
  BY DEF AllPlaced
<1>5. Joined({d} \cup {e \in {Date} : filter.year # Null}
                 \cup {e \in {Territory} : filter.territory # Null}) = Joined({d})
  BY <1>2, <1>3 DEF Joined
<1>6. Joined({d}) \subseteq mart.rows
  BY DEF Joined
<1>7. filter.territory # Null => Territory # Null
  BY DEF Answerable
<1>8. QED
  BY <1>4, <1>5, <1>6, <1>7 DEF Shown

\* A ranking and an answer about one KPI tell the same values, and the same parts: what
\* the ranking adds up over the members it lists is what the answer computes over all
\* the rows that pass the filter (add_ranking, run_safe_aggregate_query).
THEOREM AnswersAgreeAlways == Spec => []AnswersAgree
<1>1. TInv => AnswersAgree
  <2> SUFFICES ASSUME TInv, HasDashboard, AllPlaced,
                      NEW k \in Range(execution.selected), NEW d \in DimensionNames,
                      NEW f \in Filters,
                      k.kind = "aggregate", k.args[2] = "sum", Answerable(f)
               PROVE  LET ranking == Ranking(k, d, f)
                          answer  == Answer(k, d, f)
                      IN  /\ DOMAIN ranking = DOMAIN answer
                          /\ \A g \in DOMAIN ranking :
                                /\ Same(ranking[g].value, answer[g].value)
                                /\ Same(ranking[g].share, answer[g].share)
    BY DEF AnswersAgree
  <2> DEFINE rows == Shown(f) \cap Joined({d})
             value == Grouped(k, rows, d)
             shares == [g \in DOMAIN value |->
                          [value |-> value[g],
                           share |-> Derived("share", value[g], Card(k, rows))]]
  <2>1. k.args[1] \in DOMAIN Measures
    BY DEF TInv, SelectionFits, Calculable, Range
  <2>2. IsFiniteSet(rows) /\ NumbersOf(rows, k.args[1])
    <3>1. rows \subseteq mart.rows
      BY DEF Joined
    <3> HIDE DEF rows
    <3>2. IsFiniteSet(rows)
      BY <3>1, FS_Subset DEF TInv, RowsFit
    <3>3. NumbersOf(rows, k.args[1])
      BY <2>1, <3>1, RowsAssumption DEF TInv, RowsFit, NumbersOf
    <3>4. QED
      BY <3>2, <3>3
  <2>3. MapThenFoldSet(LAMBDA x, y : Minus(x, Minus(Zero, y)), Zero,
                       LAMBDA g : value[g], LAMBDA S : CHOOSE g \in S : TRUE,
                       DOMAIN value) = Card(k, rows)
    <3> HIDE DEF rows
    <3>1. QED
      BY <2>2, PartsAddUp
  <2>4. Ranking(k, d, f) = shares
    BY <2>3 DEF Ranking
  <2>5. Answer(k, d, f) = shares
    <3>1. rows = {r \in Joined({d} \cup {e \in {Date} : f.year # Null}
                                   \cup {e \in {Territory} : f.territory # Null}) :
                     /\ f.year # Null => KeyOf(r, Date) = f.year
                     /\ f.territory # Null => KeyOf(r, Territory) = f.territory}
      BY SameRows DEF HasDashboard
    <3> HIDE DEF rows
    <3>2. QED
      BY <3>1 DEF Answer
  <2>6. \A x : Same(x, x)
    BY DEF Same
  <2> HIDE DEF shares
  <2>7. QED
    BY <2>4, <2>5, <2>6
<1>2. QED
  BY <1>1, TInvAlways, PTL
-----------------------------------------------------------------------------
(* The values of a load and of a dashboard *)

\* Induction over the numbers up to n.
LEMMA UpTo ==
  ASSUME NEW n \in Nat, NEW D \in SUBSET (0 .. n), 0 \in D,
         \A i \in 1 .. n : i - 1 \in D => i \in D
  PROVE  D = 0 .. n
<1> DEFINE E == {i \in Nat : i \in 0 .. n => i \in D}
<1>1. 0 \in E /\ E \in SUBSET Nat
  OBVIOUS
<1>2. ASSUME NEW i \in E PROVE i + 1 \in E
  <2> SUFFICES ASSUME i + 1 \in 0 .. n PROVE i + 1 \in D
    OBVIOUS
  <2>1. i \in Nat /\ i + 1 \in 1 .. n /\ i \in 0 .. n /\ (i + 1) - 1 = i
    OBVIOUS
  <2>2. QED
    BY <2>1
<1>3. \A i \in E : i \in 0 .. n => i \in D
  OBVIOUS
<1> HIDE DEF E
<1>4. E = Nat
  BY <1>1, <1>2, NaturalInduction
<1>5. (0 .. n) \subseteq D
  BY <1>3, <1>4
<1>6. QED
  BY <1>5

\* Reading a name: what was computed goes before the totals of the measures.
LEMMA CompletedLookup ==
  ASSUME NEW values, NEW others, NEW x
  PROVE  Lookup(Completed(values, others), x) =
            IF x \in DOMAIN values THEN values[x] ELSE Lookup(others, x)
BY DEF Lookup, Completed

LEMMA CodesOf ==
  ASSUME NEW s
  PROVE  RecipeCodes(s) = {r.code : r \in Range(s)}
BY DEF RecipeCodes, Range

\* The recipes s can be shown for some rows.
Presentable(s, rows) ==
    /\ s \in Seq({k \in Range(s) : Calculable(Measures, k)})
    /\ \A k \in Range(s) : DOMAIN k.args = {1, 2}
    /\ NamesApart(s)
    /\ IsFiniteSet(rows)
    /\ \A r \in rows : \A m \in DOMAIN Measures : r.value[m] \in Int \cup {Null}
    /\ MeasuresShown(s, rows)

\* No recipe comes before a formula that reads it, a recipe of a measure aside.
Ordered(s) ==
    \A i \in DOMAIN s : s[i].kind # "aggregate" =>
        \A x \in Range(s[i].args) \ DOMAIN Measures : \A j \in DOMAIN s : s[j].code = x => j < i

\* A card has a number.
LEMMA CardsAreNumbers ==
  ASSUME NEW s, NEW rows, Presentable(s, rows), NEW r \in Aggregates(s), NEW operation
  PROVE  /\ r.args[1] \in DOMAIN Measures
         /\ Aggregate(operation, r.args[1], rows) \in Int \X Int
         /\ Aggregate(operation, r.args[1], rows) # Null
<1>1. r \in Range(s) /\ r.kind = "aggregate"
  BY DEF Aggregates
<1>2. r.args[1] \in DOMAIN Measures
  BY <1>1 DEF Presentable, Calculable, Range
<1>3. \E m \in rows : m.value[r.args[1]] # Null
  BY DEF Presentable, MeasuresShown
<1>4. Aggregate(operation, r.args[1], rows) \in Int \X Int
  <2>1. IsFiniteSet(rows) /\ \A q \in rows : q.value[r.args[1]] \in Int \cup {Null}
    BY <1>2 DEF Presentable
  <2>2. QED
    BY <1>3, <2>1, AggregateIsANumber
<1>5. QED
  BY <1>2, <1>4, NullAssumption

\* A KPI that is called like a measure has its total.
LEMMA CalledLikeAMeasure ==
  ASSUME NEW s, NEW rows, Presentable(s, rows), NEW r \in Range(s), r.code \in DOMAIN Measures,
         NEW values
  PROVE  /\ r \in Aggregates(s)
         /\ TargetTotals(Measures, rows)[r.code] = Aggregate(r.args[2], r.args[1], rows)
<1>1. r.kind = "aggregate" /\ r.args = <<r.code, Measures[r.code].aggregation>>
  BY DEF Presentable, NamesApart
<1>2. r \in Aggregates(s) /\ r.args[1] = r.code /\ r.args[2] = Measures[r.code].aggregation
  BY <1>1 DEF Aggregates
<1>3. Aggregate(r.args[2], r.args[1], rows) # Null
  BY <1>2, CardsAreNumbers
<1>4. QED
  BY <1>2, <1>3 DEF TargetTotals, OrZero, IsNumber

\* Values that stay as they are when they are computed again from themselves.
Fixed(values, s, rows) ==
    /\ DOMAIN values = RecipeCodes(s)
    /\ \A r \in Range(s) :
          values[r.code] = LoadValue(r, values, TargetTotals(Measures, rows), rows)

\* A load that goes through recipes in order gives values that fit together.
LEMMA LoadIsFixed ==
  ASSUME NEW s, NEW rows, Presentable(s, rows), Ordered(s)
  PROVE  Fixed(LoadValues(Measures, s, rows), s, rows)
<1> DEFINE n == Len(s)
           totals == TargetTotals(Measures, rows)
           L == LoadValues(Measures, s, rows)
<1>1. n \in Nat /\ DOMAIN s = 1 .. n
  BY DEF Presentable
<1>2. PICK f : /\ f[0] = <<>> /\ f[n] = L
               /\ \A i \in 1 .. n : f[i] = Put(f[i - 1], s[i].code,
                                              LoadValue(s[i], f[i - 1], totals, rows))
  <2>1. s \in Seq({k \in Range(s) : Calculable(Measures, k)})
    BY DEF Presentable
  <2>2. PICK f : LoadGoes(f, Measures, s, rows)
    <3>1. IsFiniteSet(rows) /\ \A r \in rows : \A m \in DOMAIN Measures : r.value[m] \in Int \cup {Null}
      BY DEF Presentable
    <3>2. QED
      BY <2>1, <3>1, LoadSteps
  <2>3. QED
    BY <2>2 DEF LoadGoes
<1> DEFINE X(j) == LoadValue(s[j], f[j - 1], totals, rows)
           Codes(i) == {s[j].code : j \in 1 .. i}
           D == {i \in 0 .. n : /\ DOMAIN f[i] = Codes(i)
                                /\ \A j \in 1 .. i : f[i][s[j].code] = X(j)}
<1>3. \A i, j \in 1 .. n : s[i].code = s[j].code => i = j
  BY <1>1 DEF Presentable, NamesApart
<1> HIDE DEF L, totals
<1>4. D = 0 .. n
  <2>1. 0 \in D
    BY <1>1, <1>2
  <2>2. ASSUME NEW i \in 1 .. n, i - 1 \in D PROVE i \in D
    <3>1. i \in 0 .. n /\ i - 1 \in 0 .. n
      BY <1>1
    <3>2. Codes(i) = Codes(i - 1) \cup {s[i].code}
      BY <1>1, 1 .. i = (1 .. (i - 1)) \cup {i}
    <3>3. DOMAIN f[i - 1] = Codes(i - 1) /\ \A j \in 1 .. (i - 1) : f[i - 1][s[j].code] = X(j)
      BY <2>2
    <3> HIDE DEF X
    <3>4. f[i] = Put(f[i - 1], s[i].code, X(i))
      BY <1>2 DEF X
    <3>5. DOMAIN f[i] = Codes(i)
      BY <3>2, <3>3, <3>4 DEF Put
    <3>6. ASSUME NEW j \in 1 .. i PROVE f[i][s[j].code] = X(j)
      <4>1. s[j].code \in Codes(i) /\ s[i].code \in Codes(i)
        BY <1>1
      <4> HIDE DEF Codes
      <4>2. CASE j = i
        BY <3>2, <3>3, <3>4, <4>1, <4>2 DEF Put
      <4>3. CASE j # i
        <5>1. j \in 1 .. (i - 1) /\ j \in 1 .. n
          BY <1>1, <4>3
        <5>2. s[j].code # s[i].code
          BY <1>3, <4>3, <5>1
        <5>3. QED
          BY <3>2, <3>3, <3>4, <4>1, <5>1, <5>2 DEF Put
      <4>4. QED
        BY <4>2, <4>3
    <3> HIDE DEF Codes
    <3>7. QED
      BY <3>1, <3>5, <3>6
  <2>3. D \in SUBSET (0 .. n)
    OBVIOUS
  <2> HIDE DEF D, n
  <2>4. QED
    BY <1>1, <2>1, <2>2, <2>3, UpTo
<1>5. /\ DOMAIN L = RecipeCodes(s)
      /\ \A j \in 1 .. n : L[s[j].code] = X(j)
  <2>1. n \in D
    BY <1>1, <1>4
  <2>2. Codes(n) = RecipeCodes(s)
    BY <1>1 DEF RecipeCodes
  <2>3. QED
    BY <1>2, <2>1, <2>2
<1>6. \A i \in 1 .. n : /\ DOMAIN f[i - 1] = Codes(i - 1)
                         /\ \A j \in 1 .. (i - 1) : f[i - 1][s[j].code] = X(j)
  <2>1. \A i \in 1 .. n : i - 1 \in D
    BY <1>1, <1>4
  <2>2. QED
    BY <2>1
<1> HIDE DEF D
<1>7. ASSUME NEW i \in 1 .. n, s[i].kind # "aggregate", NEW x \in Range(s[i].args)
      PROVE  Lookup(Completed(f[i - 1], totals), x) = Lookup(Completed(L, totals), x)
  <2>1. CASE x \in DOMAIN f[i - 1]
    <3>1. PICK j \in 1 .. (i - 1) : x = s[j].code
      BY <1>6, <2>1
    <3>2. j \in 1 .. n
      BY <1>1
    <3>3. x \in DOMAIN L
      BY <1>1, <1>5, <3>1, <3>2 DEF RecipeCodes
    <3>4. f[i - 1][x] = X(j) /\ L[x] = X(j)
      BY <1>5, <1>6, <3>1, <3>2
    <3>5. QED
      BY <2>1, <3>3, <3>4, CompletedLookup
  <2>2. CASE x \notin DOMAIN f[i - 1] /\ x \in DOMAIN L
    <3>1. PICK j \in 1 .. n : x = s[j].code
      BY <1>1, <1>5, <2>2 DEF RecipeCodes
    <3>2. j \notin 1 .. (i - 1)
      BY <1>6, <2>2, <3>1
    <3>3. x \in DOMAIN Measures
      BY <1>1, <1>7, <3>1, <3>2 DEF Ordered
    <3>4. s[j] \in Range(s)
      BY <1>1 DEF Range
    <3>5. s[j] \in Aggregates(s) /\ totals[x] = Aggregate(s[j].args[2], s[j].args[1], rows)
      BY <3>1, <3>3, <3>4, CalledLikeAMeasure DEF totals
    <3>6. L[x] = totals[x]
      BY <1>5, <3>1, <3>5 DEF LoadValue, Aggregates
    <3>7. x \in DOMAIN totals
      BY <3>3 DEF totals, TargetTotals
    <3>8. QED
      BY <2>2, <3>6, <3>7, CompletedLookup DEF Lookup
  <2>3. CASE x \notin DOMAIN f[i - 1] /\ x \notin DOMAIN L
    BY <2>3, CompletedLookup
  <2>4. QED
    BY <2>1, <2>2, <2>3
<1>8. ASSUME NEW i \in 1 .. n PROVE X(i) = LoadValue(s[i], L, totals, rows)
  <2>1. CASE s[i].kind = "aggregate"
    BY <2>1 DEF LoadValue
  <2>2. CASE s[i].kind # "aggregate"
    <3>1. s[i] \in Range(s)
      BY <1>1 DEF Range
    <3>2. s[i].args[1] \in Range(s[i].args) /\ s[i].args[2] \in Range(s[i].args)
      BY <3>1 DEF Presentable, Range
    <3>3. QED
      BY <1>7, <2>2, <3>2 DEF LoadValue
  <2>3. QED
    BY <2>1, <2>2
<1>9. \A r \in Range(s) : \E i \in 1 .. n : r = s[i]
  BY <1>1 DEF Range
<1> HIDE DEF X
<1>10. QED
  BY <1>5, <1>8, <1>9 DEF Fixed, L, totals


\* The cards of recipes have numbers.
Carded(recipes, rows) ==
    \A r \in Aggregates(recipes) : Card(r, rows) \in Numbers /\ r.args[1] \in DOMAIN Measures

\* The aliases of a calculation leave one after the other.
UniqueGoes(f, recipes) ==
    LET n == Len(recipes)
        V == Seq(Range(recipes))
        Step(v, i) == IF recipes[i].kind = "aggregate" /\ Repeats(v, recipes[i])
                          THEN v ELSE Append(v, recipes[i])
    IN  /\ f \in [0 .. n -> V]
        /\ f[0] = <<>>
        /\ f[n] = Unique(recipes)
        /\ \A i \in 1 .. n : f[i] = Step(f[i - 1], i)

LEMMA UniqueSteps ==
  ASSUME NEW K, NEW recipes \in Seq(K)
  PROVE  \E f : UniqueGoes(f, recipes)
<1> DEFINE n == Len(recipes)
           V == Seq(Range(recipes))
           Step(v, i) == IF recipes[i].kind = "aggregate" /\ Repeats(v, recipes[i])
                          THEN v ELSE Append(v, recipes[i])
           G == [p \in (1 .. n) \X V |-> Step(p[2], p[1])]
           Eq(g) == g = [s \in SUBSET (1 .. n) |->
                            IF s = {} THEN <<>> ELSE Step(g[s \ {Max(s)}], Max(s))]
           iter == CHOOSE g : Eq(g)
<1>1. n \in Nat /\ DOMAIN recipes = 1 .. n
  OBVIOUS
<1>2. Unique(recipes) = iter[1 .. n]
  BY <1>1 DEF Unique, FoldLeft, MapThenFoldSet
<1>3. \A i \in 1 .. n, v \in V : Step(v, i) \in V
  <2> SUFFICES ASSUME NEW i \in 1 .. n, NEW v \in V PROVE Step(v, i) \in V
    OBVIOUS
  <2>1. recipes[i] \in Range(recipes)
    BY <1>1 DEF Range
  <2>2. QED
    BY <2>1
<1>6. G \in [(1 .. n) \X V -> V]
  BY <1>3
<1>7. <<>> \in V
    OBVIOUS
<1>8. \A i \in 1 .. n, v \in V : G[<<i, v>>] = Step(v, i)
  OBVIOUS
<1> HIDE DEF V, G, Step
<1>9. PICK h \in [SUBSET (1 .. n) -> V] : IsFoldLeft(h, n, <<>>, G)
  <2> HIDE DEF n
  <2>1. QED
    BY <1>1, <1>6, <1>7, FoldLeftExists
<1>10. Eq(h)
  <2>1. \A s \in SUBSET (1 .. n) : s # {} => h[s] = Step(h[s \ {Max(s)}], Max(s))
    BY <1>1, <1>8, <1>9, MaxOfInterval DEF IsFoldLeft
  <2>2. QED
    BY <1>9, <2>1 DEF IsFoldLeft
<1>11. Eq(iter)
  BY <1>10
<1> HIDE DEF iter
<1>12. ASSUME NEW i \in 1 .. n PROVE iter[1 .. i] = Step(iter[1 .. (i - 1)], i)
  <2>1. Max(1 .. i) = i /\ (1 .. i) \ {i} = 1 .. (i - 1) /\ 1 .. i # {} /\ 1 .. i \in SUBSET (1 .. n)
    <3> HIDE DEF n
    <3>1. QED
      BY <1>1, Intervals
  <2>2. QED
    BY <1>11, <2>1
<1>13. GoesOn(iter, n, <<>>, V, G)
  <2>1. iter[1 .. 0] = <<>>
    BY <1>11
  <2>2. QED
    BY <1>8, <1>12, <2>1 DEF GoesOn
<1>14. PICK f \in [0 .. n -> V] : GoesThrough(f, n, <<>>, G) /\ f[n] = iter[1 .. n]
  <2> HIDE DEF n
  <2>1. HasSteps(n, V, <<>>, G, iter)
    BY <1>1, <1>6, <1>7, <1>13, FoldLeftSteps
  <2>2. QED
    BY <2>1 DEF HasSteps
<1>15. ASSUME NEW i \in 1 .. n PROVE f[i] = Step(f[i - 1], i)
  <2> HIDE DEF n
  <2>1. i - 1 \in 0 .. n
    BY <1>1
  <2>2. f[i - 1] \in V
    BY <2>1
  <2>3. QED
    BY <1>8, <1>14, <2>2 DEF GoesThrough
<1>16. QED
  BY <1>2, <1>14, <1>15 DEF V, Step, GoesThrough, UniqueGoes

\* The selected KPI are listed one after the other.
ListedGoes(f, kpis, selected) ==
    LET n == Len(kpis)
        V == Seq(Range(kpis))
        Step(v, i) == IF kpis[i] \in selected THEN Append(v, kpis[i]) ELSE v
    IN  /\ f \in [0 .. n -> V]
        /\ f[0] = <<>>
        /\ f[n] = Listed(kpis, selected)
        /\ \A i \in 1 .. n : f[i] = Step(f[i - 1], i)

LEMMA ListedSteps ==
  ASSUME NEW K, NEW kpis \in Seq(K), NEW selected
  PROVE  \E f : ListedGoes(f, kpis, selected)
<1> DEFINE n == Len(kpis)
           V == Seq(Range(kpis))
           Step(v, i) == IF kpis[i] \in selected THEN Append(v, kpis[i]) ELSE v
           G == [p \in (1 .. n) \X V |-> Step(p[2], p[1])]
           Eq(g) == g = [s \in SUBSET (1 .. n) |->
                            IF s = {} THEN <<>> ELSE Step(g[s \ {Max(s)}], Max(s))]
           iter == CHOOSE g : Eq(g)
<1>1. n \in Nat /\ DOMAIN kpis = 1 .. n
  OBVIOUS
<1>2. Listed(kpis, selected) = iter[1 .. n]
  BY <1>1 DEF Listed, FoldLeft, MapThenFoldSet
<1>3. \A i \in 1 .. n, v \in V : Step(v, i) \in V
  <2> SUFFICES ASSUME NEW i \in 1 .. n, NEW v \in V PROVE Step(v, i) \in V
    OBVIOUS
  <2>1. kpis[i] \in Range(kpis)
    BY <1>1 DEF Range
  <2>2. QED
    BY <2>1
<1>6. G \in [(1 .. n) \X V -> V]
  BY <1>3
<1>7. <<>> \in V
    OBVIOUS
<1>8. \A i \in 1 .. n, v \in V : G[<<i, v>>] = Step(v, i)
  OBVIOUS
<1> HIDE DEF V, G, Step
<1>9. PICK h \in [SUBSET (1 .. n) -> V] : IsFoldLeft(h, n, <<>>, G)
  <2> HIDE DEF n
  <2>1. QED
    BY <1>1, <1>6, <1>7, FoldLeftExists
<1>10. Eq(h)
  <2>1. \A s \in SUBSET (1 .. n) : s # {} => h[s] = Step(h[s \ {Max(s)}], Max(s))
    BY <1>1, <1>8, <1>9, MaxOfInterval DEF IsFoldLeft
  <2>2. QED
    BY <1>9, <2>1 DEF IsFoldLeft
<1>11. Eq(iter)
  BY <1>10
<1> HIDE DEF iter
<1>12. ASSUME NEW i \in 1 .. n PROVE iter[1 .. i] = Step(iter[1 .. (i - 1)], i)
  <2>1. Max(1 .. i) = i /\ (1 .. i) \ {i} = 1 .. (i - 1) /\ 1 .. i # {} /\ 1 .. i \in SUBSET (1 .. n)
    <3> HIDE DEF n
    <3>1. QED
      BY <1>1, Intervals
  <2>2. QED
    BY <1>11, <2>1
<1>13. GoesOn(iter, n, <<>>, V, G)
  <2>1. iter[1 .. 0] = <<>>
    BY <1>11
  <2>2. QED
    BY <1>8, <1>12, <2>1 DEF GoesOn
<1>14. PICK f \in [0 .. n -> V] : GoesThrough(f, n, <<>>, G) /\ f[n] = iter[1 .. n]
  <2> HIDE DEF n
  <2>1. HasSteps(n, V, <<>>, G, iter)
    BY <1>1, <1>6, <1>7, <1>13, FoldLeftSteps
  <2>2. QED
    BY <2>1 DEF HasSteps
<1>15. ASSUME NEW i \in 1 .. n PROVE f[i] = Step(f[i - 1], i)
  <2> HIDE DEF n
  <2>1. i - 1 \in 0 .. n
    BY <1>1
  <2>2. f[i - 1] \in V
    BY <2>1
  <2>3. QED
    BY <1>8, <1>14, <2>2 DEF GoesThrough
<1>16. QED
  BY <1>2, <1>14, <1>15 DEF V, Step, GoesThrough, ListedGoes

\* The cards get their values one after the other.
ByCodeGoes(f, recipes, rows) ==
    LET n == Len(recipes)
        V == Valued(RecipeCodes(recipes))
        Step(v, i) == IF recipes[i].kind # "aggregate" THEN v
                          ELSE Put(v, recipes[i].code, Card(recipes[i], rows))
    IN  /\ f \in [0 .. n -> V]
        /\ f[0] = <<>>
        /\ f[n] = ByCode(recipes, rows)
        /\ \A i \in 1 .. n : f[i] = Step(f[i - 1], i)

LEMMA ByCodeSteps ==
  ASSUME NEW K, NEW recipes \in Seq(K), NEW rows, Carded(recipes, rows)
  PROVE  \E f : ByCodeGoes(f, recipes, rows)
<1> DEFINE n == Len(recipes)
           V == Valued(RecipeCodes(recipes))
           Step(v, i) == IF recipes[i].kind # "aggregate" THEN v
                          ELSE Put(v, recipes[i].code, Card(recipes[i], rows))
           G == [p \in (1 .. n) \X V |-> Step(p[2], p[1])]
           Eq(g) == g = [s \in SUBSET (1 .. n) |->
                            IF s = {} THEN <<>> ELSE Step(g[s \ {Max(s)}], Max(s))]
           iter == CHOOSE g : Eq(g)
<1>1. n \in Nat /\ DOMAIN recipes = 1 .. n
  OBVIOUS
<1>2. ByCode(recipes, rows) = iter[1 .. n]
  BY <1>1 DEF ByCode, FoldLeft, MapThenFoldSet
<1>3. \A i \in 1 .. n, v \in V : Step(v, i) \in V
  <2> SUFFICES ASSUME NEW i \in 1 .. n, NEW v \in V PROVE Step(v, i) \in V
    OBVIOUS
  <2>1. recipes[i].code \in RecipeCodes(recipes)
    BY <1>1 DEF RecipeCodes
  <2>2. recipes[i].kind = "aggregate" => Card(recipes[i], rows) \in Numbers
    BY <1>1 DEF Carded, Aggregates, Range
  <2>3. QED
    BY <2>1, <2>2, PutIsValued
<1>6. G \in [(1 .. n) \X V -> V]
  BY <1>3
<1>7. <<>> \in V
  BY NothingIsValued
<1>8. \A i \in 1 .. n, v \in V : G[<<i, v>>] = Step(v, i)
  OBVIOUS
<1> HIDE DEF V, G, Step
<1>9. PICK h \in [SUBSET (1 .. n) -> V] : IsFoldLeft(h, n, <<>>, G)
  <2> HIDE DEF n
  <2>1. QED
    BY <1>1, <1>6, <1>7, FoldLeftExists
<1>10. Eq(h)
  <2>1. \A s \in SUBSET (1 .. n) : s # {} => h[s] = Step(h[s \ {Max(s)}], Max(s))
    BY <1>1, <1>8, <1>9, MaxOfInterval DEF IsFoldLeft
  <2>2. QED
    BY <1>9, <2>1 DEF IsFoldLeft
<1>11. Eq(iter)
  BY <1>10
<1> HIDE DEF iter
<1>12. ASSUME NEW i \in 1 .. n PROVE iter[1 .. i] = Step(iter[1 .. (i - 1)], i)
  <2>1. Max(1 .. i) = i /\ (1 .. i) \ {i} = 1 .. (i - 1) /\ 1 .. i # {} /\ 1 .. i \in SUBSET (1 .. n)
    <3> HIDE DEF n
    <3>1. QED
      BY <1>1, Intervals
  <2>2. QED
    BY <1>11, <2>1
<1>13. GoesOn(iter, n, <<>>, V, G)
  <2>1. iter[1 .. 0] = <<>>
    BY <1>11
  <2>2. QED
    BY <1>8, <1>12, <2>1 DEF GoesOn
<1>14. PICK f \in [0 .. n -> V] : GoesThrough(f, n, <<>>, G) /\ f[n] = iter[1 .. n]
  <2> HIDE DEF n
  <2>1. HasSteps(n, V, <<>>, G, iter)
    BY <1>1, <1>6, <1>7, <1>13, FoldLeftSteps
  <2>2. QED
    BY <2>1 DEF HasSteps
<1>15. ASSUME NEW i \in 1 .. n PROVE f[i] = Step(f[i - 1], i)
  <2> HIDE DEF n
  <2>1. i - 1 \in 0 .. n
    BY <1>1
  <2>2. f[i - 1] \in V
    BY <2>1
  <2>3. QED
    BY <1>8, <1>14, <2>2 DEF GoesThrough
<1>16. QED
  BY <1>2, <1>14, <1>15 DEF V, Step, GoesThrough, ByCodeGoes

\* The measures of the cards get their values one after the other.
ByMeasureGoes(f, recipes, rows) ==
    LET n == Len(recipes)
        V == Valued(DOMAIN Measures)
        Step(v, i) == IF recipes[i].kind # "aggregate" THEN v
                          ELSE Remember(v, recipes[i].args[2], recipes[i].args[1], Card(recipes[i], rows))
    IN  /\ f \in [0 .. n -> V]
        /\ f[0] = <<>>
        /\ f[n] = ByMeasure(recipes, rows)
        /\ \A i \in 1 .. n : f[i] = Step(f[i - 1], i)

LEMMA ByMeasureSteps ==
  ASSUME NEW K, NEW recipes \in Seq(K), NEW rows, Carded(recipes, rows)
  PROVE  \E f : ByMeasureGoes(f, recipes, rows)
<1> DEFINE n == Len(recipes)
           V == Valued(DOMAIN Measures)
           Step(v, i) == IF recipes[i].kind # "aggregate" THEN v
                          ELSE Remember(v, recipes[i].args[2], recipes[i].args[1], Card(recipes[i], rows))
           G == [p \in (1 .. n) \X V |-> Step(p[2], p[1])]
           Eq(g) == g = [s \in SUBSET (1 .. n) |->
                            IF s = {} THEN <<>> ELSE Step(g[s \ {Max(s)}], Max(s))]
           iter == CHOOSE g : Eq(g)
<1>1. n \in Nat /\ DOMAIN recipes = 1 .. n
  OBVIOUS
<1>2. ByMeasure(recipes, rows) = iter[1 .. n]
  BY <1>1 DEF ByMeasure, FoldLeft, MapThenFoldSet
<1>3. \A i \in 1 .. n, v \in V : Step(v, i) \in V
  <2> SUFFICES ASSUME NEW i \in 1 .. n, NEW v \in V PROVE Step(v, i) \in V
    OBVIOUS
  <2>1. recipes[i].kind = "aggregate" => /\ Card(recipes[i], rows) \in Numbers
                                         /\ recipes[i].args[1] \in DOMAIN Measures
    BY <1>1 DEF Carded, Aggregates, Range
  <2>2. QED
    BY <2>1, PutIsValued DEF Remember
<1>6. G \in [(1 .. n) \X V -> V]
  BY <1>3
<1>7. <<>> \in V
  BY NothingIsValued
<1>8. \A i \in 1 .. n, v \in V : G[<<i, v>>] = Step(v, i)
  OBVIOUS
<1> HIDE DEF V, G, Step
<1>9. PICK h \in [SUBSET (1 .. n) -> V] : IsFoldLeft(h, n, <<>>, G)
  <2> HIDE DEF n
  <2>1. QED
    BY <1>1, <1>6, <1>7, FoldLeftExists
<1>10. Eq(h)
  <2>1. \A s \in SUBSET (1 .. n) : s # {} => h[s] = Step(h[s \ {Max(s)}], Max(s))
    BY <1>1, <1>8, <1>9, MaxOfInterval DEF IsFoldLeft
  <2>2. QED
    BY <1>9, <2>1 DEF IsFoldLeft
<1>11. Eq(iter)
  BY <1>10
<1> HIDE DEF iter
<1>12. ASSUME NEW i \in 1 .. n PROVE iter[1 .. i] = Step(iter[1 .. (i - 1)], i)
  <2>1. Max(1 .. i) = i /\ (1 .. i) \ {i} = 1 .. (i - 1) /\ 1 .. i # {} /\ 1 .. i \in SUBSET (1 .. n)
    <3> HIDE DEF n
    <3>1. QED
      BY <1>1, Intervals
  <2>2. QED
    BY <1>11, <2>1
<1>13. GoesOn(iter, n, <<>>, V, G)
  <2>1. iter[1 .. 0] = <<>>
    BY <1>11
  <2>2. QED
    BY <1>8, <1>12, <2>1 DEF GoesOn
<1>14. PICK f \in [0 .. n -> V] : GoesThrough(f, n, <<>>, G) /\ f[n] = iter[1 .. n]
  <2> HIDE DEF n
  <2>1. HasSteps(n, V, <<>>, G, iter)
    BY <1>1, <1>6, <1>7, <1>13, FoldLeftSteps
  <2>2. QED
    BY <2>1 DEF HasSteps
<1>15. ASSUME NEW i \in 1 .. n PROVE f[i] = Step(f[i - 1], i)
  <2> HIDE DEF n
  <2>1. i - 1 \in 0 .. n
    BY <1>1
  <2>2. f[i - 1] \in V
    BY <2>1
  <2>3. QED
    BY <1>8, <1>14, <2>2 DEF GoesThrough
<1>16. QED
  BY <1>2, <1>14, <1>15 DEF V, Step, GoesThrough, ByMeasureGoes

\* What a round finds for a recipe.
Found(known, v, r) ==
    Derived(r.kind, Lookup(Completed(v, known), r.args[1]), Lookup(Completed(v, known), r.args[2]))

\* A round goes through the formulas one after the other.
RoundGoes(f, known, recipes, values) ==
    LET n == Len(recipes)
        V == Valued(RecipeCodes(recipes))
        Step(v, i) == IF \/ recipes[i].kind = "aggregate"
                             \/ recipes[i].code \in DOMAIN v
                             \/ ~ IsNumber(Found(known, v, recipes[i]))
                          THEN v ELSE Put(v, recipes[i].code, Found(known, v, recipes[i]))
    IN  /\ f \in [0 .. n -> V]
        /\ f[0] = values
        /\ f[n] = Round(known, recipes, values)
        /\ \A i \in 1 .. n : f[i] = Step(f[i - 1], i)

LEMMA RoundSteps ==
  ASSUME NEW K, NEW recipes \in Seq(K), NEW M, NEW known \in Valued(M),
         NEW values \in Valued(RecipeCodes(recipes))
  PROVE  \E f : RoundGoes(f, known, recipes, values)
<1> DEFINE n == Len(recipes)
           V == Valued(RecipeCodes(recipes))
           Step(v, i) == IF \/ recipes[i].kind = "aggregate"
                             \/ recipes[i].code \in DOMAIN v
                             \/ ~ IsNumber(Found(known, v, recipes[i]))
                          THEN v ELSE Put(v, recipes[i].code, Found(known, v, recipes[i]))
           G == [p \in (1 .. n) \X V |-> Step(p[2], p[1])]
           Eq(g) == g = [s \in SUBSET (1 .. n) |->
                            IF s = {} THEN values ELSE Step(g[s \ {Max(s)}], Max(s))]
           iter == CHOOSE g : Eq(g)
<1>1. n \in Nat /\ DOMAIN recipes = 1 .. n
  OBVIOUS
<1>2. Round(known, recipes, values) = iter[1 .. n]
  BY <1>1 DEF Round, Found, FoldLeft, MapThenFoldSet
<1>3. \A i \in 1 .. n, v \in V : Step(v, i) \in V
  <2> SUFFICES ASSUME NEW i \in 1 .. n, NEW v \in V PROVE Step(v, i) \in V
    OBVIOUS
  <2>1. recipes[i].code \in RecipeCodes(recipes)
    BY <1>1 DEF RecipeCodes
  <2>2. \A name : Lookup(Completed(v, known), name) \in Numbers
    BY DEF Valued, Lookup, Completed, Numbers
  <2>3. Found(known, v, recipes[i]) \in Numbers
    BY <2>2, DerivedIsANumber DEF Found
  <2>4. QED
    BY <2>1, <2>3, PutIsValued
<1>6. G \in [(1 .. n) \X V -> V]
  BY <1>3
<1>7. values \in V
    OBVIOUS
<1>8. \A i \in 1 .. n, v \in V : G[<<i, v>>] = Step(v, i)
  OBVIOUS
<1> HIDE DEF V, G, Step
<1>9. PICK h \in [SUBSET (1 .. n) -> V] : IsFoldLeft(h, n, values, G)
  <2> HIDE DEF n
  <2>1. QED
    BY <1>1, <1>6, <1>7, FoldLeftExists
<1>10. Eq(h)
  <2>1. \A s \in SUBSET (1 .. n) : s # {} => h[s] = Step(h[s \ {Max(s)}], Max(s))
    BY <1>1, <1>8, <1>9, MaxOfInterval DEF IsFoldLeft
  <2>2. QED
    BY <1>9, <2>1 DEF IsFoldLeft
<1>11. Eq(iter)
  BY <1>10
<1> HIDE DEF iter
<1>12. ASSUME NEW i \in 1 .. n PROVE iter[1 .. i] = Step(iter[1 .. (i - 1)], i)
  <2>1. Max(1 .. i) = i /\ (1 .. i) \ {i} = 1 .. (i - 1) /\ 1 .. i # {} /\ 1 .. i \in SUBSET (1 .. n)
    <3> HIDE DEF n
    <3>1. QED
      BY <1>1, Intervals
  <2>2. QED
    BY <1>11, <2>1
<1>13. GoesOn(iter, n, values, V, G)
  <2>1. iter[1 .. 0] = values
    BY <1>11
  <2>2. QED
    BY <1>8, <1>12, <2>1 DEF GoesOn
<1>14. PICK f \in [0 .. n -> V] : GoesThrough(f, n, values, G) /\ f[n] = iter[1 .. n]
  <2> HIDE DEF n
  <2>1. HasSteps(n, V, values, G, iter)
    BY <1>1, <1>6, <1>7, <1>13, FoldLeftSteps
  <2>2. QED
    BY <2>1 DEF HasSteps
<1>15. ASSUME NEW i \in 1 .. n PROVE f[i] = Step(f[i - 1], i)
  <2> HIDE DEF n
  <2>1. i - 1 \in 0 .. n
    BY <1>1
  <2>2. f[i - 1] \in V
    BY <2>1
  <2>3. QED
    BY <1>8, <1>14, <2>2 DEF GoesThrough
<1>16. QED
  BY <1>2, <1>14, <1>15 DEF V, Step, GoesThrough, RoundGoes

\* Recipes that can be shown.
LEMMA PresentableIsCarded ==
  ASSUME NEW s, NEW rows, Presentable(s, rows)
  PROVE  /\ s \in Seq(Range(s))
         /\ Carded(s, rows)
         /\ \A r \in Aggregates(s) : Card(r, rows) = Aggregate(r.args[2], r.args[1], rows)
<1>1. s \in Seq(Range(s))
  BY DEF Presentable
<1>2. ASSUME NEW r \in Aggregates(s)
      PROVE  /\ Card(r, rows) = Aggregate(r.args[2], r.args[1], rows)
             /\ Card(r, rows) \in Numbers
             /\ r.args[1] \in DOMAIN Measures
  <2>1. /\ r.args[1] \in DOMAIN Measures
        /\ Aggregate(r.args[2], r.args[1], rows) \in Int \X Int
        /\ Aggregate(r.args[2], r.args[1], rows) # Null
    BY CardsAreNumbers
  <2>2. QED
    BY <2>1 DEF Card, OrZero, IsNumber, Numbers
<1>3. QED
  BY <1>1, <1>2 DEF Carded

\* Before any round, the cards are known by their codes, and nothing else is.
LEMMA ByCodeIs ==
  ASSUME NEW s, NEW rows, Presentable(s, rows)
  PROVE  /\ DOMAIN ByCode(s, rows) = RecipeCodes(s) \ {r.code : r \in Derivations(s)}
         /\ \A r \in Aggregates(s) : /\ r.code \in DOMAIN ByCode(s, rows)
                                     /\ ByCode(s, rows)[r.code] = Aggregate(r.args[2], r.args[1], rows)
<1> DEFINE n == Len(s)
           isCard(j) == s[j].kind = "aggregate"
           Cards(i) == {s[j].code : j \in {l \in 1 .. i : isCard(l)}}
<1>1. n \in Nat /\ DOMAIN s = 1 .. n
  BY DEF Presentable
<1>2. PICK f : ByCodeGoes(f, s, rows)
  BY PresentableIsCarded, ByCodeSteps
<1>3. /\ f[0] = <<>> /\ f[n] = ByCode(s, rows)
      /\ \A i \in 1 .. n : f[i] = IF ~ isCard(i) THEN f[i - 1]
                                  ELSE Put(f[i - 1], s[i].code, Card(s[i], rows))
  BY <1>2 DEF ByCodeGoes
<1> DEFINE D == {i \in 0 .. n : /\ DOMAIN f[i] = Cards(i)
                                /\ \A j \in 1 .. i : isCard(j) => f[i][s[j].code] = Card(s[j], rows)}
<1>4. \A i, j \in 1 .. n : s[i].code = s[j].code => i = j
  BY <1>1 DEF Presentable, NamesApart
<1> HIDE DEF isCard
<1>5. ASSUME NEW i \in 1 .. n, i - 1 \in D PROVE i \in D
  <2>1. i \in 0 .. n /\ 1 .. i = (1 .. (i - 1)) \cup {i} /\ \A j \in 1 .. i : j \in 1 .. n
    BY <1>1
  <2>2. /\ DOMAIN f[i - 1] = Cards(i - 1)
        /\ \A j \in 1 .. (i - 1) : isCard(j) => f[i - 1][s[j].code] = Card(s[j], rows)
    BY <1>5
  <2>3. CASE ~ isCard(i)
    <3>1. f[i] = f[i - 1]
      BY <1>3, <2>3
    <3>2. Cards(i) = Cards(i - 1)
      BY <2>1, <2>3
    <3>3. \A j \in 1 .. i : isCard(j) => j \in 1 .. (i - 1)
      BY <2>1, <2>3
    <3> HIDE DEF Cards
    <3>4. QED
      BY <2>1, <2>2, <3>1, <3>2, <3>3
  <2>4. CASE isCard(i)
    <3>1. f[i] = Put(f[i - 1], s[i].code, Card(s[i], rows))
      BY <1>3, <2>4
    <3>2. Cards(i) = Cards(i - 1) \cup {s[i].code}
      BY <2>1, <2>4
    <3>3. \A j \in 1 .. (i - 1) : isCard(j) => s[j].code \in Cards(i - 1) /\ s[j].code # s[i].code
      BY <1>1, <1>4, <2>1
    <3> HIDE DEF Cards
    <3>4. DOMAIN f[i] = Cards(i)
      BY <2>2, <3>1, <3>2 DEF Put
    <3>5. \A j \in 1 .. (i - 1) : isCard(j) => f[i][s[j].code] = Card(s[j], rows)
      BY <2>2, <3>1, <3>3 DEF Put
    <3>6. f[i][s[i].code] = Card(s[i], rows)
      BY <3>1 DEF Put
    <3>7. QED
      BY <2>1, <3>4, <3>5, <3>6
  <2>5. QED
    BY <2>3, <2>4
<1>6. D = 0 .. n
  <2>1. 0 \in D
    BY <1>1, <1>3
  <2>2. D \in SUBSET (0 .. n)
    OBVIOUS
  <2> HIDE DEF D, n
  <2>3. QED
    BY <1>1, <1>5, <2>1, <2>2, UpTo
<1>7. /\ DOMAIN ByCode(s, rows) = Cards(n)
      /\ \A j \in 1 .. n : isCard(j) => ByCode(s, rows)[s[j].code] = Card(s[j], rows)
  <2>1. n \in D
    BY <1>1, <1>6
  <2>2. QED
    BY <1>3, <2>1
<1>8. \A r \in Aggregates(s) : \E j \in 1 .. n : r = s[j] /\ isCard(j)
  BY <1>1 DEF Aggregates, Range, isCard
<1>9. Cards(n) = RecipeCodes(s) \ {r.code : r \in Derivations(s)}
  <2>1. {r.code : r \in Derivations(s)} = {s[j].code : j \in {l \in 1 .. n : ~ isCard(l)}}
    BY <1>1 DEF Derivations, Aggregates, Range, isCard
  <2>2. RecipeCodes(s) = {s[j].code : j \in 1 .. n}
    BY <1>1 DEF RecipeCodes
  <2>3. \A i, j \in 1 .. n : isCard(i) /\ ~ isCard(j) => s[i].code # s[j].code
    BY <1>4
  <2>4. QED
    BY <2>1, <2>2, <2>3
<1>10. \A j \in 1 .. n : isCard(j) => s[j].code \in Cards(n)
  OBVIOUS
<1> HIDE DEF Cards
<1>11. QED
  BY <1>7, <1>8, <1>9, <1>10, PresentableIsCarded

\* A card that shows a measure as it is declared has the measure's total.
LEMMA DeclaredCard ==
  ASSUME NEW s, NEW rows, Presentable(s, rows), NEW r \in Aggregates(s),
         r.args[2] = Measures[r.args[1]].aggregation
  PROVE  Card(r, rows) = TargetTotals(Measures, rows)[r.args[1]]
<1>1. r.args[1] \in DOMAIN Measures
  BY CardsAreNumbers
<1>2. QED
  BY <1>1 DEF Card, TargetTotals

\* What the cards say of their measures are their totals.
LEMMA ByMeasureIs ==
  ASSUME NEW s, NEW rows, Presentable(s, rows)
  PROVE  /\ DOMAIN ByMeasure(s, rows) \subseteq DOMAIN Measures
         /\ \A m \in DOMAIN ByMeasure(s, rows) :
               ByMeasure(s, rows)[m] = TargetTotals(Measures, rows)[m]
<1> DEFINE n == Len(s)
           totals == TargetTotals(Measures, rows)
           isCard(j) == s[j].kind = "aggregate"
           isOf(j, m) == isCard(j) /\ s[j].args[1] = m
           Settled(i, m) == \/ Measures[m].aggregation # "sum"
                            \/ \E j \in 1 .. i : isOf(j, m) /\ s[j].args[2] = "sum"
<1>1. n \in Nat /\ DOMAIN s = 1 .. n
  BY DEF Presentable
<1>2. PICK f : ByMeasureGoes(f, s, rows)
  BY PresentableIsCarded, ByMeasureSteps
<1>3. /\ f[0] = <<>> /\ f[n] = ByMeasure(s, rows) /\ f[n] \in Valued(DOMAIN Measures)
      /\ \A i \in 1 .. n : f[i] = IF ~ isCard(i) THEN f[i - 1]
                                  ELSE Remember(f[i - 1], s[i].args[2], s[i].args[1], Card(s[i], rows))
  BY <1>1, <1>2 DEF ByMeasureGoes
<1>4. \A j \in 1 .. n : isCard(j) => s[j] \in Aggregates(s)
  BY <1>1 DEF Aggregates, Range
<1>5. ASSUME NEW j \in 1 .. n, isCard(j)
      PROVE  LET declared == Measures[s[j].args[1]].aggregation
             IN  /\ declared # "sum" => s[j].args[2] = declared
                 /\ s[j].args[2] = declared => Card(s[j], rows) = totals[s[j].args[1]]
                 /\ declared = "sum" => \E l \in 1 .. n : isOf(l, s[j].args[1]) /\ s[l].args[2] = "sum"
  <2> DEFINE declared == Measures[s[j].args[1]].aggregation
             shown == {q.args[2] : q \in {k \in Aggregates(s) : k.args[1] = s[j].args[1]}}
  <2>1. s[j] \in Aggregates(s)
    BY <1>4, <1>5
  <2>2. declared \in shown /\ (declared = "sum" \/ shown = {declared})
    BY <2>1 DEF Presentable, MeasuresShown
  <2>3. s[j].args[2] \in shown
    BY <2>1
  <2>4. declared # "sum" => s[j].args[2] = declared
    BY <2>2, <2>3
  <2>5. s[j].args[2] = declared => Card(s[j], rows) = totals[s[j].args[1]]
    BY <2>1, DeclaredCard
  <2>6. \A k \in Aggregates(s) : \E l \in 1 .. n : k = s[l] /\ isCard(l)
    BY <1>1 DEF Aggregates, Range
  <2>7. declared = "sum" => \E l \in 1 .. n : isOf(l, s[j].args[1]) /\ s[l].args[2] = "sum"
    BY <2>2, <2>6
  <2>8. QED
    BY <2>4, <2>5, <2>7
<1> DEFINE D == {i \in 0 .. n : /\ \A j \in 1 .. i : isCard(j) => s[j].args[1] \in DOMAIN f[i]
                                /\ \A m \in DOMAIN f[i] : \E j \in 1 .. i : isOf(j, m)
                                /\ \A m \in DOMAIN f[i] : Settled(i, m) => f[i][m] = totals[m]}
<1>6. ASSUME NEW i \in 1 .. n, i - 1 \in D PROVE i \in D
  <2>1. i \in 0 .. n /\ 1 .. i = (1 .. (i - 1)) \cup {i} /\ \A j \in 1 .. i : j \in 1 .. n
    BY <1>1
  <2>2. /\ \A j \in 1 .. (i - 1) : isCard(j) => s[j].args[1] \in DOMAIN f[i - 1]
        /\ \A m \in DOMAIN f[i - 1] : \E j \in 1 .. (i - 1) : isOf(j, m)
        /\ \A m \in DOMAIN f[i - 1] : Settled(i - 1, m) => f[i - 1][m] = totals[m]
    BY <1>6
  <2> DEFINE x == s[i].args[1]
             operation == s[i].args[2]
             puts == isCard(i) /\ (operation = "sum" \/ x \notin DOMAIN f[i - 1])
  <2>3. f[i] = IF puts THEN Put(f[i - 1], x, Card(s[i], rows)) ELSE f[i - 1]
    BY <1>3 DEF Remember
  <2>4. /\ puts => DOMAIN f[i] = DOMAIN f[i - 1] \cup {x} /\ f[i][x] = Card(s[i], rows)
        /\ puts => \A m \in DOMAIN f[i - 1] \ {x} : f[i][m] = f[i - 1][m]
        /\ ~ puts => f[i] = f[i - 1]
    BY <2>3 DEF Put
  <2>5. isCard(i) => x \in DOMAIN f[i] /\ isOf(i, x)
    BY <2>4
  <2>6. \A m : Settled(i, m) <=> Settled(i - 1, m) \/ (isOf(i, m) /\ operation = "sum")
    BY <2>1
  <2>7. \A m : Settled(i, m) /\ ~ Settled(i - 1, m) => Measures[m].aggregation = "sum" /\ m = x /\ isCard(i) /\ operation = "sum"
    BY <2>6
  <2>8. ASSUME NEW m \in DOMAIN f[i], Settled(i, m) PROVE f[i][m] = totals[m]
    <3>1. CASE puts /\ m = x
      <4>1. operation = Measures[x].aggregation
        <5>1. CASE Measures[x].aggregation # "sum"
          BY <1>5, <3>1, <5>1
        <5>2. CASE Measures[x].aggregation = "sum"
          <6>1. PICK j \in 1 .. i : isOf(j, x) /\ s[j].args[2] = "sum"
            BY <2>8, <3>1, <5>2
          <6>2. CASE j = i
            BY <5>2, <6>1, <6>2
          <6>3. CASE j # i
            <7>1. j \in 1 .. (i - 1)
              BY <2>1, <6>3
            <7>2. x \in DOMAIN f[i - 1]
              BY <2>2, <6>1, <7>1
            <7>3. QED
              BY <3>1, <5>2, <7>2
          <6>4. QED
            BY <6>2, <6>3
        <5>3. QED
          BY <5>1, <5>2
      <4>2. QED
        BY <1>5, <2>4, <3>1, <4>1
    <3>2. CASE puts /\ m # x
      BY <2>2, <2>4, <2>7, <2>8, <3>2
    <3>3. CASE ~ puts
      BY <2>2, <2>4, <2>7, <2>8, <3>3
    <3>4. QED
      BY <3>1, <3>2, <3>3
  <2>9. \A j \in 1 .. i : isCard(j) => s[j].args[1] \in DOMAIN f[i]
    BY <2>1, <2>2, <2>4, <2>5
  <2>10. \A m \in DOMAIN f[i] : \E j \in 1 .. i : isOf(j, m)
    BY <2>1, <2>2, <2>4, <2>5
  <2> HIDE DEF Settled, isOf, isCard
  <2>11. QED
    BY <2>1, <2>8, <2>9, <2>10
<1>7. n \in D
  <2>1. 0 \in D
    BY <1>1, <1>3
  <2>2. D \in SUBSET (0 .. n)
    OBVIOUS
  <2> HIDE DEF D
  <2>3. D = 0 .. n
    <3> HIDE DEF n
    <3>1. QED
      BY <1>1, <1>6, <2>1, <2>2, UpTo
  <2>4. QED
    BY <1>1, <2>3
<1>8. \A m \in DOMAIN f[n] : f[n][m] = totals[m]
  <2> TAKE m \in DOMAIN f[n]
  <2>1. PICK j \in 1 .. n : isOf(j, m)
    BY <1>7
  <2>2. Settled(n, m)
    BY <1>5, <2>1
  <2>3. QED
    BY <1>7, <2>2
<1>9. DOMAIN f[n] \subseteq DOMAIN Measures
  BY <1>3 DEF Valued
<1>10. QED
  BY <1>3, <1>8, <1>9

\* What the formulas start from: totals of measures, each that a formula reads and no
\* card is called like among them.
LEMMA KnownIs ==
  ASSUME NEW s, NEW rows, Presentable(s, rows)
  PROVE  LET known == WithDependencies(Measures, s, rows)
         IN  /\ DOMAIN known \subseteq DOMAIN Measures
             /\ \A m \in DOMAIN known : known[m] = TargetTotals(Measures, rows)[m]
             /\ \A r \in Derivations(s) :
                   (Range(r.args) \cap DOMAIN Measures) \ RecipeCodes(s) \subseteq DOMAIN known
<1> DEFINE base == ByMeasure(s, rows)
           totals == TargetTotals(Measures, rows)
           needed == UNION {Range(r.args) : r \in Derivations(s)}
           missing == (needed \cap DOMAIN Measures)
                        \ (DOMAIN base \cup DOMAIN ByCode(s, rows))
           others == [m \in missing |-> OrZero(Aggregate(Measures[m].aggregation, m, rows))]
           known == Completed(base, others)
<1>1. WithDependencies(Measures, s, rows) = known
  BY DEF WithDependencies
<1>2. DOMAIN base \subseteq DOMAIN Measures /\ \A m \in DOMAIN base : base[m] = totals[m]
  BY ByMeasureIs
<1>3. \A m \in missing : others[m] = totals[m]
  BY DEF TargetTotals
<1>4. DOMAIN others = missing /\ missing \subseteq DOMAIN Measures
  OBVIOUS
<1>5. DOMAIN ByCode(s, rows) \subseteq RecipeCodes(s)
  BY ByCodeIs
<1>6. \A r \in Derivations(s) : (Range(r.args) \cap DOMAIN Measures) \ RecipeCodes(s)
                                  \subseteq missing \cup DOMAIN base
  BY <1>5
<1> HIDE DEF missing, others, base, totals
<1>7. DOMAIN known = DOMAIN base \cup missing
  BY <1>4 DEF Completed
<1>8. \A m \in DOMAIN known : known[m] = totals[m]
  BY <1>2, <1>3, <1>4 DEF Completed
<1> HIDE DEF known
<1>9. QED
  BY <1>1, <1>2, <1>4, <1>6, <1>7, <1>8 DEF totals

\* Recipes without aliases are shown as they are.
LEMMA UniqueIs ==
  ASSUME NEW K, NEW s \in Seq(K),
         \A i, j \in DOMAIN s : s[i].kind = "aggregate" /\ s[j].kind = "aggregate"
                                   /\ s[i].args = s[j].args => i = j
  PROVE  Unique(s) = s
<1> DEFINE n == Len(s)
<1>1. n \in Nat /\ DOMAIN s = 1 .. n
  OBVIOUS
<1>2. PICK f : UniqueGoes(f, s)
  BY UniqueSteps
<1>3. /\ f \in [0 .. n -> Seq(Range(s))] /\ f[0] = <<>> /\ f[n] = Unique(s)
      /\ \A i \in 1 .. n : f[i] = IF s[i].kind = "aggregate" /\ Repeats(f[i - 1], s[i])
                                  THEN f[i - 1] ELSE Append(f[i - 1], s[i])
  BY <1>2 DEF UniqueGoes
<1> DEFINE D == {i \in 0 .. n : Len(f[i]) = i /\ \A j \in 1 .. i : f[i][j] = s[j]}
<1>4. ASSUME NEW i \in 1 .. n, i - 1 \in D PROVE i \in D
  <2>1. i \in 0 .. n /\ i - 1 \in 0 .. n /\ \A j \in 1 .. (i - 1) : j \in 1 .. n /\ j # i
    BY <1>1
  <2>2. Len(f[i - 1]) = i - 1 /\ \A j \in 1 .. (i - 1) : f[i - 1][j] = s[j]
    BY <1>4
  <2>3. f[i - 1] \in Seq(Range(s)) /\ DOMAIN f[i - 1] = 1 .. (i - 1)
    BY <1>3, <2>1, <2>2
  <2>4. s[i].kind = "aggregate" => ~ Repeats(f[i - 1], s[i])
    BY <1>1, <2>1, <2>2, <2>3 DEF Repeats
  <2>5. f[i] = Append(f[i - 1], s[i])
    BY <1>3, <2>4
  <2>6. s[i] \in Range(s)
    BY <1>1 DEF Range
  <2>7. Len(f[i]) = i /\ \A j \in 1 .. i : f[i][j] = s[j]
    BY <2>1, <2>2, <2>3, <2>5, <2>6
  <2>8. QED
    BY <2>1, <2>7
<1>5. n \in D
  <2>1. 0 \in D
    BY <1>1, <1>3
  <2>2. D \in SUBSET (0 .. n)
    OBVIOUS
  <2> HIDE DEF D
  <2>3. D = 0 .. n
    <3> HIDE DEF n
    <3>1. QED
      BY <1>1, <1>4, <2>1, <2>2, UpTo
  <2>4. QED
    BY <1>1, <2>3
<1>6. f[n] \in Seq(Range(s)) /\ Len(f[n]) = n /\ \A j \in 1 .. n : f[n][j] = s[j]
  BY <1>1, <1>3, <1>5
<1>7. f[n] = s
  BY <1>6
<1>8. QED
  BY <1>3, <1>7

\* What the formulas start from has numbers.
LEMMA KnownIsValued ==
  ASSUME NEW s, NEW rows, Presentable(s, rows)
  PROVE  WithDependencies(Measures, s, rows) \in Valued(DOMAIN Measures)
<1> DEFINE known == WithDependencies(Measures, s, rows)
<1>1. /\ DOMAIN known \subseteq DOMAIN Measures
      /\ \A m \in DOMAIN known : known[m] = TargetTotals(Measures, rows)[m]
  BY KnownIs
<1>2. \A m \in DOMAIN Measures : TargetTotals(Measures, rows)[m] \in Numbers
  <2> TAKE m \in DOMAIN Measures
  <2>1. Aggregate(Measures[m].aggregation, m, rows) \in Numbers
    BY AggregateIsANumber DEF Presentable
  <2>2. Zero \in Numbers
    BY DEF Zero, Numbers
  <2>3. QED
    BY <2>1, <2>2 DEF TargetTotals, OrZero
<1>3. known = [m \in DOMAIN known |-> known[m]]
  BY DEF WithDependencies, Completed
<1> HIDE DEF known
<1>4. known \in [DOMAIN known -> Numbers]
  BY <1>1, <1>2, <1>3
<1>5. QED
  BY <1>1, <1>4 DEF Valued, known

\* The rounds of a dashboard, from the values of the cards on.
DashboardGoes(f, s, rows) ==
    LET n == Cardinality(Derivations(s))
    IN  /\ f \in [0 .. n -> Valued(RecipeCodes(s))]
        /\ f[0] = ByCode(s, rows)
        /\ f[n] = DashboardValues(Measures, s, rows)
        /\ \A i \in 1 .. n : f[i] = Round(WithDependencies(Measures, s, rows), s, f[i - 1])

LEMMA DashboardSteps ==
  ASSUME NEW s, NEW rows, Presentable(s, rows), Unique(s) = s, IsFiniteSet(Derivations(s))
  PROVE  \E f : DashboardGoes(f, s, rows)
<1> DEFINE n == Cardinality(Derivations(s))
           V == Valued(RecipeCodes(s))
           known == WithDependencies(Measures, s, rows)
           base == ByCode(s, rows)
           G == [p \in (1 .. n) \X V |-> Round(known, s, p[2])]
           Eq(g) == g = [k \in 0 .. n |-> IF k = 0 THEN base ELSE Round(known, s, g[k - 1])]
           values == CHOOSE g : Eq(g)
<1>1. n \in Nat
  BY FS_CardinalityType
<1>2. s \in Seq(Range(s)) /\ Carded(s, rows)
  BY PresentableIsCarded
<1>3. base \in V
  <2>1. PICK f : ByCodeGoes(f, s, rows)
    BY <1>2, ByCodeSteps
  <2>2. Len(s) \in 0 .. Len(s)
    BY <1>2
  <2>3. QED
    BY <2>1, <2>2 DEF ByCodeGoes
<1>4. known \in Valued(DOMAIN Measures)
  BY KnownIsValued
<1>5. ASSUME NEW v \in V PROVE Round(known, s, v) \in V
  <2>1. PICK f : RoundGoes(f, known, s, v)
    <3> HIDE DEF known
    <3>1. QED
      BY <1>2, <1>4, RoundSteps
  <2>2. Len(s) \in 0 .. Len(s)
    BY <1>2
  <2>3. QED
    BY <2>1, <2>2 DEF RoundGoes
<1>6. G \in [(1 .. n) \X V -> V]
  BY <1>5
<1>7. \A i \in 1 .. n, v \in V : G[<<i, v>>] = Round(known, s, v)
  OBVIOUS
<1>8. DashboardValues(Measures, s, rows) = values[n]
  BY DEF DashboardValues
<1> HIDE DEF V, G, n, known, base
<1>9. PICK h \in [SUBSET (1 .. n) -> V] : IsFoldLeft(h, n, base, G)
  BY <1>1, <1>3, <1>6, FoldLeftExists
<1>10. GoesOn(h, n, base, V, G)
  <2>1. h[1 .. 0] = base
    <3>1. 1 .. 0 = {} /\ {} \in SUBSET (1 .. n)
      OBVIOUS
    <3>2. h[{}] = base
      BY <1>9, <3>1 DEF IsFoldLeft
    <3>3. QED
      BY <3>1, <3>2
  <2>2. ASSUME NEW i \in 1 .. n PROVE h[1 .. i] = G[<<i, h[1 .. (i - 1)]>>]
    <3>1. Max(1 .. i) = i /\ (1 .. i) \ {i} = 1 .. (i - 1) /\ 1 .. i # {} /\ 1 .. i \in SUBSET (1 .. n)
      BY <1>1, Intervals
    <3>2. QED
      BY <1>9, <3>1 DEF IsFoldLeft
  <2>3. QED
    BY <2>1, <2>2 DEF GoesOn
<1>11. PICK f \in [0 .. n -> V] : GoesThrough(f, n, base, G)
  <2>1. HasSteps(n, V, base, G, h)
    BY <1>1, <1>3, <1>6, <1>10, FoldLeftSteps
  <2>2. QED
    BY <2>1 DEF HasSteps
<1>12. \A i \in 1 .. n : f[i] = Round(known, s, f[i - 1])
  <2> TAKE i \in 1 .. n
  <2>1. i - 1 \in 0 .. n
    BY <1>1
  <2>2. f[i - 1] \in V
    BY <2>1
  <2>3. QED
    BY <1>7, <1>11, <2>2 DEF GoesThrough
<1>13. f[0] = base
  BY <1>11 DEF GoesThrough
<1>14. Eq(f)
  <2>1. \A k \in 0 .. n : k # 0 => k \in 1 .. n
    BY <1>1
  <2>2. QED
    BY <1>12, <1>13, <2>1
<1>15. Eq(values)
  BY <1>14
<1> HIDE DEF values
<1>16. \A i \in 1 .. n : values[i] = Round(known, s, values[i - 1])
  <2>1. \A i \in 1 .. n : i \in 0 .. n /\ i # 0
    BY <1>1
  <2>2. QED
    BY <1>15, <2>1
<1>17. values[0] = base
  BY <1>1, <1>15
<1>18. \A i \in 0 .. n : values[i] \in V
  <2> DEFINE D == {i \in 0 .. n : values[i] \in V}
  <2>1. 0 \in D
    BY <1>1, <1>3, <1>17
  <2>2. ASSUME NEW i \in 1 .. n, i - 1 \in D PROVE i \in D
    <3>1. i \in 0 .. n
      BY <1>1
    <3>2. values[i - 1] \in V
      BY <2>2
    <3>3. Round(known, s, values[i - 1]) \in V
      BY <1>5, <3>2 DEF V
    <3>4. QED
      BY <1>16, <3>1, <3>3
  <2>3. D \in SUBSET (0 .. n)
    OBVIOUS
  <2> HIDE DEF D
  <2>4. D = 0 .. n
    BY <1>1, <2>1, <2>2, <2>3, UpTo
  <2>5. QED
    BY <2>4 DEF D
<1>19. values \in [0 .. n -> V]
  BY <1>15, <1>18
<1>20. QED
  BY <1>8, <1>16, <1>17, <1>19 DEF DashboardGoes, V, n, known, base

\* What was found is what the load computed, and the cards are found.
Agrees(found, L, s) ==
    /\ DOMAIN found \subseteq RecipeCodes(s)
    /\ \A r \in Aggregates(s) : r.code \in DOMAIN found
    /\ \A c \in DOMAIN found : found[c] = L[c] /\ L[c] # Null

\* The names that a formula reads and that the load has a value for are found.
InputsFound(r, found, L, s) ==
    \A x \in Range(r.args) \cap RecipeCodes(s) : L[x] # Null => x \in DOMAIN found

\* An input that is known is the one of the load, and so is one that was found or is no KPI.
LEMMA InputIs ==
  ASSUME NEW s, NEW rows, Presentable(s, rows), NEW L, Fixed(L, s, rows),
         NEW found, Agrees(found, L, s), NEW r \in Derivations(s), NEW x \in Range(r.args)
  PROVE  LET a == Lookup(Completed(found, WithDependencies(Measures, s, rows)), x)
             b == Lookup(Completed(L, TargetTotals(Measures, rows)), x)
         IN  /\ a # Null => a = b
             /\ InputsFound(r, found, L, s) /\ b # Null => a = b
<1> DEFINE known == WithDependencies(Measures, s, rows)
           totals == TargetTotals(Measures, rows)
           a == Lookup(Completed(found, known), x)
           b == Lookup(Completed(L, totals), x)
<1>1. /\ DOMAIN known \subseteq DOMAIN Measures
      /\ \A m \in DOMAIN known : known[m] = totals[m]
      /\ (Range(r.args) \cap DOMAIN Measures) \ RecipeCodes(s) \subseteq DOMAIN known
  BY KnownIs
<1>2. DOMAIN L = RecipeCodes(s)
  BY DEF Fixed
<1>3. DOMAIN totals = DOMAIN Measures
  BY DEF TargetTotals
<1>4. /\ a = IF x \in DOMAIN found THEN found[x] ELSE Lookup(known, x)
      /\ b = IF x \in DOMAIN L THEN L[x] ELSE Lookup(totals, x)
  BY CompletedLookup
<1> HIDE DEF a, b, known, totals
<1>5. CASE x \in DOMAIN found
  BY <1>2, <1>4, <1>5 DEF Agrees, a, b, known, totals
<1>6. CASE x \notin DOMAIN found /\ x \in RecipeCodes(s)
  <2>1. x \notin DOMAIN Measures
    <3>1. PICK q \in Range(s) : x = q.code
      BY <1>6, CodesOf
    <3>2. x \in DOMAIN Measures => q \in Aggregates(s)
      BY <3>1, CalledLikeAMeasure
    <3>3. QED
      BY <1>6, <3>1, <3>2 DEF Agrees
  <2>2. a = Null
    BY <1>1, <1>4, <1>6, <2>1 DEF Lookup
  <2>3. InputsFound(r, found, L, s) => L[x] = Null
    BY <1>6 DEF InputsFound
  <2>4. b = L[x]
    BY <1>2, <1>4, <1>6
  <2>5. QED
    BY <2>2, <2>3, <2>4 DEF a, b, known, totals
<1>7. CASE x \notin DOMAIN found /\ x \notin RecipeCodes(s)
  <2>1. a = Lookup(known, x) /\ b = Lookup(totals, x)
    BY <1>2, <1>4, <1>7
  <2>2. Lookup(known, x) = Lookup(totals, x)
    BY <1>1, <1>3, <1>7 DEF Lookup
  <2>3. QED
    BY <2>1, <2>2 DEF a, b, known, totals
<1>8. QED
  BY <1>5, <1>6, <1>7 DEF a, b, known, totals

\* What a round finds for a formula is the value of the load, and it finds it once the
\* inputs are there.
LEMMA FoundIs ==
  ASSUME NEW s, NEW rows, Presentable(s, rows), NEW L, Fixed(L, s, rows),
         NEW found, Agrees(found, L, s), NEW r \in Derivations(s)
  PROVE  LET x == Found(WithDependencies(Measures, s, rows), found, r)
         IN  /\ x # Null => x = L[r.code]
             /\ InputsFound(r, found, L, s) /\ L[r.code] # Null => x = L[r.code]
<1> DEFINE a(name) == Lookup(Completed(found, WithDependencies(Measures, s, rows)), name)
           b(name) == Lookup(Completed(L, TargetTotals(Measures, rows)), name)
           y == r.args[1]
           z == r.args[2]
<1>1. r \in Range(s) /\ r.kind # "aggregate"
  BY DEF Derivations, Aggregates
<1>2. y \in Range(r.args) /\ z \in Range(r.args)
  BY <1>1 DEF Presentable, Range
<1>3. /\ a(y) # Null => a(y) = b(y)
      /\ InputsFound(r, found, L, s) /\ b(y) # Null => a(y) = b(y)
  BY <1>2, InputIs
<1>4. /\ a(z) # Null => a(z) = b(z)
      /\ InputsFound(r, found, L, s) /\ b(z) # Null => a(z) = b(z)
  BY <1>2, InputIs
<1>5. L[r.code] = Derived(r.kind, b(y), b(z))
  BY <1>1 DEF Fixed, LoadValue
<1>6. Found(WithDependencies(Measures, s, rows), found, r) = Derived(r.kind, a(y), a(z))
  BY DEF Found
<1> HIDE DEF a, b, y, z
<1>7. Derived(r.kind, a(y), a(z)) # Null => a(y) # Null /\ a(z) # Null
  BY DEF Derived, IsNumber
<1>8. Derived(r.kind, b(y), b(z)) # Null => b(y) # Null /\ b(z) # Null
  BY DEF Derived, IsNumber
<1>9. QED
  BY <1>3, <1>4, <1>5, <1>6, <1>7, <1>8

\* A round keeps what was found, and finds the formulas whose inputs are there.
LEMMA RoundIs ==
  ASSUME NEW s, NEW rows, Presentable(s, rows), NEW L, Fixed(L, s, rows),
         NEW values \in Valued(RecipeCodes(s)), Agrees(values, L, s)
  PROVE  LET next == Round(WithDependencies(Measures, s, rows), s, values)
         IN  /\ Agrees(next, L, s)
             /\ DOMAIN values \subseteq DOMAIN next
             /\ \A r \in Derivations(s) :
                   InputsFound(r, values, L, s) /\ L[r.code] # Null => r.code \in DOMAIN next
<1> DEFINE n == Len(s)
           known == WithDependencies(Measures, s, rows)
           next == Round(known, s, values)
           Ready(r) == r \in Derivations(s) /\ InputsFound(r, values, L, s) /\ L[r.code] # Null
<1>1. n \in Nat /\ DOMAIN s = 1 .. n /\ s \in Seq(Range(s))
  BY DEF Presentable
<1>2. PICK f : RoundGoes(f, known, s, values)
  <2>1. known \in Valued(DOMAIN Measures)
    BY KnownIsValued
  <2> HIDE DEF known
  <2>2. QED
    BY <1>1, <2>1, RoundSteps
<1>3. /\ f[0] = values /\ f[n] = next
      /\ \A i \in 1 .. n : f[i] = IF \/ s[i].kind = "aggregate"
                                     \/ s[i].code \in DOMAIN f[i - 1]
                                     \/ ~ IsNumber(Found(known, f[i - 1], s[i]))
                                  THEN f[i - 1]
                                  ELSE Put(f[i - 1], s[i].code, Found(known, f[i - 1], s[i]))
  BY <1>2 DEF RoundGoes
<1> DEFINE D == {i \in 0 .. n : /\ Agrees(f[i], L, s)
                                /\ DOMAIN values \subseteq DOMAIN f[i]
                                /\ \A j \in 1 .. i : Ready(s[j]) => s[j].code \in DOMAIN f[i]}
<1>4. ASSUME NEW i \in 1 .. n, i - 1 \in D PROVE i \in D
  <2> DEFINE found == f[i - 1]
             x == Found(known, found, s[i])
  <2>1. i \in 0 .. n /\ \A j \in 1 .. i : j = i \/ j \in 1 .. (i - 1)
    BY <1>1
  <2>2. /\ Agrees(found, L, s)
        /\ DOMAIN values \subseteq DOMAIN found
        /\ \A j \in 1 .. (i - 1) : Ready(s[j]) => s[j].code \in DOMAIN found
    BY <1>4
  <2>3. s[i] \in Range(s) /\ s[i].code \in RecipeCodes(s)
    BY <1>1 DEF Range, RecipeCodes
  <2>4. s[i].kind # "aggregate" <=> s[i] \in Derivations(s)
    BY <2>3 DEF Derivations, Aggregates
  <2>5. s[i] \in Derivations(s) => /\ x # Null => x = L[s[i].code]
                                   /\ Ready(s[i]) => x = L[s[i].code]
    <3> HIDE DEF found, x
    <3> SUFFICES ASSUME s[i] \in Derivations(s)
                 PROVE  /\ x # Null => x = L[s[i].code]
                        /\ Ready(s[i]) => x = L[s[i].code]
      OBVIOUS
    <3>1. /\ x # Null => x = L[s[i].code]
          /\ InputsFound(s[i], found, L, s) /\ L[s[i].code] # Null => x = L[s[i].code]
      BY <2>2, FoundIs DEF x
    <3>2. InputsFound(s[i], values, L, s) => InputsFound(s[i], found, L, s)
      BY <2>2 DEF InputsFound
    <3>3. QED
      BY <3>1, <3>2
  <2>6. Ready(s[i]) => s[i] \in Derivations(s) /\ L[s[i].code] # Null
    OBVIOUS
  <2>7. f[i] = IF s[i].kind = "aggregate" \/ s[i].code \in DOMAIN found \/ x = Null
               THEN found ELSE Put(found, s[i].code, x)
    BY <1>3 DEF IsNumber
  <2> HIDE DEF Ready, found, x
  <2>8. CASE s[i].kind = "aggregate" \/ s[i].code \in DOMAIN found \/ x = Null
    <3>1. f[i] = found
      BY <2>7, <2>8
    <3>2. Ready(s[i]) => s[i].code \in DOMAIN found
      BY <2>4, <2>5, <2>6, <2>8
    <3>3. QED
      BY <2>1, <2>2, <3>1, <3>2
  <2>9. CASE ~ (s[i].kind = "aggregate" \/ s[i].code \in DOMAIN found \/ x = Null)
    <3>1. f[i] = Put(found, s[i].code, x)
      BY <2>7, <2>9
    <3>2. x = L[s[i].code] /\ x # Null
      BY <2>4, <2>5, <2>9
    <3>3. DOMAIN f[i] = DOMAIN found \cup {s[i].code}
      BY <3>1 DEF Put
    <3>4. \A c \in DOMAIN f[i] : f[i][c] = L[c] /\ L[c] # Null
      BY <2>2, <3>1, <3>2 DEF Put, Agrees
    <3>5. Agrees(f[i], L, s)
      BY <2>2, <2>3, <3>3, <3>4 DEF Agrees
    <3>6. QED
      BY <2>1, <2>2, <3>3, <3>5
  <2>10. QED
    BY <2>8, <2>9
<1>5. n \in D
  <2>1. 0 \in D
    BY <1>1, <1>3
  <2>2. D \in SUBSET (0 .. n)
    OBVIOUS
  <2> HIDE DEF D
  <2>3. D = 0 .. n
    <3> HIDE DEF n
    <3>1. QED
      BY <1>1, <1>4, <2>1, <2>2, UpTo
  <2>4. QED
    BY <1>1, <2>3
<1>6. /\ Agrees(next, L, s)
      /\ DOMAIN values \subseteq DOMAIN next
      /\ \A j \in 1 .. n : Ready(s[j]) => s[j].code \in DOMAIN next
  <2> HIDE DEF next, Ready
  <2>1. QED
    BY <1>3, <1>5
<1>7. \A r \in Derivations(s) : \E j \in 1 .. n : r = s[j]
  BY <1>1 DEF Derivations, Range
<1>8. QED
  BY <1>6, <1>7

\* Before any round, what the cards say is what the load computed.
LEMMA CardsAgree ==
  ASSUME NEW s, NEW rows, Presentable(s, rows), NEW L, Fixed(L, s, rows)
  PROVE  Agrees(ByCode(s, rows), L, s)
<1>1. /\ DOMAIN ByCode(s, rows) = RecipeCodes(s) \ {r.code : r \in Derivations(s)}
      /\ \A r \in Aggregates(s) : /\ r.code \in DOMAIN ByCode(s, rows)
                                  /\ ByCode(s, rows)[r.code] = Aggregate(r.args[2], r.args[1], rows)
  BY ByCodeIs
<1>2. ASSUME NEW c \in DOMAIN ByCode(s, rows)
      PROVE  ByCode(s, rows)[c] = L[c] /\ L[c] # Null
  <2>1. PICK r \in Aggregates(s) : c = r.code
    <3>1. PICK r \in Range(s) : c = r.code
      BY <1>1, <1>2, CodesOf
    <3>2. r \notin Derivations(s)
      BY <1>1, <1>2, <3>1
    <3>3. QED
      BY <3>1, <3>2 DEF Derivations
  <2>2. L[c] = Aggregate(r.args[2], r.args[1], rows)
    BY <2>1 DEF Fixed, LoadValue, Aggregates
  <2>3. L[c] # Null
    BY <2>2, CardsAreNumbers
  <2>4. QED
    BY <1>1, <2>1, <2>2, <2>3
<1>3. QED
  BY <1>1, <1>2 DEF Agrees

\* The formulas among the first i recipes.
FormulasUpTo(o, i) == {o[j] : j \in {l \in 1 .. i : o[l].kind # "aggregate"}}

\* There is one more of them at a formula, and in the end they are all there.
LEMMA FormulasAreCounted ==
  ASSUME NEW K, NEW o \in Seq(K), \A i, j \in DOMAIN o : o[i].code = o[j].code => i = j
  PROVE  /\ FormulasUpTo(o, 0) = {}
         /\ \A i \in 0 .. Len(o) : Cardinality(FormulasUpTo(o, i)) \in 0 .. Cardinality(Derivations(o))
         /\ \A i \in 1 .. Len(o) :
               Cardinality(FormulasUpTo(o, i)) =
                  Cardinality(FormulasUpTo(o, i - 1)) + (IF o[i].kind = "aggregate" THEN 0 ELSE 1)
         /\ FormulasUpTo(o, Len(o)) = Derivations(o)
         /\ IsFiniteSet(Derivations(o))
<1> DEFINE n == Len(o)
           F(i) == FormulasUpTo(o, i)
<1>1. n \in Nat /\ DOMAIN o = 1 .. n
  OBVIOUS
<1>2. F(0) = {}
  BY DEF FormulasUpTo
<1>3. ASSUME NEW i \in 1 .. n, o[i].kind = "aggregate" PROVE F(i) = F(i - 1)
  <2>1. {l \in 1 .. i : o[l].kind # "aggregate"} = {l \in 1 .. (i - 1) : o[l].kind # "aggregate"}
    BY <1>1, <1>3
  <2>2. QED
    BY <2>1 DEF FormulasUpTo
<1>4. ASSUME NEW i \in 1 .. n, o[i].kind # "aggregate" PROVE F(i) = F(i - 1) \cup {o[i]} /\ o[i] \notin F(i - 1)
  <2>1. {l \in 1 .. i : o[l].kind # "aggregate"} = {l \in 1 .. (i - 1) : o[l].kind # "aggregate"} \cup {i}
    BY <1>1, <1>4
  <2>2. \A l \in 1 .. (i - 1) : l \in DOMAIN o /\ l # i /\ i \in DOMAIN o
    BY <1>1
  <2>3. \A l \in 1 .. (i - 1) : o[l] # o[i]
    BY <2>2
  <2>4. QED
    BY <2>1, <2>3 DEF FormulasUpTo
<1>5. F(n) = Derivations(o)
  BY <1>1 DEF FormulasUpTo, Derivations, Aggregates, Range
<1>6. \A i \in 0 .. n : F(i) \subseteq F(n)
  <2>1. \A i \in 0 .. n : 1 .. i \subseteq 1 .. n
    BY <1>1
  <2>2. QED
    BY <2>1 DEF FormulasUpTo
<1> HIDE DEF F
<1> DEFINE D == {i \in 0 .. n : IsFiniteSet(F(i))}
<1>7. ASSUME NEW i \in 1 .. n, i - 1 \in D PROVE i \in D
  <2>1. IsFiniteSet(F(i - 1) \cup {o[i]}) /\ IsFiniteSet(F(i - 1))
    BY <1>7, FS_AddElement
  <2>2. F(i) = F(i - 1) \/ F(i) = F(i - 1) \cup {o[i]}
    BY <1>3, <1>4
  <2>3. i \in 0 .. n
    BY <1>1
  <2>4. CASE F(i) = F(i - 1)
    BY <2>1, <2>3, <2>4
  <2>5. CASE F(i) = F(i - 1) \cup {o[i]}
    BY <2>1, <2>3, <2>5
  <2>6. QED
    BY <2>2, <2>4, <2>5
<1>8. D = 0 .. n
  <2>1. 0 \in D
    <3>1. 0 \in 0 .. n
      BY <1>1
    <3>2. IsFiniteSet(F(0))
      BY <1>2, FS_EmptySet
    <3>3. QED
      BY <3>1, <3>2
  <2>2. D \in SUBSET (0 .. n)
    OBVIOUS
  <2> HIDE DEF D, n
  <2>3. QED
    BY <1>1, <1>7, <2>1, <2>2, UpTo
<1>9. \A i \in 0 .. n : IsFiniteSet(F(i))
  BY <1>8
<1> HIDE DEF D
<1>10. ASSUME NEW i \in 0 .. n PROVE Cardinality(F(i)) \in 0 .. Cardinality(F(n))
  <2>1. IsFiniteSet(F(n))
    BY <1>1, <1>9
  <2>2. Cardinality(F(i)) <= Cardinality(F(n))
    BY <1>6, <2>1, FS_Subset
  <2>3. Cardinality(F(i)) \in Nat /\ Cardinality(F(n)) \in Nat
    BY <1>9, <2>1, FS_CardinalityType
  <2> HIDE DEF n
  <2>4. QED
    BY <2>2, <2>3
<1>11. ASSUME NEW i \in 1 .. n
       PROVE  Cardinality(F(i)) = Cardinality(F(i - 1)) + (IF o[i].kind = "aggregate" THEN 0 ELSE 1)
  <2>1. IsFiniteSet(F(i - 1))
    BY <1>1, <1>9
  <2>2. Cardinality(F(i - 1)) \in Nat
    BY <2>1, FS_CardinalityType
  <2>3. CASE o[i].kind = "aggregate"
    BY <1>3, <2>2, <2>3
  <2>4. CASE o[i].kind # "aggregate"
    <3>1. F(i) = F(i - 1) \cup {o[i]} /\ o[i] \notin F(i - 1)
      BY <1>4, <2>4
    <3>2. Cardinality(F(i - 1) \cup {o[i]}) = Cardinality(F(i - 1)) + 1
      BY <2>1, <3>1, FS_AddElement
    <3>3. QED
      BY <2>4, <3>1, <3>2
  <2>5. QED
    BY <2>3, <2>4
<1>12. IsFiniteSet(F(n))
  BY <1>1, <1>9
<1>13. QED
  BY <1>2, <1>5, <1>10, <1>11, <1>12 DEF F

\* A dashboard shows what a load of the same rows computes that goes through the same
\* recipes in order: as many rounds as there are formulas find every value that a load
\* finds in one pass, since each round finds at least the next formula of that order.
LEMMA DashboardIs ==
  ASSUME NEW s, NEW o, NEW rows, Presentable(s, rows), Unique(s) = s,
         Presentable(o, rows), Ordered(o), Range(o) = Range(s)
  PROVE  \A c \in RecipeCodes(s) :
            Lookup(DashboardValues(Measures, s, rows), c) = Lookup(LoadValues(Measures, o, rows), c)
<1> DEFINE L == LoadValues(Measures, o, rows)
           n == Len(o)
           N == Cardinality(Derivations(s))
           Count(i) == Cardinality(FormulasUpTo(o, i))
<1>1. Derivations(o) = Derivations(s) /\ Aggregates(o) = Aggregates(s) /\ RecipeCodes(o) = RecipeCodes(s)
  BY CodesOf DEF Derivations, Aggregates
<1>2. Fixed(L, o, rows)
  BY LoadIsFixed
<1> HIDE DEF L
<1>3. Fixed(L, s, rows)
  BY <1>1, <1>2 DEF Fixed
<1>4. n \in Nat /\ DOMAIN o = 1 .. n /\ o \in Seq(Range(o)) /\ \A i, j \in DOMAIN o : o[i].code = o[j].code => i = j
  BY DEF Presentable, NamesApart
<1>5. /\ \A i \in 0 .. n : Count(i) \in 0 .. N
      /\ \A i \in 1 .. n : Count(i) = Count(i - 1) + (IF o[i].kind = "aggregate" THEN 0 ELSE 1)
      /\ Count(n) = N
      /\ IsFiniteSet(Derivations(s))
  BY <1>1, <1>4, FormulasAreCounted
<1>6. N \in Nat
  BY <1>5, FS_CardinalityType
<1>7. PICK f : DashboardGoes(f, s, rows)
  BY <1>5, DashboardSteps
<1>8. /\ f \in [0 .. N -> Valued(RecipeCodes(s))]
      /\ f[0] = ByCode(s, rows)
      /\ f[N] = DashboardValues(Measures, s, rows)
      /\ \A k \in 1 .. N : f[k] = Round(WithDependencies(Measures, s, rows), s, f[k - 1])
  BY <1>7 DEF DashboardGoes
<1> HIDE DEF N, Count
<1> DEFINE D == {k \in 0 .. N : Agrees(f[k], L, s)}
<1>9. \A k \in 0 .. N : Agrees(f[k], L, s)
  <2>1. 0 \in D
    BY <1>3, <1>6, <1>8, CardsAgree
  <2>2. ASSUME NEW k \in 1 .. N, k - 1 \in D PROVE k \in D
    <3>1. k - 1 \in 0 .. N /\ k \in 0 .. N
      BY <1>6
    <3>2. f[k - 1] \in Valued(RecipeCodes(s)) /\ Agrees(f[k - 1], L, s)
      BY <1>8, <2>2, <3>1
    <3>3. Agrees(f[k], L, s)
      BY <1>3, <1>8, <3>2, RoundIs
    <3>4. QED
      BY <3>1, <3>3
  <2>3. D \in SUBSET (0 .. N)
    OBVIOUS
  <2> HIDE DEF D
  <2>4. D = 0 .. N
    BY <1>6, <2>1, <2>2, <2>3, UpTo
  <2>5. QED
    BY <2>4 DEF D
<1>10. ASSUME NEW k \in 1 .. N
       PROVE  /\ DOMAIN f[k - 1] \subseteq DOMAIN f[k]
              /\ \A r \in Derivations(s) :
                    InputsFound(r, f[k - 1], L, s) /\ L[r.code] # Null => r.code \in DOMAIN f[k]
  <2>1. k - 1 \in 0 .. N
    BY <1>6
  <2>2. f[k - 1] \in Valued(RecipeCodes(s)) /\ Agrees(f[k - 1], L, s)
    BY <1>8, <1>9, <2>1
  <2>3. QED
    BY <1>3, <1>8, <2>2, RoundIs
<1>11. \A k \in 0 .. N : DOMAIN f[0] \subseteq DOMAIN f[k]
  <2> DEFINE E == {k \in 0 .. N : DOMAIN f[0] \subseteq DOMAIN f[k]}
  <2>1. 0 \in E
    BY <1>6
  <2>2. ASSUME NEW k \in 1 .. N, k - 1 \in E PROVE k \in E
    <3>1. k \in 0 .. N
      BY <1>6
    <3>2. QED
      BY <1>10, <2>2, <3>1
  <2>3. E \in SUBSET (0 .. N)
    OBVIOUS
  <2> HIDE DEF E
  <2>4. E = 0 .. N
    BY <1>6, <2>1, <2>2, <2>3, UpTo
  <2>5. QED
    BY <2>4 DEF E
\* Everything among the first i recipes that has a value is found after Count(i) rounds.
<1> DEFINE Reached(i) == \A j \in 1 .. i : L[o[j].code] # Null => o[j].code \in DOMAIN f[Count(i)]
           E == {i \in 0 .. n : Reached(i)}
<1>12. ASSUME NEW i \in 1 .. n, i - 1 \in E PROVE i \in E
  <2>1. i \in 0 .. n /\ i - 1 \in 0 .. n /\ \A j \in 1 .. i : j = i \/ j \in 1 .. (i - 1)
    BY <1>4
  <2>2. Count(i) \in 0 .. N /\ Count(i - 1) \in 0 .. N
    BY <1>5, <2>1
  <2>3. Reached(i - 1)
    BY <1>12
  <2>4. o[i] \in Range(s)
    BY <1>4 DEF Range
  <2>5. CASE o[i].kind = "aggregate"
    <3>1. Count(i) = Count(i - 1)
      BY <1>5, <1>6, <2>2, <2>5
    <3>2. o[i].code \in DOMAIN f[0]
      <4>1. o[i] \in Aggregates(s)
        BY <2>4, <2>5 DEF Aggregates
      <4>2. Agrees(f[0], L, s)
        BY <1>6, <1>9
      <4>3. QED
        BY <4>1, <4>2 DEF Agrees
    <3>3. o[i].code \in DOMAIN f[Count(i)]
      BY <1>11, <2>2, <3>2
    <3>4. QED
      BY <2>1, <2>3, <3>1, <3>3
  <2>6. CASE o[i].kind # "aggregate"
    <3> DEFINE k == Count(i)
    <3>1. k = Count(i - 1) + 1 /\ k \in 1 .. N /\ k - 1 = Count(i - 1)
      BY <1>5, <1>6, <2>2, <2>6
    <3>2. \A j \in 1 .. (i - 1) : L[o[j].code] # Null => o[j].code \in DOMAIN f[k - 1]
      BY <2>3, <3>1
    <3> HIDE DEF k
    <3>3. DOMAIN f[k - 1] \subseteq DOMAIN f[k]
      BY <1>10, <3>1
    <3>4. o[i] \in Derivations(s)
      BY <2>4, <2>6 DEF Derivations, Aggregates
    <3>5. InputsFound(o[i], f[k - 1], L, s)
      <4> SUFFICES ASSUME NEW x \in Range(o[i].args), x \in RecipeCodes(s), L[x] # Null
                   PROVE  x \in DOMAIN f[k - 1]
        BY DEF InputsFound
      <4>1. PICK j \in 1 .. n : x = o[j].code
        BY <1>1, <1>4 DEF RecipeCodes
      <4>2. CASE x \in DOMAIN Measures
        <5>1. o[j] \in Range(s)
          BY <1>4 DEF Range
        <5>2. o[j] \in Aggregates(s)
          BY <4>1, <4>2, <5>1, CalledLikeAMeasure
        <5>3. Agrees(f[k - 1], L, s)
          <6>1. k - 1 \in 0 .. N
            BY <1>6, <3>1
          <6>2. QED
            BY <1>9, <6>1
        <5>4. QED
          BY <4>1, <5>2, <5>3 DEF Agrees
      <4>3. CASE x \notin DOMAIN Measures
        <5>1. j < i
          BY <1>4, <2>6, <4>1, <4>3 DEF Ordered
        <5>2. j \in 1 .. (i - 1)
          BY <1>4, <5>1
        <5>3. QED
          BY <3>2, <4>1, <5>2
      <4>4. QED
        BY <4>2, <4>3
    <3>6. L[o[i].code] # Null => o[i].code \in DOMAIN f[k]
      BY <1>10, <3>1, <3>4, <3>5
    <3>7. \A j \in 1 .. i : L[o[j].code] # Null => o[j].code \in DOMAIN f[k]
      BY <2>1, <3>2, <3>3, <3>6
    <3>8. QED
      BY <2>1, <3>7 DEF k
  <2>7. QED
    BY <2>5, <2>6
<1>13. n \in E
  <2>1. 0 \in E
    BY <1>4
  <2>2. E \in SUBSET (0 .. n)
    OBVIOUS
  <2> HIDE DEF E
  <2>3. E = 0 .. n
    <3> HIDE DEF n
    <3>1. QED
      BY <1>4, <1>12, <2>1, <2>2, UpTo
  <2>4. QED
    BY <1>4, <2>3
<1>14. Agrees(f[N], L, s)
  BY <1>6, <1>9
<1>15. \A c \in RecipeCodes(s) : L[c] # Null => c \in DOMAIN f[N]
  BY <1>1, <1>4, <1>5, <1>13 DEF RecipeCodes
<1>16. DOMAIN L = RecipeCodes(s)
  BY <1>3 DEF Fixed
<1>17. QED
  BY <1>8, <1>14, <1>15, <1>16 DEF Agrees, Lookup, L

-----------------------------------------------------------------------------
(* The order of a proposal *)

\* A recipe is a KPI of the proposal among the first i, and a formula comes after every
\* KPI it reads, measures aside.
InPlace(r, measures, kpis, i) ==
    \E p \in 1 .. i : /\ r = kpis[p]
                      /\ r.kind # "aggregate" =>
                            \A x \in Range(r.args) \ DOMAIN measures :
                                \E l \in 1 .. (p - 1) : kpis[l].code = x

\* No two recipes are the same aggregate of the same measure.
NoAliases(recipes) ==
    \A a, b \in DOMAIN recipes :
        recipes[a].kind = "aggregate" /\ recipes[b].kind = "aggregate"
            /\ recipes[a].args = recipes[b].args => a = b

CompiledInPlace(acc, measures, kpis, i) ==
    /\ \A a \in DOMAIN acc.recipes : InPlace(acc.recipes[a], measures, kpis, i)
    /\ NoAliases(acc.recipes)

Compilations(K, codes) == [recipes : Seq(K), issues : SUBSET codes]

\* One KPI more is compiled.
LEMMA CompileOneInPlace ==
  ASSUME NEW measures, NEW K, NEW kpis \in Seq(K), NEW i \in 1 .. Len(kpis),
         NEW codes, NEW acc \in Compilations(K, codes),
         CompiledInPlace(acc, measures, kpis, i - 1)
  PROVE  CompiledInPlace(CompileOne(measures, acc, kpis[i]), measures, kpis, i)
<1> DEFINE R == acc.recipes
           next == CompileOne(measures, acc, kpis[i])
           k == kpis[i]
           n == Len(R)
<1>1. /\ acc \in [recipes : Seq(K), issues : SUBSET codes]
      /\ n \in Nat /\ DOMAIN R = 1 .. n /\ i \in Nat
  BY DEF Compilations
<1>2. \A r : InPlace(r, measures, kpis, i - 1) => InPlace(r, measures, kpis, i)
  <2>1. \A p \in 1 .. (i - 1) : p \in 1 .. i
    BY <1>1
  <2>2. QED
    BY <2>1 DEF InPlace
<1>3. \A r : InPlace(r, measures, kpis, i - 1) => \E l \in 1 .. (i - 1) : r.code = kpis[l].code
  BY DEF InPlace
<1>4. CASE next.recipes = R
  BY <1>2, <1>4 DEF CompiledInPlace
<1>5. CASE next.recipes # R
  <2>1. /\ next = [acc EXCEPT !.recipes = Append(@, k)]
        /\ k.kind # "aggregate" => Range(k.args) \subseteq DOMAIN measures \cup RecipeCodes(R)
        /\ k.kind = "aggregate" => ~ Repeats(R, k)
    BY <1>1, <1>5 DEF CompileOne, DerivedKinds
  <2>2. next.recipes = Append(R, k)
    BY <1>1, <2>1
  <2>3. k \in K
    OBVIOUS
  <2>4. /\ DOMAIN next.recipes = 1 .. (n + 1)
        /\ \A a \in 1 .. n : next.recipes[a] = R[a]
        /\ next.recipes[n + 1] = k
        /\ \A a \in 1 .. (n + 1) : a = n + 1 \/ a \in 1 .. n
    BY <1>1, <2>2, <2>3
  <2>5. InPlace(k, measures, kpis, i)
    <3>1. ASSUME k.kind # "aggregate", NEW x \in Range(k.args) \ DOMAIN measures
          PROVE  \E l \in 1 .. (i - 1) : kpis[l].code = x
      <4>1. PICK a \in DOMAIN R : x = R[a].code
        BY <2>1, <3>1 DEF RecipeCodes
      <4>2. QED
        BY <1>3, <4>1 DEF CompiledInPlace
    <3>2. i \in 1 .. i
      BY <1>1
    <3>3. QED
      BY <3>1, <3>2 DEF InPlace
  <2> HIDE DEF next
  <2>6. \A a \in DOMAIN next.recipes : InPlace(next.recipes[a], measures, kpis, i)
    BY <1>1, <1>2, <2>4, <2>5 DEF CompiledInPlace
  <2>7. k.kind = "aggregate" => \A a \in 1 .. n : ~ (R[a].kind = "aggregate" /\ R[a].args = k.args)
    BY <1>1, <2>1 DEF Repeats
  <2>8. NoAliases(next.recipes)
    <3> SUFFICES ASSUME NEW a \in 1 .. (n + 1), NEW b \in 1 .. (n + 1),
                        next.recipes[a].kind = "aggregate", next.recipes[b].kind = "aggregate",
                        next.recipes[a].args = next.recipes[b].args
                 PROVE  a = b
      BY <2>4 DEF NoAliases
    <3> HIDE DEF n, R, k
    <3>1. CASE a \in 1 .. n /\ b \in 1 .. n
      BY <1>1, <2>4, <3>1 DEF CompiledInPlace, NoAliases, R
    <3>2. CASE a = n + 1 /\ b \in 1 .. n
      BY <2>4, <2>7, <3>2
    <3>3. CASE b = n + 1 /\ a \in 1 .. n
      BY <2>4, <2>7, <3>3
    <3>4. QED
      BY <2>4, <3>1, <3>2, <3>3
  <2>9. QED
    BY <2>6, <2>8 DEF CompiledInPlace, next
<1>6. QED
  BY <1>4, <1>5

\* What is compiled stands in the proposal after what it reads, and has no aliases.
LEMMA CompileInPlace ==
  ASSUME NEW measures, NEW K, NEW kpis \in Seq(K)
  PROVE  CompiledInPlace(Compile(measures, kpis), measures, kpis, Len(kpis))
<1> DEFINE n == Len(kpis)
           C == {k \in K : Calculable(measures, k)}
           codes == {k.code : k \in K}
           V == [recipes : Seq(C), issues : SUBSET codes]
<1>1. n \in Nat
  OBVIOUS
<1>2. PICK f : CompileGoes(f, measures, K, kpis)
  BY CompileSteps
<1>3. /\ f \in [0 .. n -> V]
      /\ f[0] = [recipes |-> <<>>, issues |-> {}]
      /\ f[n] = Compile(measures, kpis)
      /\ \A i \in 1 .. n : f[i] = CompileOne(measures, f[i - 1], kpis[i])
  BY <1>2 DEF CompileGoes
<1> DEFINE D == {i \in 0 .. n : CompiledInPlace(f[i], measures, kpis, i)}
<1>4. ASSUME NEW i \in 1 .. n, i - 1 \in D PROVE i \in D
  <2>1. i \in 0 .. n /\ i - 1 \in 0 .. n
    BY <1>1
  <2>2. f[i - 1] \in V
    BY <1>3, <2>1
  <2>3. Seq(C) \subseteq Seq(K)
    OBVIOUS
  <2> HIDE DEF C
  <2>4. f[i - 1] \in Compilations(K, codes)
    BY <2>2, <2>3 DEF Compilations
  <2>5. CompiledInPlace(f[i - 1], measures, kpis, i - 1)
    BY <1>4
  <2>6. f[i] = CompileOne(measures, f[i - 1], kpis[i])
    BY <1>3
  <2> HIDE DEF V, D, codes
  <2>7. CompiledInPlace(f[i], measures, kpis, i)
    BY <2>4, <2>5, <2>6, CompileOneInPlace
  <2>8. QED
    BY <2>1, <2>7 DEF D
<1>5. n \in D
  <2>1. 0 \in D
    BY <1>1, <1>3 DEF CompiledInPlace, NoAliases
  <2>2. D \in SUBSET (0 .. n)
    OBVIOUS
  <2> HIDE DEF D
  <2>3. D = 0 .. n
    <3> HIDE DEF n
    <3>1. QED
      BY <1>1, <1>4, <2>1, <2>2, UpTo
  <2>4. QED
    BY <1>1, <2>3
<1>6. QED
  BY <1>3, <1>5

\* The places that a part of a proposal has in it, in its order.
Places(p, list, kpis, i) ==
    /\ p \in [1 .. Len(list) -> 1 .. i]
    /\ \A a \in 1 .. Len(list) : list[a] = kpis[p[a]]
    /\ \A a, b \in 1 .. Len(list) : a < b => p[a] < p[b]

HasPlaces(list, kpis, i) == \E p : Places(p, list, kpis, i)

\* What is listed of a proposal is what is selected of it, in its order.
LEMMA ListedIs ==
  ASSUME NEW K, NEW kpis \in Seq(K), NEW selected
  PROVE  LET list == Listed(kpis, selected)
         IN  /\ list \in Seq(Range(kpis))
             /\ Range(list) = Range(kpis) \cap selected
             /\ HasPlaces(list, kpis, Len(kpis))
<1> DEFINE n == Len(kpis)
           Firsts(i) == {kpis[j] : j \in 1 .. i}
<1>1. n \in Nat /\ DOMAIN kpis = 1 .. n
  OBVIOUS
<1>2. PICK f : ListedGoes(f, kpis, selected)
  BY ListedSteps
<1>3. /\ f \in [0 .. n -> Seq(Range(kpis))] /\ f[0] = <<>> /\ f[n] = Listed(kpis, selected)
      /\ \A i \in 1 .. n : f[i] = IF kpis[i] \in selected THEN Append(f[i - 1], kpis[i]) ELSE f[i - 1]
  BY <1>2 DEF ListedGoes
<1> DEFINE D == {i \in 0 .. n : Range(f[i]) = Firsts(i) \cap selected /\ HasPlaces(f[i], kpis, i)}
<1>4. ASSUME NEW i \in 1 .. n, i - 1 \in D PROVE i \in D
  <2> DEFINE list == f[i - 1]
             m == Len(list)
  <2>1. i \in 0 .. n /\ i - 1 \in 0 .. n /\ i \in Nat /\ 1 .. i = (1 .. (i - 1)) \cup {i}
    BY <1>1
  <2>2. Range(list) = Firsts(i - 1) \cap selected /\ HasPlaces(list, kpis, i - 1)
    BY <1>4
  <2>3. PICK p : Places(p, list, kpis, i - 1)
    BY <2>2 DEF HasPlaces
  <2>4. list \in Seq(Range(kpis))
    BY <1>3, <2>1
  <2>5. m \in Nat /\ DOMAIN list = 1 .. m
    BY <2>4
  <2>6. Firsts(i) = Firsts(i - 1) \cup {kpis[i]}
    BY <2>1
  <2>7. p \in [1 .. m -> 1 .. (i - 1)]
    BY <2>3 DEF Places
  <2> HIDE DEF Firsts, list
  <2>8. CASE kpis[i] \notin selected
    <3>1. f[i] = list
      BY <1>3, <2>8 DEF list
    <3>2. Range(f[i]) = Firsts(i) \cap selected
      BY <2>2, <2>6, <2>8, <3>1
    <3>3. p \in [1 .. m -> 1 .. i]
      BY <2>1, <2>7
    <3>4. Places(p, f[i], kpis, i)
      BY <2>3, <3>1, <3>3 DEF Places
    <3>5. HasPlaces(f[i], kpis, i)
      BY <3>4 DEF HasPlaces
    <3>6. QED
      BY <2>1, <3>2, <3>5
  <2>9. CASE kpis[i] \in selected
    <3> DEFINE q == [a \in 1 .. (m + 1) |-> IF a = m + 1 THEN i ELSE p[a]]
    <3>1. f[i] = Append(list, kpis[i])
      BY <1>3, <2>9 DEF list
    <3>2. kpis[i] \in Range(kpis)
      BY <1>1 DEF Range
    <3>3. /\ Len(f[i]) = m + 1
          /\ DOMAIN f[i] = 1 .. (m + 1)
          /\ \A a \in 1 .. m : f[i][a] = list[a]
          /\ f[i][m + 1] = kpis[i]
      BY <2>4, <2>5, <3>1, <3>2
    <3>4. \A a \in 1 .. (m + 1) : a = m + 1 \/ (a \in 1 .. m /\ a # m + 1)
      BY <2>5
    <3> HIDE DEF m
    <3>5. Range(f[i]) = Range(list) \cup {kpis[i]}
      <4>1. 1 .. (m + 1) = (1 .. m) \cup {m + 1}
        BY <2>5
      <4>2. Range(list) = {list[a] : a \in 1 .. m}
        BY <2>5 DEF Range
      <4>3. Range(f[i]) = {f[i][a] : a \in 1 .. (m + 1)}
        BY <3>3 DEF Range
      <4>4. QED
        BY <3>3, <4>1, <4>2, <4>3
    <3>6. Range(f[i]) = Firsts(i) \cap selected
      BY <2>2, <2>6, <2>9, <3>5
    <3>7. /\ \A a \in 1 .. m : q[a] = p[a] /\ p[a] \in 1 .. (i - 1)
          /\ q[m + 1] = i
      BY <2>5, <2>7, <3>4
    <3>8. q \in [1 .. (m + 1) -> 1 .. i]
      BY <2>1, <2>7, <3>4
    <3> HIDE DEF q
    <3>9. \A a \in 1 .. (m + 1) : f[i][a] = kpis[q[a]]
      BY <2>3, <3>3, <3>4, <3>7 DEF Places, m
    <3>10. \A a, b \in 1 .. (m + 1) : a < b => q[a] < q[b]
      <4> SUFFICES ASSUME NEW a \in 1 .. (m + 1), NEW b \in 1 .. (m + 1), a < b PROVE q[a] < q[b]
        OBVIOUS
      <4>1. a \in 1 .. m
        BY <2>5
      <4>2. CASE b = m + 1
        BY <2>1, <3>7, <4>1, <4>2
      <4>3. CASE b # m + 1
        <5>1. b \in 1 .. m
          BY <3>4, <4>3
        <5>2. p[a] < p[b]
          BY <2>3, <4>1, <5>1 DEF Places, m
        <5>3. QED
          BY <3>7, <4>1, <5>1, <5>2
      <4>4. QED
        BY <4>2, <4>3
    <3>11. Places(q, f[i], kpis, i)
      BY <3>3, <3>8, <3>9, <3>10 DEF Places
    <3>12. HasPlaces(f[i], kpis, i)
      BY <3>11 DEF HasPlaces
    <3>13. QED
      BY <2>1, <3>6, <3>12
  <2>10. QED
    BY <2>8, <2>9
<1>5. n \in D
  <2>1. 0 \in D
    <3>1. 0 \in 0 .. n /\ Len(f[0]) = 0 /\ 1 .. 0 = {}
      BY <1>1, <1>3
    <3>2. Range(f[0]) = {} /\ Firsts(0) = {}
      BY <1>3, <3>1 DEF Range
    <3>3. Places(<<>>, f[0], kpis, 0)
      BY <1>3, <3>1 DEF Places
    <3>4. HasPlaces(f[0], kpis, 0)
      BY <3>3 DEF HasPlaces
    <3>5. QED
      BY <3>1, <3>2, <3>4
  <2>2. D \in SUBSET (0 .. n)
    OBVIOUS
  <2> HIDE DEF D
  <2>3. D = 0 .. n
    <3> HIDE DEF n
    <3>1. QED
      BY <1>1, <1>4, <2>1, <2>2, UpTo
  <2>4. QED
    BY <1>1, <2>3
<1>6. Firsts(n) = Range(kpis) /\ n \in 0 .. n
  BY <1>1 DEF Range
<1>7. QED
  BY <1>3, <1>5, <1>6

-----------------------------------------------------------------------------
(* What was selected and what was stored *)

\* A selection names recipes of the proposal, each once, and the record of a load has the
\* values of what it stored.
EInv ==
    /\ IsInjective(execution.selected)
    /\ Range(execution.selected) \subseteq Range(Compile(Measures, execution.kpis).recipes)
    /\ execution.step = "loaded" =>
          execution.values = LoadValues(Measures, execution.selected, mart.rows)

LEMMA InitEstablishesEInv == Init => EInv
<1> SUFFICES ASSUME Init PROVE EInv
  OBVIOUS
<1>1. execution.selected = <<>> /\ execution.step = "new"
  BY DEF Init
<1>2. IsInjective(<<>>) /\ Range(<<>>) = {}
  BY DEF IsInjective, Range
<1>3. QED
  BY <1>1, <1>2 DEF EInv

\* The selection stays, and so do the values of a load.
LEMMA StepKeepsEInv ==
  ASSUME MInv, TInv, EInv, Next
  PROVE  EInv'
<1>1. execution \in Executions
  BY DEF TInv
<1>2. ASSUME execution'.selected = execution.selected, execution'.kpis = execution.kpis,
             execution'.step # "loaded"
      PROVE  EInv'
  BY <1>2 DEF EInv
<1>3. ASSUME NEW new, Change(new) PROVE EInv'
  BY <1>3 DEF Change, EInv
<1>4. ASSUME NEW i \in DOMAIN Dimensions, ReadDimension(i) PROVE EInv'
  <2>1. /\ execution.step = "dimensions"
        /\ execution' \in {execution, [execution EXCEPT !.step = "fact"]}
    BY <1>4 DEF ReadDimension
  <2>2. /\ execution'.selected = execution.selected
        /\ execution'.kpis = execution.kpis
        /\ execution'.step # "loaded"
    BY <1>1, <2>1 DEF Executions
  <2>3. QED
    BY <1>2, <2>2
<1>5. ASSUME Prepare PROVE EInv'
  <2> DEFINE recipes == Compile(Measures, execution.kpis).recipes
  <2>1. PICK s \in Selections(recipes) :
            execution' = [execution EXCEPT !.step = "prepared", !.selected = s]
    BY <1>5 DEF Prepare
  <2>2. /\ execution'.selected = s
        /\ execution'.kpis = execution.kpis
        /\ execution'.step = "prepared"
    BY <1>1, <2>1 DEF Executions
  <2>3. IsInjective(s) /\ \E n \in 1 .. Len(recipes) : s \in [1 .. n -> Range(recipes)]
    BY <2>1, SelectionsOf
  <2> HIDE DEF recipes
  <2>4. Range(s) \subseteq Range(recipes)
    <3>1. \A a \in DOMAIN s : s[a] \in Range(recipes)
      BY <2>3
    <3>2. Range(s) = {s[a] : a \in DOMAIN s}
      BY DEF Range
    <3>3. QED
      BY <3>1, <3>2
  <2>5. QED
    BY <2>2, <2>3, <2>4 DEF EInv, recipes
<1>6. ASSUME Begin \/ LoadFails PROVE EInv'
  <2>1. \/ execution' = [execution EXCEPT !.step = "dimensions"]
        \/ execution' = [execution EXCEPT !.step = "failed"]
    BY <1>6 DEF Begin, LoadFails
  <2>2. /\ execution'.selected = execution.selected
        /\ execution'.kpis = execution.kpis
        /\ execution'.step # "loaded"
    BY <1>1, <2>1 DEF Executions
  <2>3. QED
    BY <1>2, <2>2
<1>7. ASSUME ReadFact PROVE EInv'
  <2> DEFINE stored == Stored(Accepted(source.facts))
             verdict == Reconciled(source.facts, stored)
             values == LoadValues(Measures, execution.selected, stored)
  <2>1. /\ mart'.rows = stored
        /\ execution' = [execution EXCEPT !.step = "loaded", !.verdict = verdict,
                                          !.values = values]
    BY <1>7 DEF MInv, Records, ReadFact
  <2> HIDE DEF stored, verdict
  <2>2. /\ execution'.selected = execution.selected
        /\ execution'.kpis = execution.kpis
        /\ execution'.values = values
    BY <1>1, <2>1 DEF Executions
  <2>3. QED
    BY <2>1, <2>2 DEF EInv
<1>8. ASSUME NEW d \in DimensionNames, NEW k \in Keys[d], InsertKey(d, k) PROVE EInv'
  BY <1>3, <1>8 DEF InsertKey
<1>9. ASSUME NEW r \in Rows, InsertFact(r) \/ DeleteFact(r) PROVE EInv'
  BY <1>3, <1>9 DEF InsertFact, DeleteFact
<1>10. QED
  BY <1>4, <1>5, <1>6, <1>7, <1>8, <1>9 DEF Next

\* The selection and the values of the record fit together in every reachable state.
THEOREM EInvAlways == Spec => []EInv
<1>1. MInv /\ TInv /\ EInv /\ [Next]_vars => EInv'
  <2> SUFFICES ASSUME MInv, TInv, EInv, [Next]_vars PROVE EInv'
    OBVIOUS
  <2>1. CASE UNCHANGED vars
    BY <2>1 DEF vars, EInv
  <2>2. CASE Next
    BY <2>2, StepKeepsEInv
  <2>3. QED
    BY <2>1, <2>2
<1>2. QED
  BY <1>1, InitEstablishesEInv, MInvAlways, TInvAlways, PTL DEF Spec

\* A part of a proposal with names apart, each KPI once, can be shown for rows that show
\* its measures.
LEMMA PartsArePresentable ==
  ASSUME NEW kpis, NamesApart(kpis), NEW list, IsInjective(list),
         list \in Seq({k \in Range(kpis) : Calculable(Measures, k)}),
         \A k \in Range(kpis) : DOMAIN k.args = {1, 2},
         NEW rows, IsFiniteSet(rows),
         \A r \in rows : \A m \in DOMAIN Measures : r.value[m] \in Int \cup {Null},
         MeasuresShown(list, rows)
  PROVE  Presentable(list, rows)
<1>1. \A a \in DOMAIN list : list[a] \in Range(kpis) /\ Calculable(Measures, list[a])
  OBVIOUS
<1>2. Range(list) = {list[a] : a \in DOMAIN list} /\ Range(kpis) = {kpis[p] : p \in DOMAIN kpis}
  BY DEF Range
<1>3. \A k \in Range(list) : k \in Range(kpis) /\ Calculable(Measures, k)
  BY <1>1, <1>2
<1>4. NamesApart(list)
  <2>1. ASSUME NEW a \in DOMAIN list, NEW b \in DOMAIN list, list[a].code = list[b].code
        PROVE  a = b
    <3>1. PICK p \in DOMAIN kpis, q \in DOMAIN kpis : list[a] = kpis[p] /\ list[b] = kpis[q]
      BY <1>1, <1>2
    <3>2. p = q
      BY <2>1, <3>1 DEF NamesApart
    <3>3. QED
      BY <3>1, <3>2 DEF IsInjective
  <2>2. QED
    BY <1>3, <2>1 DEF NamesApart
<1>5. list \in Seq({k \in Range(list) : Calculable(Measures, k)})
  <2> DEFINE C == {k \in Range(list) : Calculable(Measures, k)}
  <2>1. \A a \in 1 .. Len(list) : list[a] \in C
    BY <1>1, <1>2
  <2>2. Len(list) \in Nat /\ list \in [1 .. Len(list) -> C]
    BY <2>1
  <2>3. QED
    BY <2>2
<1>6. QED
  BY <1>3, <1>4, <1>5 DEF Presentable

\* Once listed as the proposal has them, the selected recipes are in order.
LEMMA ListIsOrdered ==
  ASSUME NEW kpis, kpis \in Seq(Range(kpis)), NamesApart(kpis), NEW selected,
         selected \subseteq Range(Compile(Measures, kpis).recipes)
  PROVE  /\ IsInjective(Listed(kpis, selected))
         /\ Range(Listed(kpis, selected)) = selected
         /\ Ordered(Listed(kpis, selected))
<1> DEFINE list == Listed(kpis, selected)
           n == Len(kpis)
           m == Len(list)
           recipes == Compile(Measures, kpis).recipes
<1>1. n \in Nat /\ DOMAIN kpis = 1 .. n
  OBVIOUS
<1>2. list \in Seq(Range(kpis)) /\ Range(list) = Range(kpis) \cap selected /\ HasPlaces(list, kpis, n)
  BY ListedIs
<1>3. \A r \in Range(recipes) : InPlace(r, Measures, kpis, n)
  <2>1. CompiledInPlace(Compile(Measures, kpis), Measures, kpis, n)
    BY CompileInPlace
  <2>2. QED
    BY <2>1 DEF CompiledInPlace, Range
<1>4. selected \subseteq Range(kpis)
  <2> SUFFICES ASSUME NEW r \in selected PROVE r \in Range(kpis)
    OBVIOUS
  <2>1. PICK p \in 1 .. n : r = kpis[p]
    BY <1>3 DEF InPlace
  <2>2. QED
    BY <1>1, <2>1 DEF Range
<1>5. Range(list) = selected
  BY <1>2, <1>4
<1>6. m \in Nat /\ DOMAIN list = 1 .. m
  BY <1>2
<1> HIDE DEF list, recipes
<1>7. PICK p : Places(p, list, kpis, n)
  BY <1>2 DEF HasPlaces
<1>8. /\ p \in [1 .. m -> 1 .. n]
      /\ \A a \in 1 .. m : list[a] = kpis[p[a]]
      /\ \A a, b \in 1 .. m : a < b => p[a] < p[b]
  BY <1>7 DEF Places
<1>9. \A a, b \in 1 .. m : p[a] = p[b] => a = b
  <2> SUFFICES ASSUME NEW a \in 1 .. m, NEW b \in 1 .. m, p[a] = p[b] PROVE a = b
    OBVIOUS
  <2>1. p[a] \in Nat /\ p[b] \in Nat
    BY <1>8
  <2>2. ~ (a < b) /\ ~ (b < a)
    BY <1>8, <2>1
  <2>3. QED
    BY <1>6, <2>2
<1>10. \A i, j \in 1 .. n : kpis[i].code = kpis[j].code => i = j
  BY <1>1 DEF NamesApart
<1>11. IsInjective(list)
  <2> SUFFICES ASSUME NEW a \in 1 .. m, NEW b \in 1 .. m, list[a] = list[b] PROVE a = b
    BY <1>6 DEF IsInjective
  <2>1. p[a] \in 1 .. n /\ p[b] \in 1 .. n /\ kpis[p[a]].code = kpis[p[b]].code
    BY <1>8
  <2>2. QED
    BY <1>9, <1>10, <2>1
<1>12. Ordered(list)
  <2> SUFFICES ASSUME NEW a \in 1 .. m, list[a].kind # "aggregate",
                      NEW x \in Range(list[a].args) \ DOMAIN Measures,
                      NEW b \in 1 .. m, list[b].code = x
               PROVE  b < a
    BY <1>6 DEF Ordered
  <2>1. list[a] \in selected
    BY <1>5, <1>6 DEF Range
  <2>2. PICK q \in 1 .. n : /\ list[a] = kpis[q]
                            /\ \E l \in 1 .. (q - 1) : kpis[l].code = x
    BY <1>3, <2>1 DEF InPlace, recipes
  <2>3. PICK l \in 1 .. (q - 1) : kpis[l].code = x
    BY <2>2
  <2>4. p[a] \in 1 .. n /\ p[b] \in 1 .. n /\ list[a] = kpis[p[a]] /\ list[b] = kpis[p[b]]
    BY <1>8
  <2>5. l \in 1 .. n
    BY <1>1
  <2>6. p[a] = q /\ p[b] = l
    BY <1>10, <2>2, <2>3, <2>4, <2>5
  <2>7. p[b] < p[a]
    BY <2>3, <2>6
  <2>8. a # b /\ ~ (a < b)
    <3>1. p[a] \in Nat /\ p[b] \in Nat
      BY <2>4
    <3>2. QED
      BY <1>8, <2>7, <3>1
  <2>9. QED
    BY <1>6, <2>8
<1>13. QED
  BY <1>5, <1>11, <1>12 DEF list

\* A dashboard recalculates what a load of the same rows computes, and what the load did
\* compute when it went in order (_resolve_kpi_values, materialize_sales).
THEOREM DashboardKeepsTheLoadAlways == Spec => []DashboardKeepsTheLoad
<1> DEFINE S == execution.selected
           kpis == execution.kpis
<1>1. ASSUME TInv, EInv, HasDashboard, NamesApart(kpis)
      PROVE  /\ \A f \in Filters : MeasuresShown(S, Shown(f)) =>
                   SameKpi(Dashboard(f), LoadValues(Measures, AsProposed, Shown(f)))
             /\ AllPlaced /\ InOrder(S) /\ MeasuresShown(S, mart.rows)
                   => SameKpi(Dashboard(Anything), execution.values)
  <2>1. /\ kpis \in Seq(Range(kpis))
        /\ \A k \in Range(kpis) : DOMAIN k.args = {1, 2}
    BY <1>1, ProposalsAssumption DEF TInv, Executions
  <2>2. /\ S \in Seq({k \in Range(kpis) : Calculable(Measures, k)})
        /\ IsInjective(S)
        /\ Range(S) \subseteq Range(Compile(Measures, kpis).recipes)
    BY <1>1 DEF TInv, SelectionFits, EInv
  <2>3. Unique(S) = S
    <3> DEFINE recipes == Compile(Measures, kpis).recipes
    <3>1. NoAliases(recipes)
      BY <2>1, CompileInPlace DEF CompiledInPlace
    <3>2. ASSUME NEW a \in DOMAIN S, NEW b \in DOMAIN S, S[a].kind = "aggregate",
                 S[b].kind = "aggregate", S[a].args = S[b].args
          PROVE  a = b
      <4> HIDE DEF S, recipes
      <4>1. /\ S[a] \in Range(S) /\ S[b] \in Range(S)
            /\ Range(S) \subseteq Range(recipes)
        <5>1. Range(S) \subseteq Range(recipes)
          BY <2>2 DEF recipes
        <5>2. QED
          BY <5>1 DEF Range
      <4>2. S[a] \in Range(recipes) /\ S[b] \in Range(recipes)
        BY <4>1
      <4>3. PICK i \in DOMAIN recipes, j \in DOMAIN recipes : S[a] = recipes[i] /\ S[b] = recipes[j]
        <5>1. \A r \in Range(recipes) : \E i \in DOMAIN recipes : r = recipes[i]
          BY DEF Range
        <5>2. QED
          BY <4>2, <5>1
      <4>4. i = j
        BY <3>1, <3>2, <4>3 DEF NoAliases
      <4>5. QED
        BY <2>2, <4>3, <4>4 DEF IsInjective
    <3> HIDE DEF S
    <3>3. QED
      BY <2>2, <3>2, UniqueIs
  <2>4. ASSUME NEW rows \in SUBSET mart.rows
        PROVE  /\ IsFiniteSet(rows)
               /\ \A r \in rows : \A m \in DOMAIN Measures : r.value[m] \in Int \cup {Null}
    <3>1. IsFiniteSet(rows)
      BY <1>1, FS_Subset DEF TInv, RowsFit
    <3>2. \A r \in rows : \A m \in DOMAIN Measures : r.value[m] \in Int \cup {Null}
      BY <1>1, RowsAssumption DEF TInv, RowsFit
    <3>3. QED
      BY <3>1, <3>2
  <2>5. ASSUME NEW rows \in SUBSET mart.rows, MeasuresShown(S, rows)
        PROVE  Presentable(S, rows)
    <3> HIDE DEF S, kpis
    <3>1. QED
      BY <1>1, <2>1, <2>2, <2>4, <2>5, PartsArePresentable
  <2>6. \A x : Same(x, x)
    BY DEF Same
  <2>7. ASSUME NEW f \in Filters, MeasuresShown(S, Shown(f))
        PROVE  SameKpi(Dashboard(f), LoadValues(Measures, AsProposed, Shown(f)))
    <3> DEFINE o == AsProposed
               rows == Shown(f)
    <3>1. rows \in SUBSET mart.rows
      BY DEF Shown, Joined
    <3>2. o = Listed(kpis, Range(S))
      BY DEF AsProposed
    <3> HIDE DEF S, kpis, o, rows
    <3>3. IsInjective(o) /\ Range(o) = Range(S) /\ Ordered(o)
      BY <1>1, <2>1, <2>2, <3>2, ListIsOrdered
    <3>4. o \in Seq({k \in Range(kpis) : Calculable(Measures, k)})
      <4> DEFINE C == {k \in Range(kpis) : Calculable(Measures, k)}
      <4>1. o \in Seq(Range(kpis))
        BY <2>1, <3>2, ListedIs
      <4>2. \A a \in 1 .. Len(o) : o[a] \in Range(S)
        <5>1. \A a \in DOMAIN o : o[a] \in Range(o)
          BY DEF Range
        <5>2. DOMAIN o = 1 .. Len(o)
          BY <4>1
        <5>3. QED
          BY <3>3, <5>1, <5>2
      <4>3. Range(S) \subseteq C
        BY <2>2 DEF Range
      <4>4. Len(o) \in Nat /\ o \in [1 .. Len(o) -> C]
        BY <4>1, <4>2, <4>3
      <4>5. QED
        BY <4>4
    <3>5. MeasuresShown(o, rows)
      <4>1. Aggregates(o) = Aggregates(S)
        BY <3>3 DEF Aggregates
      <4>2. QED
        BY <2>7, <4>1 DEF MeasuresShown, rows
    <3>6. Presentable(o, rows)
      BY <1>1, <2>1, <2>4, <3>1, <3>3, <3>4, <3>5, PartsArePresentable
    <3>7. Presentable(S, rows)
      BY <2>5, <2>7, <3>1 DEF rows
    <3>8. \A c \in RecipeCodes(S) : Lookup(DashboardValues(Measures, S, rows), c)
                                      = Lookup(LoadValues(Measures, o, rows), c)
      BY <2>3, <3>3, <3>6, <3>7, DashboardIs
    <3>9. QED
      BY <2>6, <3>8 DEF SameKpi, Dashboard, S, o, rows
  <2>8. ASSUME AllPlaced, InOrder(S), MeasuresShown(S, mart.rows)
        PROVE  SameKpi(Dashboard(Anything), execution.values)
    <3>1. Shown(Anything) = mart.rows
      BY <2>8 DEF AllPlaced, Shown, Anything
    <3>2. execution.values = LoadValues(Measures, S, mart.rows)
      BY <1>1 DEF EInv, HasDashboard
    <3>3. Presentable(S, mart.rows)
      BY <2>5, <2>8
    <3>4. Ordered(S)
      <4> SUFFICES ASSUME NEW i \in DOMAIN S, S[i].kind # "aggregate",
                          NEW x \in Range(S[i].args) \ DOMAIN Measures,
                          NEW j \in DOMAIN S, S[j].code = x
                   PROVE  j < i
        BY DEF Ordered
      <4>1. PICK l \in 1 .. (i - 1) : S[l].code = x
        BY <2>8 DEF InOrder
      <4>2. DOMAIN S = 1 .. Len(S) /\ Len(S) \in Nat
        BY <2>2
      <4> HIDE DEF S
      <4>3. l \in DOMAIN S /\ l < i
        BY <4>2
      <4>4. l = j
        BY <3>3, <4>1, <4>3 DEF Presentable, NamesApart
      <4>5. QED
        BY <4>3, <4>4
    <3>5. \A c \in RecipeCodes(S) : Lookup(DashboardValues(Measures, S, mart.rows), c)
                                      = Lookup(LoadValues(Measures, S, mart.rows), c)
      <4> HIDE DEF S
      <4>1. QED
        BY <2>3, <3>3, <3>4, DashboardIs
    <3>6. QED
      BY <2>6, <3>1, <3>2, <3>5 DEF SameKpi, Dashboard
  <2>9. QED
    BY <2>7, <2>8
<1>2. TInv /\ EInv => DashboardKeepsTheLoad
  BY <1>1 DEF DashboardKeepsTheLoad
<1>3. QED
  BY <1>2, TInvAlways, EInvAlways, PTL
=============================================================================
