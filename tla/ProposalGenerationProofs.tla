----------------------- MODULE ProposalGenerationProofs -----------------------
(***************************************************************************)
(* Proofs about ProposalGeneration, for any source, needs, answers of a    *)
(* provider and adjustments, and however many snapshots, reviews and       *)
(* versions there may be.                                                  *)
(*                                                                         *)
(* They are about what a version rests on: its review and its source, the  *)
(* part of the source that it may use, and what the source proves of the   *)
(* need.  The first sections are about the definitions that count on:      *)
(* searches in breadth, sequences without repetitions, and the scope that  *)
(* they make.  A shortest chain meets no table twice, which is why the     *)
(* evidence is still joined within a scope that has few tables.  Then come *)
(* the documents: a blueprint compiles to one document, to which measures  *)
(* and formulas are added one at a time, and nothing is lost.  Last comes  *)
(* what the validator lets pass, and how the load takes the same document: *)
(* both go through its KPI one by one, so that they are compared step by   *)
(* step.                                                                   *)
(***************************************************************************)
EXTENDS ProposalGeneration, FiniteSetTheorems, SequenceTheorems, TLAPS

-----------------------------------------------------------------------------
(* Induction and iteration *)

\* Induction over the numbers up to one of them.
LEMMA Induction ==
  ASSUME NEW N \in Nat, NEW D \in SUBSET (0 .. N), 0 \in D,
         \A n \in 1 .. N : n - 1 \in D => n \in D
  PROVE  D = 0 .. N
<1> SUFFICES ASSUME (0 .. N) \ D # {} PROVE FALSE
  OBVIOUS
<1> DEFINE R == OpToRel(<, Nat)
<1>1. \A x, y \in Nat : x < y => <<x, y>> \in R
  BY DEF OpToRel
<1>2. IsWellFoundedOn(R, Nat)
  BY NatLessThanWellFounded
<1> HIDE DEF R
<1>3. PICK x \in (0 .. N) \ D : \A y \in (0 .. N) \ D : ~ (<<y, x>> \in R)
  BY <1>2, WFMin, (0 .. N) \ D \subseteq Nat
<1>4. x \in 1 .. N /\ x - 1 \in 0 .. N /\ x - 1 < x
  OBVIOUS
<1>5. <<x - 1, x>> \in R
  BY <1>1, <1>4
<1> HIDE DEF R
<1>7. x - 1 \in D
  BY <1>3, <1>4, <1>5
<1>6. QED
  BY <1>3, <1>4, <1>7

\* The values of a recursion over the numbers up to N.
Iterates(f, N, base, G) ==
    f[0] = base /\ \A n \in 1 .. N : f[n] = G[<<f[n - 1], n>>]

\* A recursion over 0 .. N has a value, and each of its steps follows from the one before.
LEMMA IterationExists ==
  ASSUME NEW N \in Nat, NEW S, NEW base \in S, NEW G \in [S \X (1 .. N) -> S]
  PROVE  \E f \in [0 .. N -> S] : Iterates(f, N, base, G)
<1> DEFINE Goes(f, m) == Iterates(f, m, base, G)
           D == {m \in 0 .. N : \E f \in [0 .. m -> S] : Goes(f, m)}
<1>1. 0 \in D
  <2>1. [n \in 0 .. 0 |-> base] \in [0 .. 0 -> S] /\ Goes([n \in 0 .. 0 |-> base], 0)
    BY DEF Iterates
  <2> HIDE DEF Goes
  <2>2. QED
    BY <2>1
<1>2. ASSUME NEW m \in 1 .. N, NEW f \in [0 .. (m - 1) -> S], Goes(f, m - 1)
      PROVE  \E g \in [0 .. m -> S] : Goes(g, m)
  <2> DEFINE g == [n \in 0 .. m |-> IF n = m THEN G[<<f[m - 1], m>>] ELSE f[n]]
  <2>1. m - 1 \in 0 .. (m - 1) /\ f[m - 1] \in S /\ <<f[m - 1], m>> \in S \X (1 .. N)
    OBVIOUS
  <2>2. \A n \in 0 .. m : n # m => n \in 0 .. (m - 1)
    OBVIOUS
  <2>3. g \in [0 .. m -> S]
    BY <2>1, <2>2
  <2>4. \A n \in 0 .. (m - 1) : n \in 0 .. m /\ g[n] = f[n]
    OBVIOUS
  <2>5. g[m] = G[<<f[m - 1], m>>]
    OBVIOUS
  <2>6. g[0] = base
    BY <1>2, <2>4, 0 \in 0 .. (m - 1) DEF Iterates
  <2>7. ASSUME NEW n \in 1 .. m PROVE g[n] = G[<<g[n - 1], n>>]
    <3> HIDE DEF g
    <3>1. n - 1 \in 0 .. (m - 1)
      OBVIOUS
    <3>2. CASE n = m
      BY <2>4, <2>5, <3>1, <3>2
    <3>3. CASE n # m
      <4>1. n \in 1 .. (m - 1) /\ n \in 0 .. (m - 1)
        BY <3>3
      <4>2. f[n] = G[<<f[n - 1], n>>]
        BY <1>2, <4>1 DEF Iterates
      <4>3. QED
        BY <2>4, <3>1, <4>1, <4>2
    <3>4. QED
      BY <3>2, <3>3
  <2> HIDE DEF g
  <2>8. QED
    BY <2>3, <2>6, <2>7 DEF Iterates
<1> HIDE DEF Goes
<1>3. D = 0 .. N
  <2>1. \A m \in 1 .. N : m - 1 \in D => m \in D
    BY <1>2
  <2>2. D \in SUBSET (0 .. N)
    OBVIOUS
  <2> HIDE DEF D
  <2>3. QED
    BY <1>1, <2>1, <2>2, Induction
<1>4. N \in D
  <2> HIDE DEF D
  <2>1. QED
    BY <1>3
<1>5. QED
  BY <1>4 DEF Goes

\* What holds at the beginning and is kept by each step holds of all that is counted.
LEMMA StaysIn ==
  ASSUME NEW N \in Nat, NEW S, NEW f, f[0] \in S,
         \A n \in 1 .. N : f[n - 1] \in S => f[n] \in S
  PROVE  \A n \in 0 .. N : f[n] \in S
<1> DEFINE D == {n \in 0 .. N : f[n] \in S}
<1>1. 0 \in D /\ D \in SUBSET (0 .. N)
  OBVIOUS
<1>2. \A n \in 1 .. N : n - 1 \in 0 .. N /\ n \in 0 .. N
  OBVIOUS
<1>3. \A n \in 1 .. N : n - 1 \in D => n \in D
  BY <1>2
<1>4. \A n \in 0 .. N : n \in D => f[n] \in S
  OBVIOUS
<1> HIDE DEF D
<1>5. D = 0 .. N
  BY <1>1, <1>3, Induction
<1>6. QED
  BY <1>4, <1>5

-----------------------------------------------------------------------------
(* Folds *)

\* Some numbers from 1 to N have a greatest one, and the others are less.
LEMMA GreatestOfNumbers ==
  ASSUME NEW N \in Nat
  PROVE  \A s \in (SUBSET (1 .. N)) \ {{}} :
            /\ Max(s) \in s
            /\ \A x \in s : x <= Max(s)
<1> DEFINE Greatest(n) == \A s \in SUBSET (1 .. n) : s # {} => \E x \in s : \A y \in s : x >= y
           D == {n \in 0 .. N : Greatest(n)}
<1>1. 0 \in D
  <2>1. \A s \in SUBSET (1 .. 0) : s = {}
    OBVIOUS
  <2>2. Greatest(0)
    BY <2>1
  <2> HIDE DEF Greatest
  <2>3. QED
    BY <2>2
<1>2. ASSUME NEW n \in 1 .. N, Greatest(n - 1) PROVE Greatest(n)
  <2> SUFFICES ASSUME NEW s \in SUBSET (1 .. n), s # {}
               PROVE  \E x \in s : \A y \in s : x >= y
    OBVIOUS
  <2>1. CASE n \in s
    BY <2>1
  <2>2. CASE n \notin s
    <3>1. s \in SUBSET (1 .. (n - 1))
      BY <2>2
    <3>2. QED
      BY <1>2, <3>1
  <2>3. QED
    BY <2>1, <2>2
<1> HIDE DEF Greatest
<1>3. Greatest(N)
  <2>1. D \in SUBSET (0 .. N) /\ \A n \in 1 .. N : n - 1 \in D => n \in D
    BY <1>2
  <2> HIDE DEF D
  <2>2. D = 0 .. N
    BY <1>1, <2>1, Induction
  <2>3. QED
    BY <2>2 DEF D
<1>4. \A s \in (SUBSET (1 .. N)) \ {{}} : \E x \in s : \A y \in s : x >= y
  BY <1>3 DEF Greatest
<1>5. ASSUME NEW s \in (SUBSET (1 .. N)) \ {{}} PROVE Max(s) \in s /\ \A x \in s : x <= Max(s)
  <2>1. Max(s) \in s /\ \A x \in s : Max(s) >= x
    BY <1>4 DEF Max
  <2>2. QED
    BY <2>1
<1>6. QED
  BY <1>5

\* The partial results of a fold, which its definition keeps for each set of positions.
Folded(h, N, base, G) ==
    \A s \in SUBSET (1 .. N) :
        h[s] = IF s = {} THEN base ELSE G[<<h[s \ {Max(s)}], Max(s)>>]

\* A fold over a sequence has partial results: what is right for the first positions
\* stays right, so that as many corrections as there are positions are enough.
LEMMA FoldLeftExists ==
  ASSUME NEW N \in Nat, NEW V, NEW base \in V, NEW G \in [V \X (1 .. N) -> V]
  PROVE  \E h \in [SUBSET (1 .. N) -> V] : Folded(h, N, base, G)
<1> DEFINE P == SUBSET (1 .. N)
           S == [P -> V]
           Value(h, s) == IF s = {} THEN base ELSE G[<<h[s \ {Max(s)}], Max(s)>>]
           Mended(h) == [s \in P |-> Value(h, s)]
           first == [s \in P |-> base]
           C == [p \in S \X (1 .. N) |-> Mended(p[1])]
<1>1. \A s \in P : s # {} => /\ Max(s) \in 1 .. N
                              /\ s \ {Max(s)} \in P
                              /\ \A x \in s : x <= Max(s)
  BY GreatestOfNumbers
<1>2. \A h \in S : \A s \in P : Value(h, s) \in V
  BY <1>1
<1>3. \A h \in S : Mended(h) \in S
  BY <1>2
<1>4. first \in S
  OBVIOUS
<1>5. C \in [S \X (1 .. N) -> S] /\ \A h \in S, n \in 1 .. N : C[<<h, n>>] = Mended(h)
  BY <1>3
<1>6. /\ \A h \in S : \A s \in P : Mended(h)[s] = Value(h, s)
      /\ \A s \in P : first[s] = base
  OBVIOUS
<1> HIDE DEF C, first, S, Mended
<1>7. PICK f \in [0 .. N -> S] : Iterates(f, N, first, C)
  BY <1>4, <1>5, IterationExists
<1>8. f[0] = first /\ \A n \in 1 .. N : n - 1 \in 0 .. N /\ f[n] = Mended(f[n - 1])
  <2>1. \A n \in 1 .. N : n - 1 \in 0 .. N
    OBVIOUS
  <2>2. \A n \in 1 .. N : f[n - 1] \in S
    BY <1>7, <2>1
  <2>3. \A n \in 1 .. N : f[n] = C[<<f[n - 1], n>>]
    BY <1>7 DEF Iterates
  <2>4. QED
    BY <1>5, <1>7, <2>1, <2>2, <2>3 DEF Iterates
<1> DEFINE Right(n) == \A s \in SUBSET (1 .. n) : f[n][s] = Value(f[n], s)
           D == {n \in 0 .. N : Right(n)}
<1>9. Right(0)
  <2>1. \A s \in SUBSET (1 .. 0) : s = {} /\ s \in P
    OBVIOUS
  <2>2. \A s \in SUBSET (1 .. 0) : f[0][s] = Value(f[0], s)
    BY <1>6, <1>8, <2>1
  <2>3. QED
    BY <2>2
<1>10. ASSUME NEW n \in 1 .. N, Right(n - 1) PROVE Right(n)
  <2> SUFFICES ASSUME NEW s \in SUBSET (1 .. n) PROVE f[n][s] = Value(f[n], s)
    OBVIOUS
  <2> DEFINE u == s \ {Max(s)}
  <2>1. s \in P /\ f[n - 1] \in S /\ f[n] \in S
    BY <1>8
  <2>2. f[n][s] = Value(f[n - 1], s)
    BY <1>6, <1>8, <2>1
  <2>3. CASE s = {}
    BY <2>2, <2>3
  <2>4. CASE s # {}
    <3>1. u \in P /\ u \in SUBSET (1 .. (n - 1))
      <4>1. Max(s) \in 1 .. N /\ u \in P /\ \A x \in s : x <= Max(s)
        BY <1>1, <2>1, <2>4
      <4>2. Max(s) <= n
        <5>1. PICK m \in s : m = Max(s)
          BY <2>1, <2>4, GreatestOfNumbers
        <5>2. m <= n
          BY <5>1
        <5>3. QED
          BY <5>1, <5>2
      <4>3. \A x \in u : x \in 1 .. n /\ x < Max(s)
        BY <4>1
      <4>4. \A x \in u : x \in 1 .. (n - 1)
        BY <4>1, <4>2, <4>3
      <4>5. QED
        BY <4>1, <4>4
    <3> HIDE DEF u
    <3>2. f[n][u] = Value(f[n - 1], u)
      BY <1>6, <1>8, <2>1, <3>1
    <3>3. f[n - 1][u] = Value(f[n - 1], u)
      BY <1>10, <3>1
    <3> HIDE DEF Value
    <3>4. f[n][u] = f[n - 1][u]
      BY <3>2, <3>3
    <3>5. QED
      BY <2>2, <2>4, <3>4 DEF Value, u
  <2>5. QED
    BY <2>3, <2>4
<1>11. Right(N)
  <2> HIDE DEF Right
  <2>1. D \in SUBSET (0 .. N) /\ 0 \in D /\ \A n \in 1 .. N : n - 1 \in D => n \in D
    BY <1>9, <1>10
  <2> HIDE DEF D
  <2>2. D = 0 .. N
    BY <2>1, Induction
  <2>3. QED
    BY <2>2 DEF D
<1>12. Folded(f[N], N, base, G)
  BY <1>11 DEF Folded
<1>13. f[N] \in S
  BY <1>7
<1>14. QED
  BY <1>12, <1>13 DEF S

\* The parts of an interval from 1 that a fold from the left goes through.
LEMMA Intervals ==
  ASSUME NEW N \in Nat, NEW i \in 1 .. N
  PROVE  /\ i \in 0 .. N /\ i - 1 \in 0 .. N
         /\ 1 .. i \in SUBSET (1 .. N) /\ 1 .. i # {}
         /\ Max(1 .. i) = i
         /\ (1 .. i) \ {i} = 1 .. (i - 1)
<1>1. i \in 1 .. i /\ 1 .. i \in SUBSET (1 .. N)
  OBVIOUS
<1>2. Max(1 .. i) \in 1 .. i /\ i <= Max(1 .. i)
  BY <1>1, GreatestOfNumbers
<1>3. QED
  BY <1>1, <1>2

-----------------------------------------------------------------------------
(* Searches in breadth *)

\* What is next to a table is of the source, within the scope that was asked about.
LEMMA RelationsStay ==
  ASSUME NEW scope \in SUBSET Tables, NEW t
  PROVE  Neighbours(t, scope) \subseteq scope
  BY DEF Neighbours, RelationsIn

\* A scope has finitely many tables.
LEMMA ScopesAreFinite ==
  ASSUME NEW scope \in SUBSET Tables
  PROVE  IsFiniteSet(scope) /\ Cardinality(scope) \in Nat
  BY StructureAssumption, FS_Subset, FS_CardinalityType

\* A search begins at t and takes what is next to what it knows.
LEMMA WithinIs ==
  ASSUME NEW scope \in SUBSET Tables, NEW t \in Tables
  PROVE  LET W == Within(t, scope)
             N == Cardinality(scope)
         IN  /\ W \in [0 .. N -> SUBSET Tables]
             /\ W[0] = {t}
             /\ \A n \in 1 .. N :
                   W[n] = W[n - 1] \cup UNION {Neighbours(u, scope) : u \in W[n - 1]}
<1> DEFINE N == Cardinality(scope)
           S == SUBSET Tables
           Wider(known) == known \cup UNION {Neighbours(u, scope) : u \in known}
           Search(f) == f = [n \in 0 .. N |-> IF n = 0 THEN {t} ELSE Wider(f[n - 1])]
           W == CHOOSE f : Search(f)
           G == [p \in S \X (1 .. N) |-> Wider(p[1])]
<1>1. Within(t, scope) = W
  BY DEF Within
<1>2. N \in Nat
  BY ScopesAreFinite
<1>3. \A known \in S : Wider(known) \in S
  BY RelationsStay
<1> HIDE DEF Wider
<1>4. {t} \in S /\ G \in [S \X (1 .. N) -> S]
  BY <1>3
<1>5. \A known \in S, n \in 1 .. N : G[<<known, n>>] = Wider(known)
  OBVIOUS
<1> HIDE DEF N, S, G
<1>6. PICK f \in [0 .. N -> S] : Iterates(f, N, {t}, G)
  BY <1>2, <1>4, IterationExists
<1>7. \A n \in 0 .. N : n # 0 => n \in 1 .. N /\ n - 1 \in 0 .. N
  BY <1>2
<1>8. \A n \in 0 .. N : f[n] = IF n = 0 THEN {t} ELSE Wider(f[n - 1])
  BY <1>5, <1>6, <1>7 DEF Iterates
<1>9. Search(f)
  BY <1>8
<1>10. Search(W)
  BY <1>9
<1> HIDE DEF W
<1>11. /\ DOMAIN W = 0 .. N /\ W[0] = {t}
       /\ \A n \in 1 .. N : W[n] = Wider(W[n - 1])
       /\ W = [n \in 0 .. N |-> W[n]]
  <2> DEFINE E(n) == IF n = 0 THEN {t} ELSE Wider(W[n - 1])
  <2>1. W = [n \in 0 .. N |-> E(n)]
    BY <1>10
  <2>2. E(0) = {t} /\ \A n \in 1 .. N : n \in 0 .. N /\ E(n) = Wider(W[n - 1])
    BY <1>2
  <2>3. 0 \in 0 .. N
    BY <1>2
  <2> HIDE DEF E
  <2>4. QED
    BY <2>1, <2>2, <2>3
<1> HIDE DEF Search
<1>12. \A n \in 0 .. N : W[n] \in S
  <2>1. W[0] \in S /\ \A n \in 1 .. N : W[n - 1] \in S => W[n] \in S
    BY <1>3, <1>4, <1>11
  <2>2. QED
    BY <1>2, <2>1, StaysIn
<1>13. W \in [0 .. N -> S]
  BY <1>11, <1>12
<1>14. QED
  BY <1>1, <1>11, <1>13 DEF Wider, N, S

\* What was found stays found.
LEMMA WithinGrows ==
  ASSUME NEW scope \in SUBSET Tables, NEW t \in Tables
  PROVE  \A n \in 0 .. Cardinality(scope) : \A m \in 0 .. n :
            Within(t, scope)[m] \subseteq Within(t, scope)[n]
<1> DEFINE N == Cardinality(scope)
           W == Within(t, scope)
           D == {n \in 0 .. N : \A m \in 0 .. n : W[m] \subseteq W[n]}
<1>1. N \in Nat
  BY ScopesAreFinite
<1>2. \A n \in 1 .. N : W[n - 1] \subseteq W[n]
  BY WithinIs
<1> HIDE DEF N, W
<1>3. 0 \in D /\ D \in SUBSET (0 .. N)
  BY <1>1
<1>4. ASSUME NEW n \in 1 .. N, n - 1 \in D PROVE n \in D
  <2>1. \A m \in 0 .. n : m = n \/ m \in 0 .. (n - 1)
    BY <1>1
  <2>2. \A m \in 0 .. (n - 1) : W[m] \subseteq W[n - 1]
    BY <1>4
  <2>3. \A m \in 0 .. n : W[m] \subseteq W[n]
    BY <1>2, <2>1, <2>2
  <2>4. QED
    BY <1>1, <2>3
<1> HIDE DEF D
<1>5. D = 0 .. N
  BY <1>1, <1>3, <1>4, Induction
<1>6. QED
  BY <1>5 DEF D, N, W

\* Chains from t to u in n steps.
ChainsOf(t, u, scope, n) ==
    {c \in [0 .. n -> scope] :
        /\ c[0] = t /\ c[n] = u
        /\ \A i \in 1 .. n : c[i] \in Neighbours(c[i - 1], scope)}

\* What is n steps away, and not less, is at the end of a chain of n steps.
LEMMA ChainsExist ==
  ASSUME NEW t \in Tables, NEW n \in 0 .. Cardinality(Tables),
         NEW u \in Within(t, Tables)[n],
         n > 0 => u \notin Within(t, Tables)[n - 1]
  PROVE  ChainsOf(t, u, Tables, n) # {}
<1> DEFINE N == Cardinality(Tables)
           W == Within(t, Tables)
           Far(i, v) == i > 0 => v \notin W[i - 1]
           D == {i \in 0 .. N : \A v \in W[i] : Far(i, v) => ChainsOf(t, v, Tables, i) # {}}
<1>1. N \in Nat
  BY ScopesAreFinite
<1>2. /\ W[0] = {t}
      /\ \A i \in 0 .. N : W[i] \subseteq Tables
      /\ \A i \in 1 .. N : W[i] = W[i - 1] \cup UNION {Neighbours(v, Tables) : v \in W[i - 1]}
  <2>1. /\ W \in [0 .. N -> SUBSET Tables]
        /\ W[0] = {t}
        /\ \A i \in 1 .. N :
              W[i] = W[i - 1] \cup UNION {Neighbours(v, Tables) : v \in W[i - 1]}
    BY WithinIs, Tables \in SUBSET Tables
  <2> HIDE DEF N, W
  <2>2. QED
    BY <2>1
<1> HIDE DEF N, W
<1>3. 0 \in D /\ D \in SUBSET (0 .. N)
  <2>1. [i \in 0 .. 0 |-> t] \in ChainsOf(t, t, Tables, 0)
    BY DEF ChainsOf
  <2>2. QED
    BY <1>1, <1>2, <2>1
<1>4. ASSUME NEW i \in 1 .. N, i - 1 \in D PROVE i \in D
  <2> SUFFICES ASSUME NEW v \in W[i], v \notin W[i - 1] PROVE ChainsOf(t, v, Tables, i) # {}
    BY <1>1
  <2>1. PICK x \in W[i - 1] : v \in Neighbours(x, Tables)
    BY <1>2
  <2>2. i - 1 > 0 => x \notin W[(i - 1) - 1]
    <3> SUFFICES ASSUME i - 1 > 0, x \in W[(i - 1) - 1] PROVE FALSE
      OBVIOUS
    <3>1. i - 1 \in 1 .. N
      BY <1>1
    <3>2. Neighbours(x, Tables) \subseteq W[i - 1]
      BY <1>2, <3>1
    <3>3. QED
      BY <2>1, <3>2
  <2>3. PICK c : c \in ChainsOf(t, x, Tables, i - 1)
    BY <1>4, <2>2
  <2> DEFINE d == [k \in 0 .. i |-> IF k = i THEN v ELSE c[k]]
  <2>4. \A k \in 0 .. i : k # i => k \in 0 .. (i - 1)
    OBVIOUS
  <2>5. v \in Tables
    BY <1>1, <1>2
  <2>6. d \in [0 .. i -> Tables]
    BY <2>3, <2>4, <2>5 DEF ChainsOf
  <2>7. d[0] = t /\ d[i] = v
    BY <2>3 DEF ChainsOf
  <2>8. ASSUME NEW k \in 1 .. i PROVE d[k] \in Neighbours(d[k - 1], Tables)
    <3>1. k - 1 \in 0 .. (i - 1) /\ d[k - 1] = c[k - 1]
      OBVIOUS
    <3>2. CASE k = i
      BY <2>1, <2>3, <3>1, <3>2 DEF ChainsOf
    <3>3. CASE k # i
      <4>1. k \in 1 .. (i - 1) /\ d[k] = c[k]
        BY <3>3
      <4>2. QED
        BY <2>3, <3>1, <4>1 DEF ChainsOf
    <3>4. QED
      BY <3>2, <3>3
  <2>9. d \in ChainsOf(t, v, Tables, i)
    BY <2>6, <2>7, <2>8 DEF ChainsOf
  <2>10. QED
    BY <2>9
<1>5. D = 0 .. N
  <2> HIDE DEF D
  <2>1. QED
    BY <1>1, <1>3, <1>4, Induction
<1>6. n \in D
  <2> HIDE DEF D
  <2>1. QED
    BY <1>5 DEF N
<1>7. QED
  BY <1>6 DEF W

\* A set of numbers that is not empty has a least one.
LEMMA LeastExists ==
  ASSUME NEW S \in SUBSET Nat, S # {}
  PROVE  Min(S) \in S /\ \A n \in S : Min(S) <= n
<1> DEFINE R == OpToRel(<, Nat)
<1>1. \A x, y \in Nat : x < y => <<x, y>> \in R
  BY DEF OpToRel
<1>2. IsWellFoundedOn(R, Nat)
  BY NatLessThanWellFounded
<1> HIDE DEF R
<1>3. PICK x \in S : \A y \in S : ~ (<<y, x>> \in R)
  BY <1>2, WFMin
<1>4. ASSUME NEW y \in S PROVE x =< y
  <2>1. y \in Nat /\ x \in Nat /\ (y < x => <<y, x>> \in R)
    BY <1>1
  <2>2. ~ (y < x)
    BY <1>3, <2>1
  <2>3. QED
    BY <2>1, <2>2
<1>5. \E y \in S : \A z \in S : y =< z
  BY <1>4
<1>6. QED
  BY <1>5 DEF Min

\* A table that can be reached is at the end of a shortest chain, of tables that are
\* each a step further away.
LEMMA ShortestChain ==
  ASSUME NEW t \in Tables, NEW u \in Reachable(t, Tables)
  PROVE  \E n \in 0 .. Cardinality(Tables) :
            /\ Chains(t, u, Tables) = ChainsOf(t, u, Tables, n)
            /\ ChainsOf(t, u, Tables, n) # {}
            /\ \A m \in 0 .. n : m < n => u \notin Within(t, Tables)[m]
<1> DEFINE N == Cardinality(Tables)
           W == Within(t, Tables)
           S == {n \in 0 .. N : u \in W[n]}
           L == Min(S)
<1>1. N \in Nat
  BY ScopesAreFinite
<1>2. u \in W[N]
  BY DEF Reachable, Reached
<1>3. L \in S /\ \A n \in S : L <= n
  <2>1. S \in SUBSET Nat /\ S # {}
    BY <1>1, <1>2
  <2> HIDE DEF S
  <2>2. QED
    BY <2>1, LeastExists
<1>4. Chains(t, u, Tables) = ChainsOf(t, u, Tables, L)
  BY DEF Chains, ChainsOf
<1> HIDE DEF L
<1>5. L \in 0 .. N /\ u \in W[L] /\ \A m \in 0 .. L : m < L => u \notin W[m]
  BY <1>1, <1>3
<1>6. ChainsOf(t, u, Tables, L) # {}
  BY <1>1, <1>5, ChainsExist
<1>7. QED
  BY <1>4, <1>5, <1>6

\* The path to a table that can be reached is such a chain.
LEMMA PathIs ==
  ASSUME NEW t \in Tables, NEW u \in Reachable(t, Tables)
  PROVE  \E n \in 0 .. Cardinality(Tables) : \E c \in ChainsOf(t, u, Tables, n) :
            /\ Path(t, u) \in Seq(Tables)
            /\ Range(Path(t, u)) = {c[i] : i \in 0 .. n}
            /\ \A m \in 0 .. n : m < n => u \notin Within(t, Tables)[m]
<1>1. PICK n \in 0 .. Cardinality(Tables) :
          /\ Chains(t, u, Tables) = ChainsOf(t, u, Tables, n)
          /\ ChainsOf(t, u, Tables, n) # {}
          /\ \A m \in 0 .. n : m < n => u \notin Within(t, Tables)[m]
  BY ShortestChain
<1> DEFINE c == CHOOSE x \in ChainsOf(t, u, Tables, n) : TRUE
<1>2. c \in ChainsOf(t, u, Tables, n)
  BY <1>1
<1>3. Path(t, u) = [i \in 1 .. Cardinality(DOMAIN c) |-> c[i - 1]]
  BY <1>1 DEF Path
<1> HIDE DEF c
<1>4. n \in Nat
  BY ScopesAreFinite
<1>5. DOMAIN c = 0 .. n /\ \A i \in 0 .. n : c[i] \in Tables
  BY <1>2 DEF ChainsOf
<1>6. Cardinality(0 .. n) = n + 1
  BY <1>4, FS_Interval
<1>7. Path(t, u) = [i \in 1 .. (n + 1) |-> c[i - 1]]
  BY <1>3, <1>5, <1>6
<1>8. \A i \in 1 .. (n + 1) : i - 1 \in 0 .. n
  BY <1>4
<1>9. Path(t, u) \in Seq(Tables)
  <2>1. [i \in 1 .. (n + 1) |-> c[i - 1]] \in [1 .. (n + 1) -> Tables] /\ n + 1 \in Nat
    BY <1>4, <1>5, <1>8
  <2>2. QED
    BY <1>7, <2>1
<1>10. Range(Path(t, u)) = {c[i] : i \in 0 .. n}
  <2>1. Range(Path(t, u)) = {c[i - 1] : i \in 1 .. (n + 1)}
    BY <1>7 DEF Range
  <2>2. \A i \in 0 .. n : i + 1 \in 1 .. (n + 1) /\ (i + 1) - 1 = i
    BY <1>4
  <2>3. QED
    BY <1>8, <2>1, <2>2
<1>11. QED
  BY <1>1, <1>2, <1>9, <1>10

\* A path is a sequence of tables, empty when there is none.
LEMMA PathsAreSequences ==
  ASSUME NEW t \in Tables, NEW u
  PROVE  Path(t, u) \in Seq(Tables)
<1>1. CASE u \in Reachable(t, Tables)
  BY <1>1, PathIs
<1>2. CASE u \notin Reachable(t, Tables)
  BY <1>2 DEF Path
<1>3. QED
  BY <1>1, <1>2

\* The path joins its end within any scope that has its tables: a shortest chain meets
\* no table twice, so the search in that scope goes far enough.
LEMMA PathsJoin ==
  ASSUME NEW t \in Tables, NEW u \in Reachable(t, Tables), NEW scope \in SUBSET Tables,
         Range(Path(t, u)) \subseteq scope
  PROVE  u \in scope /\ u \in Reachable(t, scope)
<1> DEFINE N == Cardinality(scope)
           V == Within(t, Tables)
           W == Within(t, scope)
<1>0. PICK n \in 0 .. Cardinality(Tables) : \E c \in ChainsOf(t, u, Tables, n) :
          /\ Range(Path(t, u)) = {c[i] : i \in 0 .. n}
          /\ \A m \in 0 .. n : m < n => u \notin V[m]
  BY PathIs
<1>1. PICK c \in ChainsOf(t, u, Tables, n) :
          /\ Range(Path(t, u)) = {c[i] : i \in 0 .. n}
          /\ \A m \in 0 .. n : m < n => u \notin V[m]
  BY <1>0
<1>2. n \in Nat /\ N \in Nat
  BY ScopesAreFinite
<1>3. \A i \in 0 .. n : c[i] \in scope
  BY <1>1
<1>4. /\ c[0] = t /\ c[n] = u
      /\ \A i \in 1 .. n : c[i] \in Neighbours(c[i - 1], Tables)
  BY DEF ChainsOf
<1>5. u \in scope
  BY <1>2, <1>3, <1>4
\* A chain that met a table twice would have a shorter way to its end.
<1>6. \A i, j \in 0 .. n : c[i] = c[j] => i = j
  <2>1. ASSUME NEW i \in 0 .. n, NEW j \in 0 .. n, i < j, c[i] = c[j] PROVE FALSE
    <3>1. /\ \A m \in 1 .. Cardinality(Tables) : \A x \in V[m - 1] :
                Neighbours(x, Tables) \subseteq V[m]
          /\ V[0] = {t}
      BY WithinIs, Tables \in SUBSET Tables
    <3> HIDE DEF V
    <3> DEFINE D == {k \in 0 .. (n - j) : c[j + k] \in V[i + k]}
               E == {k \in 0 .. i : c[k] \in V[k]}
    <3>2. E = 0 .. i
      <4>1. 0 \in E /\ E \in SUBSET (0 .. i)
        BY <1>4, <3>1
      <4>2. ASSUME NEW k \in 1 .. i, k - 1 \in E PROVE k \in E
        <5>1. k \in 1 .. n /\ k \in 1 .. Cardinality(Tables) /\ k \in 0 .. i
          BY ScopesAreFinite
        <5>2. c[k - 1] \in V[k - 1] /\ c[k] \in Neighbours(c[k - 1], Tables)
          BY <1>4, <4>2, <5>1
        <5>3. QED
          BY <3>1, <5>1, <5>2
      <4> HIDE DEF E
      <4>3. QED
        BY <4>1, <4>2, Induction
    <3>3. D = 0 .. (n - j)
      <4>1. n - j \in Nat
        OBVIOUS
      <4>2. 0 \in D /\ D \in SUBSET (0 .. (n - j))
        BY <2>1, <3>2, <4>1
      <4>3. ASSUME NEW k \in 1 .. (n - j), k - 1 \in D PROVE k \in D
        <5>1. /\ j + k \in 1 .. n /\ (j + k) - 1 = j + (k - 1)
              /\ i + k \in 1 .. Cardinality(Tables) /\ (i + k) - 1 = i + (k - 1)
          BY <2>1, ScopesAreFinite
        <5>2. c[j + (k - 1)] \in V[i + (k - 1)]
          BY <4>3
        <5>3. c[j + k] \in Neighbours(c[j + (k - 1)], Tables)
          BY <1>4, <5>1
        <5>4. QED
          BY <3>1, <5>1, <5>2, <5>3
      <4> HIDE DEF D
      <4>4. QED
        BY <4>1, <4>2, <4>3, Induction
    <3>4. n - j \in D
      <4> HIDE DEF D
      <4>1. QED
        BY <3>3
    <3>5. c[n] \in V[i + (n - j)] /\ i + (n - j) \in 0 .. n /\ i + (n - j) < n
      <4>1. j + (n - j) = n
        OBVIOUS
      <4>2. QED
        BY <2>1, <3>4, <4>1
    <3>6. QED
      BY <1>1, <1>4, <3>5
  <2>2. QED
    BY <2>1
<1>7. n + 1 <= N
  <2> DEFINE d == [i \in 0 .. n |-> c[i]]
  <2>1. d \in Injection(0 .. n, scope)
    BY <1>3, <1>6 DEF Injection, IsInjective
  <2>2. Cardinality(0 .. n) <= Cardinality(scope)
    BY <2>1, FS_Injection, ScopesAreFinite
  <2>3. Cardinality(0 .. n) = n + 1
    BY <1>2, FS_Interval
  <2>4. QED
    BY <2>2, <2>3
<1>8. \A k \in 0 .. n : c[k] \in W[k]
  <2>1. /\ W[0] = {t}
        /\ \A m \in 1 .. N : \A x \in W[m - 1] : Neighbours(x, scope) \subseteq W[m]
    <3>1. /\ W[0] = {t}
          /\ \A m \in 1 .. N :
                W[m] = W[m - 1] \cup UNION {Neighbours(x, scope) : x \in W[m - 1]}
      BY WithinIs
    <3> HIDE DEF W, N
    <3>2. QED
      BY <3>1
  <2>2. \A k \in 1 .. n : c[k] \in Neighbours(c[k - 1], scope)
    <3>1. \A x, y \in scope : y \in Neighbours(x, Tables) => y \in Neighbours(x, scope)
      BY DEF Neighbours, RelationsIn
    <3>2. \A k \in 1 .. n : k - 1 \in 0 .. n /\ k \in 0 .. n
      BY <1>2
    <3>3. QED
      BY <1>3, <1>4, <3>1, <3>2
  <2> HIDE DEF W, N
  <2> DEFINE D == {k \in 0 .. n : c[k] \in W[k]}
  <2>3. 0 \in D /\ D \in SUBSET (0 .. n)
    BY <1>2, <1>4, <2>1
  <2>4. \A k \in 1 .. n : k \in 1 .. N /\ k \in 0 .. n
    BY <1>2, <1>7
  <2>5. \A k \in 1 .. n : k - 1 \in D => k \in D
    BY <2>1, <2>2, <2>4
  <2>6. D = 0 .. n
    <3> HIDE DEF D
    <3>1. QED
      BY <1>2, <2>3, <2>5, Induction
  <2>7. QED
    BY <2>6
<1>9. u \in W[N]
  <2>1. n \in 0 .. N /\ N \in 0 .. N
    BY <1>2, <1>7
  <2>2. W[n] \subseteq W[N]
    BY <2>1, WithinGrows
  <2>3. u \in W[n]
    BY <1>2, <1>4, <1>8
  <2>4. QED
    BY <2>2, <2>3
<1>10. QED
  BY <1>5, <1>9 DEF Reachable, Reached

-----------------------------------------------------------------------------
(* Sequences of tables *)

\* Appending adds one element.
LEMMA AppendedRange ==
  ASSUME NEW T, NEW s \in Seq(T), NEW e \in T
  PROVE  Range(Append(s, e)) = Range(s) \cup {e}
<1>1. /\ DOMAIN s = 1 .. Len(s) /\ Len(s) \in Nat
      /\ DOMAIN Append(s, e) = 1 .. (Len(s) + 1)
      /\ \A i \in 1 .. Len(s) : Append(s, e)[i] = s[i]
      /\ Append(s, e)[Len(s) + 1] = e
  OBVIOUS
<1>2. \A i \in 1 .. (Len(s) + 1) : i = Len(s) + 1 \/ i \in 1 .. Len(s)
  BY <1>1
<1>3. \A i \in 1 .. Len(s) : i \in 1 .. (Len(s) + 1)
  BY <1>1
<1>4. Len(s) + 1 \in 1 .. (Len(s) + 1)
  BY <1>1
<1>5. QED
  BY <1>1, <1>2, <1>3, <1>4 DEF Range

\* What AddNew leaves: a sequence of both, and no more.
LEMMA AddNewIs ==
  ASSUME NEW T, NEW s \in Seq(T), NEW m \in Seq(T)
  PROVE  /\ AddNew(s, m) \in Seq(T)
         /\ Range(AddNew(s, m)) = Range(s) \cup Range(m)
<1> DEFINE N == Len(m)
           S == Seq(T)
           Step(b, n) == IF m[n] \in Range(b) THEN b ELSE Append(b, m[n])
           Grows(f) == f = [n \in 0 .. N |-> IF n = 0 THEN s ELSE Step(f[n - 1], n)]
           W == CHOOSE f : Grows(f)
           G == [p \in S \X (1 .. N) |-> Step(p[1], p[2])]
<1>1. AddNew(s, m) = W[N]
  BY DEF AddNew
<1>2. N \in Nat
  OBVIOUS
<1>3. \A b \in S, n \in 1 .. N : Step(b, n) \in S
  OBVIOUS
<1> HIDE DEF Step
<1>4. s \in S /\ G \in [S \X (1 .. N) -> S]
  BY <1>3
<1>5. \A b \in S, n \in 1 .. N : G[<<b, n>>] = Step(b, n)
  OBVIOUS
<1> HIDE DEF N, S, G
<1>6. PICK f \in [0 .. N -> S] : Iterates(f, N, s, G)
  BY <1>2, <1>4, IterationExists
<1>7. Grows(f)
  <2>1. \A n \in 0 .. N : n # 0 => n \in 1 .. N /\ n - 1 \in 0 .. N
    BY <1>2
  <2>2. \A n \in 0 .. N : f[n] = IF n = 0 THEN s ELSE Step(f[n - 1], n)
    BY <1>5, <1>6, <2>1 DEF Iterates
  <2>3. QED
    BY <2>2
<1>8. Grows(W)
  BY <1>7
<1> HIDE DEF W
<1>9. W[0] = s /\ \A n \in 1 .. N : W[n] = Step(W[n - 1], n)
  <2> DEFINE E(n) == IF n = 0 THEN s ELSE Step(W[n - 1], n)
  <2>1. W = [n \in 0 .. N |-> E(n)]
    BY <1>8
  <2>2. E(0) = s /\ \A n \in 1 .. N : n \in 0 .. N /\ E(n) = Step(W[n - 1], n)
    BY <1>2
  <2>3. 0 \in 0 .. N
    BY <1>2
  <2> HIDE DEF E
  <2>4. QED
    BY <2>1, <2>2, <2>3
<1> HIDE DEF Grows
<1>10. \A n \in 1 .. N : m[n] \in T
  BY DEF N
<1>11. \A b \in S, n \in 1 .. N : Range(Step(b, n)) = Range(b) \cup {m[n]}
  <2> SUFFICES ASSUME NEW b \in Seq(T), NEW n \in 1 .. N
               PROVE  Range(IF m[n] \in Range(b) THEN b ELSE Append(b, m[n])) = Range(b) \cup {m[n]}
    BY DEF Step, S
  <2>1. CASE m[n] \in Range(b)
    BY <2>1
  <2>2. CASE m[n] \notin Range(b)
    BY <1>10, <2>2, AppendedRange
  <2>3. QED
    BY <2>1, <2>2
<1> DEFINE D == {n \in 0 .. N : W[n] \in S /\ Range(W[n]) = Range(s) \cup {m[i] : i \in 1 .. n}}
<1>12. D = 0 .. N
  <2>1. 0 \in D /\ D \in SUBSET (0 .. N)
    BY <1>2, <1>4, <1>9
  <2>2. ASSUME NEW n \in 1 .. N, n - 1 \in D PROVE n \in D
    <3>1. W[n] = Step(W[n - 1], n) /\ n \in 0 .. N
      BY <1>2, <1>9
    <3>2. W[n] \in S /\ Range(W[n]) = Range(W[n - 1]) \cup {m[n]}
      BY <1>3, <1>11, <2>2, <3>1
    <3>3. {m[i] : i \in 1 .. n} = {m[i] : i \in 1 .. (n - 1)} \cup {m[n]}
      <4>1. \A i \in 1 .. n : i = n \/ i \in 1 .. (n - 1)
        BY <1>2
      <4>2. \A i \in 1 .. (n - 1) : i \in 1 .. n
        BY <1>2
      <4>3. QED
        BY <1>2, <4>1, <4>2
    <3>4. QED
      BY <2>2, <3>1, <3>2, <3>3
  <2> HIDE DEF D
  <2>3. QED
    BY <1>2, <2>1, <2>2, Induction
<1>13. N \in D
  <2> HIDE DEF D
  <2>1. QED
    BY <1>2, <1>12
<1>14. Range(m) = {m[i] : i \in 1 .. N}
  BY DEF Range, N
<1>15. QED
  BY <1>1, <1>13, <1>14 DEF S

\* A concept that is kept names tables of the source, one at least.
KnownConcept(c) ==
    /\ {"words", "refs", "confidence", "selected"} \subseteq DOMAIN c
    /\ c.refs \in Seq(Tables) /\ c.refs # <<>>

AreKnown(concepts) ==
    /\ concepts \in Seq(Range(concepts))
    /\ \A c \in Range(concepts) : KnownConcept(c)

\* What is kept of an answer of the asked shape is known.
LEMMA ConceptsAreKnown ==
  ASSUME NEW answer, answer \in Seq(Range(answer)),
         \A c \in Range(answer) :
            /\ {"words", "refs", "confidence", "selected"} \subseteq DOMAIN c
            /\ c.refs \in Seq(Range(c.refs))
  PROVE  AreKnown(Concepts(answer))
<1> DEFINE Taken(c) == [c EXCEPT !.selected = Recommended(c)]
           K == {Taken(c) : c \in {x \in Range(answer) : Known(x)}}
           Twice(b, c) == \E k \in Range(b) : k.words = c.words /\ Range(k.refs) = Range(c.refs)
<1> DEFINE N == Len(answer)
           S == Seq(K)
           Step(b, n) == IF ~ Known(answer[n]) \/ Twice(b, answer[n]) THEN b
                         ELSE Append(b, Taken(answer[n]))
           Grows(f) == f = [n \in 0 .. N |-> IF n = 0 THEN <<>> ELSE Step(f[n - 1], n)]
           W == CHOOSE f : Grows(f)
           G == [p \in S \X (1 .. N) |-> Step(p[1], p[2])]
<1>1. Concepts(answer) = W[N]
  BY DEF Concepts
<1>2. N \in Nat
  OBVIOUS
<1>3. \A b \in S, n \in 1 .. N : Step(b, n) \in S
  <2> SUFFICES ASSUME NEW b \in S, NEW n \in 1 .. N PROVE Step(b, n) \in S
    OBVIOUS
  <2> HIDE DEF Twice, Taken
  <2>1. CASE Known(answer[n])
    <3>1. answer[n] \in Range(answer)
      BY DEF Range
    <3>2. Taken(answer[n]) \in K
      BY <2>1, <3>1
    <3> HIDE DEF K
    <3>3. QED
      BY <3>2
  <2>2. CASE ~ Known(answer[n])
    BY <2>2
  <2>3. QED
    BY <2>1, <2>2
<1> HIDE DEF Step, K, Taken, Twice
<1>4. <<>> \in S /\ G \in [S \X (1 .. N) -> S]
  BY <1>3
<1>5. \A b \in S, n \in 1 .. N : G[<<b, n>>] = Step(b, n)
  OBVIOUS
<1> HIDE DEF N, S, G
<1>6. PICK f \in [0 .. N -> S] : Iterates(f, N, <<>>, G)
  BY <1>2, <1>4, IterationExists
<1>7. Grows(f)
  <2>1. \A n \in 0 .. N : n # 0 => n \in 1 .. N /\ n - 1 \in 0 .. N
    BY <1>2
  <2>2. \A n \in 0 .. N : f[n] = IF n = 0 THEN <<>> ELSE Step(f[n - 1], n)
    BY <1>5, <1>6, <2>1 DEF Iterates
  <2>3. QED
    BY <2>2
<1>8. Grows(W)
  BY <1>7
<1> HIDE DEF W
<1>9. W[0] = <<>> /\ \A n \in 1 .. N : W[n] = Step(W[n - 1], n)
  <2> DEFINE E(n) == IF n = 0 THEN <<>> ELSE Step(W[n - 1], n)
  <2>1. W = [n \in 0 .. N |-> E(n)]
    BY <1>8
  <2>2. E(0) = <<>> /\ \A n \in 1 .. N : n \in 0 .. N /\ E(n) = Step(W[n - 1], n)
    BY <1>2
  <2>3. 0 \in 0 .. N
    BY <1>2
  <2> HIDE DEF E
  <2>4. QED
    BY <2>1, <2>2, <2>3
<1> HIDE DEF Grows
<1>10. \A n \in 0 .. N : W[n] \in S
  <2>1. W[0] \in S /\ \A n \in 1 .. N : W[n - 1] \in S => W[n] \in S
    BY <1>3, <1>4, <1>9
  <2>2. QED
    BY <1>2, <2>1, StaysIn
<1>11. Concepts(answer) \in Seq(K)
  <2>1. N \in 0 .. N
    BY <1>2
  <2>2. QED
    BY <1>1, <1>10, <2>1 DEF S
<1>12. \A k \in K : KnownConcept(k)
  <2> SUFFICES ASSUME NEW c \in Range(answer), Known(c) PROVE KnownConcept(Taken(c))
    BY DEF K
  <2>1. c.refs \in Seq(Tables) /\ c.refs # <<>>
    <3>1. c.refs \in [1 .. Len(c.refs) -> Range(c.refs)] /\ Len(c.refs) \in Nat
      OBVIOUS
    <3>2. Range(c.refs) \subseteq Tables /\ c.refs # <<>>
      BY DEF Known
    <3>3. c.refs \in [1 .. Len(c.refs) -> Tables]
      BY <3>1, <3>2
    <3>4. QED
      BY <3>1, <3>2, <3>3
  <2>2. DOMAIN Taken(c) = DOMAIN c /\ Taken(c).refs = c.refs
    BY DEF Taken
  <2>3. QED
    BY <2>1, <2>2 DEF KnownConcept
<1>13. QED
  <2> DEFINE r == Concepts(answer)
  <2>1. r \in Seq(K)
    BY <1>11
  <2> HIDE DEF r
  <2>2. r \in [1 .. Len(r) -> Range(r)] /\ Len(r) \in Nat /\ Range(r) \subseteq K
    BY <2>1 DEF Range
  <2>3. r \in Seq(Range(r))
    BY <2>2
  <2>4. QED
    BY <1>12, <2>2, <2>3 DEF AreKnown, r

\* A decision of a person changes only what is selected.
LEMMA DecidedAreKnown ==
  ASSUME NEW concepts, AreKnown(concepts), NEW excluded
  PROVE  AreKnown(Decided(concepts, excluded))
<1> DEFINE d == Decided(concepts, excluded)
           own(i) == [concepts[i] EXCEPT !.selected = concepts[i].words \cap excluded = {}]
<1>1. DOMAIN concepts = 1 .. Len(concepts) /\ Len(concepts) \in Nat
  BY DEF AreKnown
<1>2. d = [i \in 1 .. Len(concepts) |-> own(i)]
  BY <1>1 DEF Decided
<1>3. \A i \in 1 .. Len(concepts) : KnownConcept(own(i))
  <2> SUFFICES ASSUME NEW i \in 1 .. Len(concepts) PROVE KnownConcept(own(i))
    OBVIOUS
  <2>1. KnownConcept(concepts[i])
    BY <1>1 DEF AreKnown, Range
  <2>2. DOMAIN own(i) = DOMAIN concepts[i] /\ own(i).refs = concepts[i].refs
    BY <2>1 DEF KnownConcept
  <2> HIDE DEF own
  <2>3. QED
    BY <2>1, <2>2 DEF KnownConcept
<1> HIDE DEF d, own
<1>4. d \in [1 .. Len(concepts) -> Range(d)]
  BY <1>2 DEF Range
<1>5. d \in Seq(Range(d))
  BY <1>1, <1>4
<1>6. \A c \in Range(d) : KnownConcept(c)
  BY <1>2, <1>3 DEF Range
<1>7. QED
  BY <1>5, <1>6 DEF AreKnown, d

\* The selected tables are those of the chosen concepts.
LEMMA SelectedTablesAre ==
  ASSUME NEW concepts, AreKnown(concepts)
  PROVE  /\ SelectedTables(concepts) \in Seq(Tables)
         /\ Range(SelectedTables(concepts)) = UNION {Range(c.refs) : c \in Chosen(concepts)}
<1>0. /\ DOMAIN concepts = 1 .. Len(concepts) /\ Len(concepts) \in Nat
      /\ Range(concepts) = {concepts[i] : i \in 1 .. Len(concepts)}
      /\ \A i \in 1 .. Len(concepts) : concepts[i].refs \in Seq(Tables)
  BY DEF AreKnown, Range, KnownConcept
<1> DEFINE N == Len(concepts)
           S == Seq(Tables)
           Step(b, n) == IF concepts[n].selected THEN AddNew(b, concepts[n].refs) ELSE b
           Grows(f) == f = [n \in 0 .. N |-> IF n = 0 THEN <<>> ELSE Step(f[n - 1], n)]
           W == CHOOSE f : Grows(f)
           G == [p \in S \X (1 .. N) |-> Step(p[1], p[2])]
<1>1. SelectedTables(concepts) = W[N]
  BY DEF SelectedTables
<1>2. N \in Nat
  BY <1>0
<1>3. \A b \in S, n \in 1 .. N : Step(b, n) \in S
  BY <1>0, AddNewIs
<1> HIDE DEF Step
<1>4. <<>> \in S /\ G \in [S \X (1 .. N) -> S]
  BY <1>3
<1>5. \A b \in S, n \in 1 .. N : G[<<b, n>>] = Step(b, n)
  OBVIOUS
<1> HIDE DEF N, S, G
<1>6. PICK f \in [0 .. N -> S] : Iterates(f, N, <<>>, G)
  BY <1>2, <1>4, IterationExists
<1>7. Grows(f)
  <2>1. \A n \in 0 .. N : n # 0 => n \in 1 .. N /\ n - 1 \in 0 .. N
    BY <1>2
  <2>2. \A n \in 0 .. N : f[n] = IF n = 0 THEN <<>> ELSE Step(f[n - 1], n)
    BY <1>5, <1>6, <2>1 DEF Iterates
  <2>3. QED
    BY <2>2
<1>8. Grows(W)
  BY <1>7
<1> HIDE DEF W
<1>9. W[0] = <<>> /\ \A n \in 1 .. N : W[n] = Step(W[n - 1], n)
  <2> DEFINE E(n) == IF n = 0 THEN <<>> ELSE Step(W[n - 1], n)
  <2>1. W = [n \in 0 .. N |-> E(n)]
    BY <1>8
  <2>2. E(0) = <<>> /\ \A n \in 1 .. N : n \in 0 .. N /\ E(n) = Step(W[n - 1], n)
    BY <1>2
  <2>3. 0 \in 0 .. N
    BY <1>2
  <2> HIDE DEF E
  <2>4. QED
    BY <2>1, <2>2, <2>3
<1> HIDE DEF Grows
<1> DEFINE Named(n) == UNION {Range(concepts[i].refs) : i \in {j \in 1 .. n : concepts[j].selected}}
           D == {n \in 0 .. N : W[n] \in S /\ Range(W[n]) = Named(n)}
<1>10. 0 \in D /\ D \in SUBSET (0 .. N)
  <2>1. Named(0) = {} /\ Range(<<>>) = {}
    BY DEF Range
  <2> HIDE DEF Named
  <2>2. W[0] \in S /\ Range(W[0]) = Named(0)
    <3>1. W[0] = <<>>
      BY <1>9
    <3>2. Range(W[0]) = Range(<<>>)
      BY <3>1, Zenon
    <3>3. QED
      BY <1>4, <2>1, <3>1, <3>2, Zenon
  <2>3. QED
    BY <1>2, <2>2
<1>11. ASSUME NEW n \in 1 .. N, n - 1 \in D PROVE n \in D
  <2>1. W[n] = Step(W[n - 1], n) /\ n \in 0 .. N /\ W[n - 1] \in S
    BY <1>2, <1>9, <1>11
  <2>2. W[n] \in S
    BY <1>3, <2>1
  <2>3. concepts[n].refs \in Seq(Tables)
    BY <1>0 DEF N
  <2>4. Range(W[n]) = IF concepts[n].selected THEN Range(W[n - 1]) \cup Range(concepts[n].refs)
                      ELSE Range(W[n - 1])
    <3>1. PICK b \in Seq(Tables), m \in Seq(Tables) : b = W[n - 1] /\ m = concepts[n].refs
      BY <2>1, <2>3 DEF S
    <3>2. Range(AddNew(b, m)) = Range(b) \cup Range(m)
      BY AddNewIs
    <3>3. W[n] = IF concepts[n].selected THEN AddNew(b, m) ELSE b
      BY <2>1, <3>1 DEF Step
    <3>4. QED
      BY <3>1, <3>2, <3>3
  <2>5. Named(n) = IF concepts[n].selected THEN Named(n - 1) \cup Range(concepts[n].refs) ELSE Named(n - 1)
    <3>1. /\ \A i \in 1 .. n : i = n \/ i \in 1 .. (n - 1)
          /\ \A i \in 1 .. (n - 1) : i \in 1 .. n
          /\ n \in 1 .. n /\ n \notin 1 .. (n - 1)
      BY <1>2
    <3>2. CASE concepts[n].selected
      <4>1. {j \in 1 .. n : concepts[j].selected}
              = {j \in 1 .. (n - 1) : concepts[j].selected} \cup {n}
        BY <3>1, <3>2
      <4>2. QED
        BY <3>2, <4>1
    <3>3. CASE ~ concepts[n].selected
      <4>1. {j \in 1 .. n : concepts[j].selected} = {j \in 1 .. (n - 1) : concepts[j].selected}
        BY <3>1, <3>3
      <4>2. QED
        BY <3>3, <4>1
    <3>4. QED
      BY <3>2, <3>3
  <2> HIDE DEF Named
  <2>6. Range(W[n]) = Named(n)
    BY <1>11, <2>4, <2>5
  <2>7. QED
    BY <2>1, <2>2, <2>6
<1>12. N \in D
  <2> HIDE DEF D
  <2>1. D = 0 .. N
    BY <1>2, <1>10, <1>11, Induction
  <2>2. QED
    BY <1>2, <2>1
<1>13. Named(N) = UNION {Range(c.refs) : c \in Chosen(concepts)}
  <2>1. Chosen(concepts) = {concepts[i] : i \in {j \in 1 .. N : concepts[j].selected}}
    BY <1>0 DEF Chosen, N
  <2>2. QED
    BY <2>1
<1>14. QED
  BY <1>1, <1>12, <1>13 DEF S

-----------------------------------------------------------------------------
(* The scope of a proposal *)

\* A part of a sequence from its beginning has its elements.
LEMMA PartsStay ==
  ASSUME NEW T, NEW s \in Seq(T), NEW n \in Int, n <= Len(s)
  PROVE  Range(SubSeq(s, 1, n)) \subseteq T
<1>1. CASE n < 1
  <2>1. SubSeq(s, 1, n) = <<>>
    BY <1>1
  <2>2. QED
    BY <2>1 DEF Range
<1>2. CASE n >= 1
  <2>1. SubSeq(s, 1, n) \in Seq(T)
    BY <1>2
  <2>2. QED
    BY <2>1 DEF Range
<1>3. QED
  BY <1>1, <1>2

\* The selected tables and what joins them are of the source.
LEMMA ConnectedAreTables ==
  ASSUME NEW selected \in Seq(Tables), selected # <<>>
  PROVE  Connected(selected) \subseteq Tables
<1>0. /\ selected[1] \in Tables /\ Len(selected) \in Nat
      /\ \A n \in 1 .. Len(selected) : selected[n] \in Tables
  OBVIOUS
<1> DEFINE Cut(all) == Range(SubSeq(all, 1, IF Len(all) < MaxTables THEN Len(all) ELSE MaxTables))
<1> DEFINE N == Len(selected)
           S == Seq(Tables)
           Step(b, n) == AddNew(b, Path(selected[1], selected[n]))
           Grows(f) == f = [n \in 0 .. N |-> IF n = 0 THEN selected ELSE Step(f[n - 1], n)]
           W == CHOOSE f : Grows(f)
           G == [p \in S \X (1 .. N) |-> Step(p[1], p[2])]
<1>1. Connected(selected) = Cut(W[N])
  BY DEF Connected
<1>2. N \in Nat
  OBVIOUS
<1>3. \A b \in S, n \in 1 .. N : Step(b, n) \in S
  <2>1. \A n \in 1 .. N : Path(selected[1], selected[n]) \in Seq(Tables)
    BY <1>0, PathsAreSequences
  <2>2. QED
    BY <2>1, AddNewIs
<1> HIDE DEF Step
<1>4. selected \in S /\ G \in [S \X (1 .. N) -> S]
  BY <1>3
<1>5. \A b \in S, n \in 1 .. N : G[<<b, n>>] = Step(b, n)
  OBVIOUS
<1> HIDE DEF N, S, G
<1>6. PICK f \in [0 .. N -> S] : Iterates(f, N, selected, G)
  BY <1>2, <1>4, IterationExists
<1>7. Grows(f)
  <2>1. \A n \in 0 .. N : n # 0 => n \in 1 .. N /\ n - 1 \in 0 .. N
    BY <1>2
  <2>2. \A n \in 0 .. N : f[n] = IF n = 0 THEN selected ELSE Step(f[n - 1], n)
    BY <1>5, <1>6, <2>1 DEF Iterates
  <2>3. QED
    BY <2>2
<1>8. Grows(W)
  BY <1>7
<1> HIDE DEF W
<1>9. W[0] = selected /\ \A n \in 1 .. N : W[n] = Step(W[n - 1], n)
  <2> DEFINE E(n) == IF n = 0 THEN selected ELSE Step(W[n - 1], n)
  <2>1. W = [n \in 0 .. N |-> E(n)]
    BY <1>8
  <2>2. E(0) = selected /\ \A n \in 1 .. N : n \in 0 .. N /\ E(n) = Step(W[n - 1], n)
    BY <1>2
  <2>3. 0 \in 0 .. N
    BY <1>2
  <2> HIDE DEF E
  <2>4. QED
    BY <2>1, <2>2, <2>3
<1> HIDE DEF Grows
<1>10. W[N] \in Seq(Tables)
  <2>1. \A n \in 0 .. N : W[n] \in S
    <3>1. W[0] \in S /\ \A n \in 1 .. N : W[n - 1] \in S => W[n] \in S
      BY <1>3, <1>4, <1>9
    <3>2. QED
      BY <1>2, <3>1, StaysIn
  <2>2. N \in 0 .. N
    BY <1>2
  <2>3. QED
    BY <2>1, <2>2 DEF S
<1>11. Cut(W[N]) \subseteq Tables
  <2>1. PICK all \in Seq(Tables) : all = W[N]
    BY <1>10
  <2>2. Len(all) \in Nat
    OBVIOUS
  <2>3. QED
    BY <2>1, <2>2, PartsStay, LimitAssumption
<1>12. QED
  BY <1>1, <1>11

\* The elements of a finite set can be put in an order.
LEMMA OrderOf ==
  ASSUME NEW S, IsFiniteSet(S)
  PROVE  SetToSeq(S) \in Seq(S) /\ Len(SetToSeq(S)) = Cardinality(S)
<1>1. Cardinality(S) \in Nat /\ ExistsBijection(1 .. Cardinality(S), S)
  BY FS_CardinalityType
<1>2. \E f \in [1 .. Cardinality(S) -> S] : IsInjective(f)
  BY <1>1 DEF ExistsBijection, Bijection, Injection
<1>3. SetToSeq(S) \in [1 .. Cardinality(S) -> S]
  BY <1>2 DEF SetToSeq
<1>4. QED
  BY <1>1, <1>3

\* A scope is filled with tables of the source and keeps its own.
LEMMA FillStays ==
  ASSUME NEW scope \in SUBSET Tables, NEW more \in SUBSET Tables
  PROVE  Fill(scope, more) \subseteq Tables /\ scope \subseteq Fill(scope, more)
<1> DEFINE room == MaxTables - Cardinality(scope)
           order == SetToSeq(more \ scope)
           n == IF Len(order) < room THEN Len(order) ELSE room
<1>1. Fill(scope, more) = IF room <= 0 THEN scope ELSE scope \cup Range(SubSeq(order, 1, n))
  BY DEF Fill
<1>2. order \in Seq(Tables)
  <2>1. more \ scope \in SUBSET Tables
    OBVIOUS
  <2>2. order \in Seq(more \ scope)
    BY <2>1, OrderOf, ScopesAreFinite
  <2> HIDE DEF order
  <2>3. QED
    BY <2>2
<1>3. room \in Int
  BY ScopesAreFinite, LimitAssumption
<1> HIDE DEF order, room
<1>4. n \in Int /\ n <= Len(order)
  BY <1>2, <1>3
<1> HIDE DEF n
<1>5. Range(SubSeq(order, 1, n)) \subseteq Tables
  BY <1>2, <1>4, PartsStay
<1>6. QED
  BY <1>1, <1>5

\* Who a table stands for is of the source.
LEMMA IdentityAreTables ==
  ASSUME NEW t
  PROVE  Identity(t) \subseteq Tables
  BY DEF Identity, Somebody, Relations

\* Some element of a finite set has the greatest value.
LEMMA GreatestExists ==
  ASSUME NEW S, IsFiniteSet(S), S # {}, NEW v \in [S -> Int]
  PROVE  \E x \in S : v[x] = Max({v[y] : y \in S})
<1>1. PICK n \in Nat : ExistsBijection(1 .. n, S)
  BY FS_CardinalityType
<1>2. PICK f \in [1 .. n -> S] : \A x \in S : \E i \in 1 .. n : f[i] = x
  BY <1>1 DEF ExistsBijection, Bijection, Surjection
<1> DEFINE Tops(k, i) == \A j \in 1 .. k : v[f[i]] >= v[f[j]]
           D == {k \in 0 .. n : k > 0 => \E i \in 1 .. k : Tops(k, i)}
<1>3. \A i \in 1 .. n : v[f[i]] \in Int
  OBVIOUS
<1>4. 0 \in D /\ D \in SUBSET (0 .. n)
  OBVIOUS
<1>5. ASSUME NEW k \in 1 .. n, k - 1 \in D PROVE k \in D
  <2>1. /\ \A j \in 1 .. k : j = k \/ j \in 1 .. (k - 1)
        /\ \A j \in 1 .. k : v[f[j]] \in Int
        /\ \A j \in 1 .. (k - 1) : j \in 1 .. k
        /\ k \in 1 .. k /\ k \in 0 .. n
    BY <1>3
  <2> SUFFICES \E i \in 1 .. k : Tops(k, i)
    BY <2>1
  <2>2. CASE k = 1
    <3>1. Tops(k, k)
      BY <2>1, <2>2
    <3>2. QED
      BY <2>1, <3>1
  <2>3. CASE k # 1
    <3>1. PICK i \in 1 .. (k - 1) : Tops(k - 1, i)
      BY <1>5, <2>3
    <3>2. i \in 1 .. k
      BY <2>1
    <3>3. CASE v[f[i]] >= v[f[k]]
      <4>1. Tops(k, i)
        BY <2>1, <3>1, <3>3
      <4>2. QED
        BY <3>2, <4>1
    <3>4. CASE ~ (v[f[i]] >= v[f[k]])
      <4>1. Tops(k, k)
        BY <2>1, <3>1, <3>2, <3>4
      <4>2. QED
        BY <2>1, <4>1
    <3>5. QED
      BY <3>3, <3>4
  <2>4. QED
    BY <2>2, <2>3
<1>6. D = 0 .. n
  <2> HIDE DEF D
  <2>1. QED
    BY <1>4, <1>5, Induction
<1>7. n \in D /\ n > 0
  <2>1. n > 0
    BY <1>2
  <2> HIDE DEF D
  <2>2. QED
    BY <1>6, <2>1
<1>8. PICK i \in 1 .. n : Tops(n, i)
  BY <1>7
<1> DEFINE V == {v[y] : y \in S}
<1>9. \A y \in S : v[f[i]] >= v[y]
  BY <1>2, <1>8
<1>10. v[f[i]] \in V /\ \A y \in V : v[f[i]] >= y
  BY <1>9
<1>11. \E x \in V : \A y \in V : x >= y
  BY <1>10
<1>12. Max(V) \in V
  BY <1>11 DEF Max
<1>13. QED
  BY <1>12

\* A table has finitely many columns.
LEMMA ColumnsAreFinite ==
  ASSUME NEW t \in Tables
  PROVE  IsFiniteSet(ColumnsOf(t))
<1> DEFINE s == Table[t].columns
           f == [i \in 1 .. Len(s) |-> s[i]]
<1>1. s \in Seq(Range(s))
  BY StructureAssumption
<1> HIDE DEF s
<1>2. Len(s) \in Nat /\ DOMAIN s = 1 .. Len(s)
  BY <1>1
<1>3. f \in Surjection(1 .. Len(s), Range(s))
  BY <1>1, <1>2 DEF Surjection, Range
<1>4. IsFiniteSet(1 .. Len(s))
  BY <1>2, FS_Interval
<1>5. IsFiniteSet(Range(s))
  BY <1>3, <1>4, FS_Surjection
<1>6. QED
  BY <1>5 DEF ColumnsOf, s

\* The words of customers and of who may be one are few.
LEMMA WordsAreFinite ==
  IsFiniteSet(Customers) /\ IsFiniteSet(Entities)
<1>1. IsFiniteSet({"customer"}) /\ IsFiniteSet({"person"})
  BY FS_Singleton
<1>2. IsFiniteSet({"customer", "party"}) /\ IsFiniteSet({"person", "store"})
  <2>1. IsFiniteSet({"customer"} \cup {"party"}) /\ IsFiniteSet({"person"} \cup {"store"})
    BY <1>1, FS_AddElement
  <2>2. QED
    BY <2>1
<1>3. IsFiniteSet({"customer", "party", "subject"}) /\ IsFiniteSet({"person", "store", "company"})
  <2>1. /\ IsFiniteSet({"customer", "party"} \cup {"subject"})
        /\ IsFiniteSet({"person", "store"} \cup {"company"})
    BY <1>2, FS_AddElement
  <2>2. /\ {"customer", "party"} \cup {"subject"} = {"customer", "party", "subject"}
        /\ {"person", "store"} \cup {"company"} = {"person", "store", "company"}
    OBVIOUS
  <2>3. QED
    BY <2>1, <2>2
<1>4. IsFiniteSet(Customers)
  <2>1. IsFiniteSet({"customer", "party", "subject"} \cup {"holder"})
    BY <1>3, FS_AddElement
  <2>2. {"customer", "party", "subject"} \cup {"holder"} = Customers
    BY DEF Customers
  <2>3. QED
    BY <2>1, <2>2
<1>5. QED
  BY <1>3, <1>4, FS_Union DEF Entities

\* Likenesses can be compared.
LEMMA LikenessIsANumber ==
  ASSUME NEW t \in Tables, NEW selected
  PROVE  Likeness(t, selected) \in Int
<1>1. \A words : /\ Cardinality(words \cap Customers) \in Nat
                 /\ Cardinality(words \cap Entities) \in Nat
  <2> TAKE words
  <2>1. IsFiniteSet(words \cap Customers) /\ IsFiniteSet(words \cap Entities)
    BY WordsAreFinite, FS_Subset
  <2>2. QED
    BY <2>1, FS_CardinalityType
<1>2. Distance(t, selected) \in Int
  <2> DEFINE S == {n \in 0 .. 3 : n = 3 \/ \E s \in selected : t \in Within(s, Tables)[n]}
  <2>1. S \in SUBSET Nat /\ S # {}
    <3>1. 3 \in S
      OBVIOUS
    <3>2. QED
      BY <3>1
  <2> HIDE DEF S
  <2>2. Min(S) \in Nat
    BY <2>1, LeastExists
  <2>3. QED
    BY <2>2 DEF Distance, S
<1> DEFINE words == Table[t].words
           texts == {c \in ColumnsOf(t) : Column[c].text /\ "name" \in Column[c].words}
           about == {k \in Relations :
                       /\ k.from = t
                       /\ (Table[k.to].words \cup Words(Range(k.columns))) \cap Entities # {}}
<1>3. Cardinality(texts) \in Nat
  <2>1. texts \in SUBSET ColumnsOf(t)
    OBVIOUS
  <2> HIDE DEF texts
  <2>2. QED
    BY <2>1, ColumnsAreFinite, FS_Subset, FS_CardinalityType
<1>4. Cardinality(about) \in Nat
  <2>1. about \in SUBSET ForeignKeys
    BY DEF Relations
  <2> HIDE DEF about
  <2>2. QED
    BY <2>1, StructureAssumption, FS_Subset, FS_CardinalityType
<1> DEFINE penalty == IF (words \cup Told(t)) \cap Staff # {} THEN 180 ELSE 0
<1>5. Likeness(t, selected)
        = 80 * Cardinality(words \cap Customers) + 18 * Cardinality(words \cap Entities)
          + 70 * Cardinality(Told(t) \cap Customers)
          + 12 * Cardinality(Words(ColumnsOf(t)) \cap Customers)
          + 25 * Cardinality(texts) + 35 * Cardinality(about) - 12 * Distance(t, selected)
          - penalty
  BY DEF Likeness
<1>6. penalty \in Int
  OBVIOUS
<1> HIDE DEF words, texts, about, penalty
<1>7. Cardinality(words \cap Customers) \in Nat /\ Cardinality(words \cap Entities) \in Nat
  BY <1>1, Zenon
<1>8. Cardinality(Told(t) \cap Customers) \in Nat
  BY <1>1, Zenon
<1>9. Cardinality(Words(ColumnsOf(t)) \cap Customers) \in Nat
  BY <1>1, Zenon
<1>10. QED
  BY <1>2, <1>3, <1>4, <1>5, <1>6, <1>7, <1>8, <1>9

\* The table that most looks like a customer, and who it stands for, are of the source.
LEMMA CustomerSourceAreTables ==
  ASSUME NEW selected
  PROVE  CustomerSource(selected) \subseteq Tables
<1> DEFINE near == {t \in Tables \ selected :
                       Distance(t, selected) <= 2 /\ Likeness(t, selected) > 0}
           v == [t \in near |-> Likeness(t, selected)]
           most == Max({Likeness(t, selected) : t \in near})
           best == CHOOSE t \in near : Likeness(t, selected) = most
<1>1. CustomerSource(selected) = IF near = {} THEN {} ELSE {best} \cup Identity(best)
  BY DEF CustomerSource
<1>2. near \in SUBSET Tables
  OBVIOUS
<1> HIDE DEF near
<1>3. ASSUME near # {} PROVE best \in near
  <2>1. IsFiniteSet(near)
    BY <1>2, ScopesAreFinite
  <2>2. v \in [near -> Int]
    BY <1>2, LikenessIsANumber
  <2>3. \A t \in near : v[t] = Likeness(t, selected)
    OBVIOUS
  <2>4. {v[t] : t \in near} = {Likeness(t, selected) : t \in near}
    OBVIOUS
  <2> HIDE DEF v
  <2>5. \E t \in near : v[t] = Max({v[x] : x \in near})
    BY <1>3, <2>1, <2>2, GreatestExists
  <2>6. \E t \in near : Likeness(t, selected) = most
    BY <2>3, <2>4, <2>5
  <2> HIDE DEF most
  <2>7. QED
    BY <2>6
<1> HIDE DEF best
<1>4. QED
  BY <1>1, <1>2, <1>3, IdentityAreTables

\* The scope of chosen concepts is of the source, and has the selected tables and the
\* paths to all of the evidence.
LEMMA DerivedScopeIs ==
  ASSUME NEW concepts, AreKnown(concepts), NEW evidence \in SUBSET Tables, NEW asked
  PROVE  LET scope    == DerivedScope(concepts, evidence, asked)
             selected == SelectedTables(concepts)
         IN  /\ scope \subseteq Tables
             /\ Chosen(concepts) # {} =>
                   /\ selected[1] \in Tables
                   /\ Range(selected) \subseteq scope
                   /\ \A t \in evidence : Range(Path(selected[1], t)) \subseteq scope
<1> DEFINE selected == SelectedTables(concepts)
           chosen   == Range(selected)
           parents  == UNION {Parents(t) : t \in chosen}
           people   == UNION {UNION {Identity(t) : t \in Range(c.refs)} :
                                c \in {x \in Chosen(concepts) : "customer" \in x.words}}
           named    == NamedLike(concepts)
           proofs   == Proofs(selected, evidence)
           customer == IF asked \cap Customers # {} THEN CustomerSource(chosen) ELSE {}
           filled   == Fill(Fill(Connected(selected), named), parents)
           scope    == DerivedScope(concepts, evidence, asked)
<1>1. scope = IF selected = <<>> THEN evidence
              ELSE filled \cup people \cup proofs \cup customer \cup chosen
  BY DEF DerivedScope
<1>2. selected \in Seq(Tables) /\ chosen = UNION {Range(c.refs) : c \in Chosen(concepts)}
  BY SelectedTablesAre
<1>3. /\ parents \in SUBSET Tables /\ people \in SUBSET Tables /\ named \in SUBSET Tables
      /\ customer \in SUBSET Tables
  <2>1. parents \in SUBSET Tables
    BY DEF Parents, Relations
  <2>2. people \in SUBSET Tables
    BY IdentityAreTables
  <2>3. named \in SUBSET Tables
    BY DEF NamedLike, Neighbours, RelationsIn
  <2>4. customer \in SUBSET Tables
    BY CustomerSourceAreTables
  <2>5. QED
    BY <2>1, <2>2, <2>3, <2>4
<1> HIDE DEF selected, parents, people, named, customer
<1>4. chosen \subseteq Tables
  BY <1>2 DEF Range
<1>5. ASSUME selected # <<>>
      PROVE  /\ selected[1] \in Tables /\ filled \subseteq Tables
             /\ proofs = UNION {Range(Path(selected[1], t)) : t \in evidence}
             /\ proofs \subseteq Tables
  <2>1. selected[1] \in Tables
    BY <1>2, <1>5
  <2>2. Connected(selected) \in SUBSET Tables
    BY <1>2, <1>5, ConnectedAreTables
  <2>3. Fill(Connected(selected), named) \in SUBSET Tables
    BY <1>3, <2>2, FillStays
  <2>4. filled \subseteq Tables
    BY <1>3, <2>3, FillStays
  <2>5. proofs = UNION {Range(Path(selected[1], t)) : t \in evidence}
    BY DEF Proofs
  <2>6. \A t : Range(Path(selected[1], t)) \subseteq Tables
    BY <2>1, PathsAreSequences DEF Range
  <2>7. QED
    BY <2>1, <2>4, <2>5, <2>6
<1>6. scope \subseteq Tables
  BY <1>1, <1>3, <1>4, <1>5
<1>7. ASSUME Chosen(concepts) # {} PROVE selected # <<>>
  <2>1. PICK c \in Chosen(concepts) : c.refs \in Seq(Tables) /\ c.refs # <<>>
    BY <1>7 DEF Chosen, AreKnown, KnownConcept
  <2>2. c.refs[1] \in Range(c.refs)
    BY <2>1 DEF Range
  <2>3. c.refs[1] \in UNION {Range(x.refs) : x \in Chosen(concepts)}
    BY <2>2
  <2>4. chosen # {}
    BY <1>2, <2>3
  <2>5. QED
    BY <2>4 DEF Range
<1> HIDE DEF scope, filled, proofs, chosen
<1>8. QED
  BY <1>1, <1>5, <1>6, <1>7 DEF selected, chosen, scope

-----------------------------------------------------------------------------
(* Documents: what is compiled of a blueprint, and what the source proves *)

AtMostOne(S) == \A x, y \in S : x = y

\* What there is at most one of is added to a sequence, which loses nothing.
LEMMA OneIsAdded ==
  ASSUME NEW s, s \in Seq(Range(s)), NEW S, AtMostOne(S)
  PROVE  LET t == s \o SetToSeq(S)
         IN  t \in Seq(Range(t)) /\ Range(t) = Range(s) \cup S
<1> DEFINE m == SetToSeq(S)
           T == Range(s) \cup S
<1>1. m \in Seq(S) /\ Range(m) = S
  <2>1. CASE S = {}
    <3>1. IsFiniteSet(S)
      BY <2>1, FS_EmptySet
    <3>2. m \in Seq(S)
      BY <3>1, OrderOf
    <3>3. QED
      BY <2>1, <3>2 DEF Range
  <2>2. ASSUME NEW e, S = {e} PROVE m \in Seq(S) /\ Range(m) = S
    <3>1. IsFiniteSet(S) /\ Cardinality(S) = 1
      BY <2>2, FS_Singleton
    <3>2. m \in Seq(S) /\ Len(m) = 1
      BY <3>1, OrderOf
    <3> HIDE DEF m
    <3>3. m[1] = e
      <4>1. m[1] \in S
        BY <3>2
      <4>2. QED
        BY <2>2, <4>1
    <3>4. DOMAIN m = {1}
      <4>1. DOMAIN m = 1 .. Len(m)
        BY <3>2
      <4>2. QED
        BY <3>2, <4>1
    <3>5. Range(m) = {e}
      BY <3>3, <3>4 DEF Range
    <3>6. QED
      BY <2>2, <3>2, <3>5
  <2>3. \A e \in S : S = {e}
    BY DEF AtMostOne
  <2>4. QED
    BY <2>1, <2>2, <2>3
<1>2. s \in Seq(T) /\ m \in Seq(T)
  BY <1>1
<1> HIDE DEF m, T
<1>3. s \o m \in Seq(T) /\ Range(s \o m) = Range(s) \cup Range(m)
  BY <1>2, ConcatProperties, RangeConcatenation
<1>4. s \o m \in Seq(Range(s \o m))
  BY <1>3, SeqOfRange
<1>5. QED
  BY <1>1, <1>3, <1>4 DEF m

\* The first of some measures is one of them, and there is one whenever there are any.
LEMMA FirstIs ==
  ASSUME NEW s, s \in Seq(Range(s)), NEW positions \in SUBSET DOMAIN s
  PROVE  /\ AtMostOne(FirstAt(s, positions))
         /\ FirstAt(s, positions) \subseteq {s[i] : i \in positions}
         /\ positions # {} => FirstAt(s, positions) # {}
<1>1. positions \in SUBSET Nat
  OBVIOUS
<1>2. AtMostOne(FirstAt(s, positions))
  <2>1. \A i, j \in positions : i <= j /\ j <= i => i = j
    BY <1>1
  <2>2. QED
    BY <2>1 DEF AtMostOne, FirstAt
<1>3. positions # {} => \E i \in positions : \A k \in positions : i <= k
  BY <1>1, LeastExists
<1>4. QED
  BY <1>2, <1>3 DEF FirstAt

\* A function over the numbers up to N is a sequence.
LEMMA FunctionsAreSequences ==
  ASSUME NEW N \in Nat, NEW f, f = [i \in 1 .. N |-> f[i]]
  PROVE  f \in Seq(Range(f)) /\ Len(f) = N
<1>1. f \in [1 .. N -> Range(f)]
  BY DEF Range
<1>2. QED
  BY <1>1

\* What a reading becomes.
Became(x, fact, byLine) == CompileMeasure(x, CalledOf(x, byLine), fact)

\* What the measures compiled so far are, reading by reading.
Accumulates(W, readings, fact, byLine) ==
  /\ CompileMeasures(readings, fact, byLine) = W[Len(readings)]
  /\ W[0] = <<>>
  /\ \A n \in 1 .. Len(readings) :
        W[n] = IF Kept(readings[n], fact)
               THEN Append(W[n - 1], Became(readings[n], fact, byLine)) ELSE W[n - 1]
  /\ \A n \in 0 .. Len(readings) :
        W[n] \in Seq({Became(readings[m], fact, byLine) : m \in 1 .. Len(readings)})

\* Measures are compiled one after the other.
LEMMA MeasuresOneByOne ==
  ASSUME NEW readings, readings \in Seq(Range(readings)), NEW fact, NEW byLine
  PROVE  \E W : Accumulates(W, readings, fact, byLine)
<1> DEFINE N == Len(readings)
           measure(x) == CompileMeasure(x, CalledOf(x, byLine), fact)
           T == {measure(readings[n]) : n \in 1 .. N}
           S == Seq(T)
           Step(b, n) == IF Kept(readings[n], fact) THEN Append(b, measure(readings[n])) ELSE b
           Grows(f) == f = [n \in 0 .. N |-> IF n = 0 THEN <<>> ELSE Step(f[n - 1], n)]
           W == CHOOSE f : Grows(f)
           G == [p \in S \X (1 .. N) |-> Step(p[1], p[2])]
<1>1. CompileMeasures(readings, fact, byLine) = W[N]
  BY DEF CompileMeasures
<1>2. N \in Nat
  OBVIOUS
<1>3. \A b \in S, n \in 1 .. N : Step(b, n) \in S
  <2> HIDE DEF measure
  <2>1. QED
    OBVIOUS
<1>4. <<>> \in S
  OBVIOUS
<1> HIDE DEF Step, S, N
<1>5. /\ G \in [S \X (1 .. N) -> S]
      /\ \A b \in S, n \in 1 .. N : G[<<b, n>>] = Step(b, n)
  BY <1>3
<1> HIDE DEF G
<1>6. PICK f \in [0 .. N -> S] : Iterates(f, N, <<>>, G)
  BY <1>2, <1>4, <1>5, IterationExists
<1>7. Grows(f)
  <2>1. \A n \in 0 .. N : n # 0 => n \in 1 .. N /\ n - 1 \in 0 .. N
    BY <1>2
  <2>2. \A n \in 0 .. N : f[n] = IF n = 0 THEN <<>> ELSE Step(f[n - 1], n)
    BY <1>5, <1>6, <2>1 DEF Iterates
  <2>3. QED
    BY <2>2
<1>8. Grows(W)
  BY <1>7
<1> HIDE DEF W
<1>9. W[0] = <<>> /\ \A n \in 1 .. N : W[n] = Step(W[n - 1], n)
  <2> DEFINE E(n) == IF n = 0 THEN <<>> ELSE Step(W[n - 1], n)
  <2>1. W = [n \in 0 .. N |-> E(n)]
    BY <1>8
  <2>2. E(0) = <<>> /\ \A n \in 1 .. N : n \in 0 .. N /\ E(n) = Step(W[n - 1], n)
    BY <1>2
  <2>3. 0 \in 0 .. N
    BY <1>2
  <2> HIDE DEF E
  <2>4. QED
    BY <2>1, <2>2, <2>3
<1> HIDE DEF Grows
<1>10. W[0] \in S /\ \A n \in 1 .. N : W[n - 1] \in S => W[n] \in S
  BY <1>3, <1>4, <1>9
<1>11. \A n \in 0 .. N : W[n] \in S
  BY <1>2, <1>10, StaysIn
<1>12. S = Seq({Became(readings[m], fact, byLine) : m \in 1 .. N})
  BY DEF S, Became
<1>13. \A n \in 1 .. N :
          W[n] = IF Kept(readings[n], fact)
                 THEN Append(W[n - 1], Became(readings[n], fact, byLine)) ELSE W[n - 1]
  BY <1>9 DEF Step, Became
<1>14. Accumulates(W, readings, fact, byLine)
  <2> HIDE DEF W
  <2>1. QED
    BY <1>1, <1>9, <1>11, <1>12, <1>13 DEF N, Accumulates
<1>15. QED
  BY <1>14

\* The place of a position among those that are kept.
PlaceOf(kept, i) == Cardinality({j \in kept : j <= i})

\* The measure of a position that is kept is where as many are kept as up to it.
LEMMA MeasuresArePlaced ==
  ASSUME NEW readings, readings \in Seq(Range(readings)), NEW fact, NEW byLine
  PROVE  LET f    == CompileMeasures(readings, fact, byLine)
             kept == KeptOf(readings, fact)
         IN  /\ f \in Seq(Range(f))
             /\ \A i \in kept : /\ PlaceOf(kept, i) \in DOMAIN f
                                /\ f[PlaceOf(kept, i)] = Became(readings[i], fact, byLine)
             /\ \A m \in Range(f) : \E i \in kept : m = Became(readings[i], fact, byLine)
<1> DEFINE N == Len(readings)
           kept == KeptOf(readings, fact)
           became(i) == Became(readings[i], fact, byLine)
           T == {became(m) : m \in 1 .. N}
           K(n) == {j \in kept : j <= n}
           c == [n \in 0 .. N |-> Cardinality(K(n))]
<1>0. PICK W : Accumulates(W, readings, fact, byLine)
  BY MeasuresOneByOne
<1>1. /\ CompileMeasures(readings, fact, byLine) = W[N]
      /\ W[0] = <<>>
      /\ \A n \in 1 .. N : n \in kept => W[n] = Append(W[n - 1], became(n))
      /\ \A n \in 1 .. N : n \notin kept => W[n] = W[n - 1]
      /\ \A n \in 0 .. N : W[n] \in Seq(T)
  <2>1. \A n \in 1 .. N : n \in kept <=> Kept(readings[n], fact)
    BY DEF KeptOf
  <2>2. \A n \in 1 .. N :
           W[n] = IF Kept(readings[n], fact) THEN Append(W[n - 1], became(n)) ELSE W[n - 1]
    BY <1>0 DEF Accumulates
  <2>3. /\ \A n \in 1 .. N : n \in kept => W[n] = Append(W[n - 1], became(n))
        /\ \A n \in 1 .. N : n \notin kept => W[n] = W[n - 1]
    <3> HIDE DEF N, kept, became
    <3>1. QED
      BY <2>1, <2>2
  <2>4. QED
    BY <1>0, <2>3 DEF Accumulates
<1>2. N \in Nat /\ kept \in SUBSET (1 .. N) /\ IsFiniteSet(kept)
  <2>1. N \in Nat /\ kept \in SUBSET (1 .. N)
    BY DEF KeptOf
  <2> HIDE DEF N, kept
  <2>2. IsFiniteSet(1 .. N)
    BY <2>1, FS_Interval
  <2>3. QED
    BY <2>1, <2>2, FS_Subset
<1>3. \A n \in 1 .. N : became(n) \in T
  OBVIOUS
<1> HIDE DEF N, kept, became, T
<1>3a. \A j \in kept : j \in Nat /\ 1 <= j /\ j <= N
  BY <1>2
<1>4. \A n \in 0 .. N : IsFiniteSet(K(n)) /\ c[n] = Cardinality(K(n)) /\ c[n] \in Nat
  <2>2. \A n \in 0 .. N : IsFiniteSet(K(n))
    BY <1>2, FS_Subset
  <2>3. \A n \in 0 .. N : Cardinality(K(n)) \in Nat
    BY <2>2, FS_CardinalityType
  <2> HIDE DEF K
  <2>4. QED
    BY <2>2, <2>3
<1>5. c[0] = 0
  <2>1. K(0) = {}
    <3>1. \A j \in kept : ~ j <= 0
      BY <1>3a
    <3>2. QED
      BY <3>1
  <2> HIDE DEF K, c
  <2>2. QED
    BY <1>2, <1>4, <2>1, FS_EmptySet
<1>6. ASSUME NEW n \in 1 .. N
      PROVE  /\ n \in kept => c[n] = c[n - 1] + 1 /\ K(n) = K(n - 1) \cup {n}
             /\ n \notin kept => c[n] = c[n - 1] /\ K(n) = K(n - 1)
  <2>1. n - 1 \in 0 .. N /\ n \in 0 .. N
    BY <1>2
  <2>2. /\ n \in kept => K(n) = K(n - 1) \cup {n}
        /\ n \notin kept => K(n) = K(n - 1)
        /\ n \notin K(n - 1)
    <3>1. n \in Nat
      BY <1>2
    <3>2. \A j \in kept : (j <= n <=> j <= n - 1 \/ j = n)
      BY <1>3a, <3>1
    <3>3. n <= n /\ ~ n <= n - 1
      BY <3>1
    <3>4. QED
      BY <3>2, <3>3
  <2> HIDE DEF K, c
  <2>3. n \in kept => Cardinality(K(n)) = Cardinality(K(n - 1)) + 1
    BY <1>4, <2>1, <2>2, FS_AddElement
  <2>4. QED
    BY <1>4, <2>1, <2>2, <2>3
<1>7. \A n \in 0 .. N : \A i \in K(n) : i \in 1 .. N /\ i \in 0 .. N
  BY <1>2
<1>8. K(0) = {} /\ K(N) = kept
  <2>1. \A j \in kept : ~ j <= 0 /\ j <= N
    BY <1>3a
  <2>2. QED
    BY <2>1
<1> HIDE DEF c, K
<1> DEFINE Fits(m) == Len(W[m]) = c[m]
           Placed(m) == \A i \in K(m) : c[i] \in 1 .. c[m] /\ W[m][c[i]] = became(i)
           Traced(m) == \A p \in 1 .. c[m] : \E i \in kept : W[m][p] = became(i)
           D == {m \in 0 .. N : Fits(m) /\ Placed(m) /\ Traced(m)}
<1>9. 0 \in D /\ D \in SUBSET (0 .. N)
  <2>1. Fits(0)
    BY <1>1, <1>5
  <2>2. Placed(0) /\ Traced(0)
    BY <1>5, <1>8
  <2> HIDE DEF Fits, Placed, Traced
  <2>3. QED
    BY <1>2, <2>1, <2>2
<1>10. ASSUME NEW n \in 1 .. N, n - 1 \in D PROVE n \in D
  <2>1. /\ n - 1 \in 0 .. N /\ n \in 0 .. N
        /\ Fits(n - 1) /\ Placed(n - 1) /\ Traced(n - 1)
    BY <1>2, <1>10
  <2>2. c[n - 1] \in Nat /\ c[n] \in Nat /\ W[n - 1] \in Seq(T)
    BY <1>1, <1>4, <2>1
  <2>3. CASE n \in kept
    <3>1. W[n] = Append(W[n - 1], became(n))
      BY <1>1, <2>3
    <3>2. /\ Len(W[n]) = c[n - 1] + 1
          /\ \A p \in 1 .. c[n - 1] : W[n][p] = W[n - 1][p]
          /\ W[n][c[n - 1] + 1] = became(n)
      <4>1. became(n) \in T
        BY <1>3
      <4>2. QED
        BY <2>1, <2>2, <3>1, <4>1
    <3>3. c[n] = c[n - 1] + 1 /\ K(n) = K(n - 1) \cup {n}
      BY <1>6, <2>3
    <3>4. Fits(n)
      BY <3>2, <3>3
    <3>5. Placed(n)
      <4>1. ASSUME NEW i \in K(n - 1) PROVE c[i] \in 1 .. c[n] /\ W[n][c[i]] = became(i)
        <5>1. c[i] \in 1 .. c[n - 1] /\ W[n - 1][c[i]] = became(i)
          BY <2>1
        <5>2. W[n][c[i]] = W[n - 1][c[i]]
          BY <3>2, <5>1
        <5>3. c[i] \in 1 .. c[n]
          BY <2>2, <3>3, <5>1
        <5>4. QED
          BY <5>1, <5>2, <5>3
      <4>2. c[n] \in 1 .. c[n] /\ W[n][c[n]] = became(n)
        BY <2>2, <3>2, <3>3
      <4>3. QED
        BY <3>3, <4>1, <4>2
    <3>6. Traced(n)
      <4>1. \A p \in 1 .. c[n] : p \in 1 .. c[n - 1] \/ p = c[n - 1] + 1
        BY <2>2, <3>3
      <4>2. QED
        BY <2>1, <2>3, <3>2, <4>1
    <3> HIDE DEF Fits, Placed, Traced
    <3>7. QED
      BY <2>1, <3>4, <3>5, <3>6
  <2>4. CASE n \notin kept
    <3>1. W[n] = W[n - 1] /\ c[n] = c[n - 1] /\ K(n) = K(n - 1)
      BY <1>1, <1>2, <1>6, <2>4
    <3>2. Fits(n) /\ Placed(n) /\ Traced(n)
      BY <2>1, <3>1
    <3> HIDE DEF Fits, Placed, Traced
    <3>3. QED
      BY <2>1, <3>2
  <2>5. QED
    BY <2>3, <2>4
<1>11. Fits(N) /\ Placed(N) /\ Traced(N)
  <2> HIDE DEF Fits, Placed, Traced
  <2>1. \A n \in 0 .. N : n \in D => Fits(n) /\ Placed(n) /\ Traced(n)
    OBVIOUS
  <2> HIDE DEF D
  <2>2. D = 0 .. N
    BY <1>2, <1>9, <1>10, Induction
  <2>3. QED
    BY <1>2, <2>1, <2>2
<1> DEFINE f == W[N]
<1>12. f \in Seq(T) /\ DOMAIN f = 1 .. c[N]
  BY <1>1, <1>2, <1>4, <1>11
<1>13. \A i \in kept : PlaceOf(kept, i) \in DOMAIN f /\ f[PlaceOf(kept, i)] = became(i)
  <2> SUFFICES ASSUME NEW i \in kept
               PROVE  PlaceOf(kept, i) \in DOMAIN f /\ f[PlaceOf(kept, i)] = became(i)
    OBVIOUS
  <2>1. i \in 0 .. N
    BY <1>2
  <2>2. PlaceOf(kept, i) = c[i]
    BY <1>4, <2>1 DEF PlaceOf, K
  <2> HIDE DEF f
  <2>3. QED
    BY <1>8, <1>11, <1>12, <2>2 DEF f
<1>14. \A m \in Range(f) : \E i \in kept : m = became(i)
  <2> HIDE DEF f
  <2>1. QED
    BY <1>11, <1>12 DEF Range, f
<1>15. f \in Seq(Range(f))
  <2> HIDE DEF f
  <2>1. QED
    BY <1>12, SeqOfRange
<1>16. QED
  BY <1>1, <1>13, <1>14, <1>15 DEF kept, became

\* What is compiled of some measures is a sequence.
LEMMA CompiledMeasuresAre ==
  ASSUME NEW readings, readings \in Seq(Range(readings)), NEW fact, NEW byLine
  PROVE  CompileMeasures(readings, fact, byLine)
            \in Seq(Range(CompileMeasures(readings, fact, byLine)))
  BY MeasuresArePlaced

\* A blueprint is read measure by measure.
LEMMA ReadingsAre ==
  ASSUME NEW bp, IsBlueprint(bp)
  PROVE  Readings(bp) \in Seq(Range(Readings(bp)))
<1>1. DOMAIN bp.measures = 1 .. Len(bp.measures) /\ Len(bp.measures) \in Nat
  BY DEF IsBlueprint
<1>2. Readings(bp) = [i \in 1 .. Len(bp.measures) |-> Readings(bp)[i]]
  BY <1>1 DEF Readings
<1>3. QED
  BY <1>1, <1>2, FunctionsAreSequences

\* A KPI of a blueprint is compiled to at most one.
LEMMA CompiledKpiIsOne ==
  ASSUME NEW readings, NEW kept, NEW measures, measures \in Seq(Range(measures)), NEW k
  PROVE  AtMostOne(CompileKpi(readings, kept, measures, k))
<1>1. AtMostOne(Sales(measures)) /\ AtMostOne(Transactions(measures))
  BY FirstIs DEF Sales, Transactions, WithRole
<1> DEFINE found == MeasureOf(readings, kept, measures, k.measure)
<1>2. AtMostOne(found)
  BY <1>1 DEF MeasureOf, AtMostOne
<1> HIDE DEF found
<1>3. ASSUME NEW m PROVE AtMostOne(KpiOf(k, m, measures))
  <2>1. CASE AverageKpi(k)
    <3>1. \A x \in KpiOf(k, m, measures) : \E s \in Sales(measures), t \in Transactions(measures) :
              x = Kpi(k.code, k.words, m.role, "ratio", <<s.name, t.name>>)
      BY <2>1 DEF KpiOf
    <3>2. QED
      BY <1>1, <3>1 DEF AtMostOne
  <2>2. CASE ~ AverageKpi(k)
    BY <2>2 DEF AtMostOne, KpiOf
  <2>3. QED
    BY <2>1, <2>2
<1>4. CompileKpi(readings, kept, measures, k) =
          UNION {KpiOf(k, m, measures) : m \in {x \in found : Meets(k, x)}}
  BY DEF CompileKpi, found
<1>5. QED
  BY <1>2, <1>3, <1>4 DEF AtMostOne

\* What there is at most one of is added to a sequence of a set.
LEMMA OneIsAddedOf ==
  ASSUME NEW T, NEW s \in Seq(T), NEW S \in SUBSET T, AtMostOne(S)
  PROVE  s \o SetToSeq(S) \in Seq(T) /\ Range(s \o SetToSeq(S)) = Range(s) \cup S
<1>1. s \in Seq(Range(s)) /\ Range(s) \subseteq T
  BY SeqOfRange, RangeOfSeq
<1> DEFINE t == s \o SetToSeq(S)
<1>2. t \in Seq(Range(t)) /\ Range(t) = Range(s) \cup S
  BY <1>1, OneIsAdded
<1> HIDE DEF t
<1>3. t \in Seq(T)
  BY <1>1, <1>2
<1>4. QED
  BY <1>2, <1>3 DEF t

\* One aggregate of a measure, in one role.
SaidTwice(k, l) ==
    k.kind = "aggregate" /\ l.kind = "aggregate" /\ k.args = l.args /\ k.role = l.role

SaidOnce(kpis) ==
    \A j \in DOMAIN kpis : \A i \in 1 .. (j - 1) : ~ SaidTwice(kpis[i], kpis[j])

\* What is added to some KPI, and is none of them, leaves each said once.
LEMMA OneIsSaidOnce ==
  ASSUME NEW T, NEW s \in Seq(T), SaidOnce(s), NEW S \in SUBSET T, AtMostOne(S),
         \A k \in S : \A i \in DOMAIN s : ~ SaidTwice(s[i], k)
  PROVE  SaidOnce(s \o SetToSeq(S))
<1> DEFINE m == SetToSeq(S)
           t == s \o m
<1>1. CASE S = {}
  <2>1. m = <<>>
    <3>1. IsFiniteSet(S) /\ Cardinality(S) = 0
      BY <1>1, FS_EmptySet
    <3>2. m \in Seq(S) /\ Len(m) = 0
      BY <3>1, OrderOf
    <3> HIDE DEF m
    <3>3. QED
      BY <3>2
  <2> HIDE DEF m
  <2>2. t = s
    BY <2>1
  <2>3. QED
    BY <2>2 DEF m
<1>2. ASSUME NEW e, S = {e} PROVE SaidOnce(t)
  <2>1. m = <<e>>
    <3>1. IsFiniteSet(S) /\ Cardinality(S) = 1
      BY <1>2, FS_Singleton
    <3>2. m \in Seq(S) /\ Len(m) = 1
      BY <3>1, OrderOf
    <3> HIDE DEF m
    <3>3. QED
      BY <1>2, <3>2
  <2> HIDE DEF m
  <2>2. /\ DOMAIN s = 1 .. Len(s) /\ Len(s) \in Nat
        /\ DOMAIN t = 1 .. (Len(s) + 1)
        /\ \A i \in 1 .. Len(s) : t[i] = s[i]
        /\ t[Len(s) + 1] = e
    BY <2>1
  <2> HIDE DEF t
  <2>3. SUFFICES ASSUME NEW j \in DOMAIN t, NEW i \in 1 .. (j - 1)
                 PROVE  ~ SaidTwice(t[i], t[j])
    BY DEF SaidOnce
  <2>4. i \in 1 .. Len(s)
    BY <2>2
  <2>5. CASE j = Len(s) + 1
    BY <1>2, <2>2, <2>4, <2>5
  <2>6. CASE j # Len(s) + 1
    <3>1. j \in DOMAIN s
      BY <2>2, <2>6
    <3>2. QED
      BY <2>2, <2>4, <3>1 DEF SaidOnce
  <2>7. QED
    BY <2>5, <2>6
<1>3. \A e \in S : S = {e}
  BY DEF AtMostOne
<1>4. QED
  BY <1>1, <1>2, <1>3

\* What is compiled of some KPI is a sequence, each of one that was given and none said
\* twice.
LEMMA CompiledKpisAre ==
  ASSUME NEW kpis, kpis \in Seq(Range(kpis)), NEW readings, NEW kept,
         NEW measures, measures \in Seq(Range(measures))
  PROVE  LET made == CompileKpis(kpis, readings, kept, measures)
         IN  /\ made \in Seq(Range(made))
             /\ \A k \in Range(made) : \E given \in Range(kpis) :
                   k \in CompileKpi(readings, kept, measures, given)
             /\ SaidOnce(made)
<1> DEFINE N == Len(kpis)
           made(k) == CompileKpi(readings, kept, measures, k)
           T == UNION {made(kpis[n]) : n \in 1 .. N}
           S == {b \in Seq(T) : SaidOnce(b)}
           Fresh(b, n) == {k \in made(kpis[n]) : ~ Repeated(b, k)}
           Step(b, n) == b \o SetToSeq(Fresh(b, n))
           Grows(f) == f = [n \in 0 .. N |-> IF n = 0 THEN <<>> ELSE Step(f[n - 1], n)]
           W == CHOOSE f : Grows(f)
           G == [p \in S \X (1 .. N) |-> Step(p[1], p[2])]
<1>1. CompileKpis(kpis, readings, kept, measures) = W[N]
  BY DEF CompileKpis
<1>2. N \in Nat
  OBVIOUS
<1>3. \A b \in S, n \in 1 .. N : Step(b, n) \in S
  <2> SUFFICES ASSUME NEW b \in S, NEW n \in 1 .. N PROVE Step(b, n) \in S
    OBVIOUS
  <2>1. AtMostOne(made(kpis[n]))
    BY CompiledKpiIsOne
  <2> HIDE DEF made
  <2>2. AtMostOne(Fresh(b, n)) /\ Fresh(b, n) \in SUBSET T
    BY <2>1 DEF AtMostOne
  <2>3. \A k \in Fresh(b, n) : \A i \in DOMAIN b : ~ SaidTwice(b[i], k)
    BY DEF Repeated, SaidTwice
  <2> HIDE DEF Fresh, T
  <2>4. b \in Seq(T) /\ SaidOnce(b)
    OBVIOUS
  <2>5. SaidOnce(Step(b, n))
    BY <2>2, <2>3, <2>4, OneIsSaidOnce
  <2>6. Step(b, n) \in Seq(T)
    BY <2>2, <2>4, OneIsAddedOf
  <2>7. QED
    BY <2>5, <2>6
<1>4. <<>> \in S
  BY DEF SaidOnce
<1> HIDE DEF Step, S, N
<1>5. /\ G \in [S \X (1 .. N) -> S]
      /\ \A b \in S, n \in 1 .. N : G[<<b, n>>] = Step(b, n)
  BY <1>3
<1> HIDE DEF G
<1>6. PICK f \in [0 .. N -> S] : Iterates(f, N, <<>>, G)
  BY <1>2, <1>4, <1>5, IterationExists
<1>7. Grows(f)
  <2>1. \A n \in 0 .. N : n # 0 => n \in 1 .. N /\ n - 1 \in 0 .. N
    BY <1>2
  <2>2. \A n \in 0 .. N : f[n] = IF n = 0 THEN <<>> ELSE Step(f[n - 1], n)
    BY <1>5, <1>6, <2>1 DEF Iterates
  <2>3. QED
    BY <2>2
<1>8. Grows(W)
  BY <1>7
<1> HIDE DEF W
<1>9. W[0] = <<>> /\ \A n \in 1 .. N : W[n] = Step(W[n - 1], n)
  <2> DEFINE E(n) == IF n = 0 THEN <<>> ELSE Step(W[n - 1], n)
  <2>1. W = [n \in 0 .. N |-> E(n)]
    BY <1>8
  <2>2. E(0) = <<>> /\ \A n \in 1 .. N : n \in 0 .. N /\ E(n) = Step(W[n - 1], n)
    BY <1>2
  <2>3. 0 \in 0 .. N
    BY <1>2
  <2> HIDE DEF E
  <2>4. QED
    BY <2>1, <2>2, <2>3
<1> HIDE DEF Grows
<1>10. W[0] \in S /\ \A n \in 1 .. N : W[n - 1] \in S => W[n] \in S
  BY <1>3, <1>4, <1>9
<1>11. \A n \in 0 .. N : W[n] \in S
  BY <1>2, <1>10, StaysIn
<1>12. W[N] \in S
  BY <1>2, <1>11
<1>13. Range(W[N]) \subseteq T /\ W[N] \in Seq(Range(W[N])) /\ SaidOnce(W[N])
  <2> HIDE DEF T
  <2>1. QED
    BY <1>12, SeqOfRange, RangeOfSeq DEF S
<1>14. \A k \in T : \E given \in Range(kpis) : k \in made(given)
  <2>1. \A n \in 1 .. N : kpis[n] \in Range(kpis)
    BY DEF Range, N
  <2> HIDE DEF made
  <2>2. QED
    BY <2>1
<1> HIDE DEF T
<1>15. \A k \in Range(W[N]) : \E given \in Range(kpis) : k \in made(given)
  BY <1>13, <1>14
<1>16. QED
  BY <1>1, <1>13, <1>15

\* The one document of a blueprint, and where its parts come from.
LEMMA ExpandedParts ==
  ASSUME NEW bp, NEW scope, NEW own \in Expanded(bp, scope)
  PROVE  /\ Expanded(bp, scope) = {own}
         /\ {"fact", "dimensions", "measures", "kpis"} \subseteq DOMAIN own
         /\ own.measures = CompileMeasures(Readings(bp), bp.fact, LineGrain(bp))
         /\ own.dimensions = CompileDimensions(bp, scope)
         /\ own.kpis = CompileKpis(bp.kpis, Readings(bp), KeptOf(Readings(bp), bp.fact), own.measures)
<1> DEFINE readings == Readings(bp)
           doc == Measured(bp, readings, scope)
<1>1. own = WithKpis(bp, readings, doc) /\ Expanded(bp, scope) = {own}
  BY DEF Expanded
<1> HIDE DEF readings
<1>2. /\ {"fact", "dimensions", "measures", "kpis", "warned"} \subseteq DOMAIN doc
      /\ doc.measures = CompileMeasures(readings, bp.fact, LineGrain(bp))
      /\ doc.dimensions = CompileDimensions(bp, scope)
  BY DEF Measured
<1> HIDE DEF doc
<1>3. /\ DOMAIN own = DOMAIN doc
      /\ own.measures = doc.measures
      /\ own.dimensions = doc.dimensions
      /\ own.kpis = CompileKpis(bp.kpis, readings, KeptOf(readings, bp.fact), doc.measures)
  BY <1>1, <1>2 DEF WithKpis
<1>4. QED
  BY <1>1, <1>2, <1>3 DEF readings

\* The one document of a blueprint lists its measures and its KPI, and gives each name
\* of a dimension once.
LEMMA ExpandedIs ==
  ASSUME NEW bp, IsBlueprint(bp), NEW scope, NEW own \in Expanded(bp, scope)
  PROVE  /\ Expanded(bp, scope) = {own}
         /\ {"fact", "dimensions", "measures", "kpis"} \subseteq DOMAIN own
         /\ own.measures \in Seq(Range(own.measures))
         /\ own.kpis \in Seq(Range(own.kpis)) /\ SaidOnce(own.kpis)
         /\ \A d, e \in own.dimensions : d.name = e.name => d = e
<1>1. Readings(bp) \in Seq(Range(Readings(bp)))
  BY ReadingsAre
<1>2. own.measures \in Seq(Range(own.measures))
  BY <1>1, ExpandedParts, CompiledMeasuresAre
<1>3. own.kpis \in Seq(Range(own.kpis)) /\ SaidOnce(own.kpis)
  BY <1>2, ExpandedParts, CompiledKpisAre DEF IsBlueprint
<1>4. \A d, e \in CompileDimensions(bp, scope) : d.name = e.name => d = e
  <2>1. \A n, t : CompileDimension(n, t, scope).name = n
    BY DEF CompileDimension
  <2>2. QED
    BY <2>1 DEF CompileDimensions
<1>5. QED
  BY <1>2, <1>3, <1>4, ExpandedParts

FoundBy(group, t) == {x \in ColumnsOf(t) : group \subseteq Column[x].words}

\* One group finds c, and none finds another column.
FindOnly(groups, t, c) ==
    /\ \E N \in Nat : DOMAIN groups = 1 .. N
    /\ \E i \in DOMAIN groups : FoundBy(groups[i], t) = {c}
    /\ \A i \in DOMAIN groups : FoundBy(groups[i], t) \subseteq {c}

\* The first group that finds anything finds that column.
LEMMA MatchingIs ==
  ASSUME NEW groups, NEW t, NEW c, FindOnly(groups, t, c)
  PROVE  Matching(groups, {t}) = {c}
<1> DEFINE found(i) == {x \in UNION {ColumnsOf(u) : u \in {t}} : groups[i] \subseteq Column[x].words}
           hits == {i \in DOMAIN groups : found(i) # {}}
<1>1. \A i : found(i) = FoundBy(groups[i], t)
  BY DEF FoundBy
<1>2. Matching(groups, {t}) = IF hits = {} THEN {} ELSE found(Min(hits))
  BY DEF Matching
<1> HIDE DEF found
<1>3. hits # {}
  BY <1>1 DEF FindOnly
<1>4. hits \in SUBSET Nat
  BY DEF FindOnly
<1>5. Min(hits) \in hits
  BY <1>3, <1>4, LeastExists
<1>6. found(Min(hits)) = {c}
  BY <1>1, <1>5 DEF FindOnly
<1>7. QED
  BY <1>2, <1>3, <1>6

\* The quantity of the fact.
LEMMA QuantityColumnsAre ==
  ASSUME NEW doc, doc.measures \in Seq(Range(doc.measures)), NEW q,
         QuantitiesOf(doc.fact) = {q},
         \A m \in Range(doc.measures) : m.role = "quantity" => Range(m.inputs) = {q}
  PROVE  QuantityColumns(doc) = {q}
<1> DEFINE known == Of(doc.measures, "quantity")
<1>1. known \subseteq {m \in Range(doc.measures) : m.role = "quantity"}
  <2>1. \A positions \in SUBSET DOMAIN doc.measures :
            FirstAt(doc.measures, positions) \subseteq {doc.measures[i] : i \in positions}
    BY FirstIs
  <2>2. QED
    BY <2>1 DEF Of, Range
<1> HIDE DEF known
<1>2. CASE known # {}
  BY <1>1, <1>2 DEF QuantityColumns, known
<1>3. CASE known = {}
  <2>1. DOMAIN QuantityGroups = 1 .. 2
    BY DEF QuantityGroups
  <2>2. /\ FoundBy(QuantityGroups[2], doc.fact) = {q}
        /\ FoundBy(QuantityGroups[1], doc.fact) \subseteq {q}
    BY DEF QuantityGroups, QuantitiesOf, Quantity, FoundBy
  <2>3. FindOnly(QuantityGroups, doc.fact, q)
    BY <2>1, <2>2 DEF FindOnly
  <2>4. Matching(QuantityGroups, {doc.fact}) = {q}
    BY <2>3, MatchingIs
  <2>5. QED
    BY <1>3, <2>4 DEF QuantityColumns, known
<1>4. QED
  BY <1>2, <1>3

\* The one product of a document has one cost.
OneProduct(doc, d, c) ==
    /\ d \in doc.dimensions /\ d.name = "dim_producto"
    /\ \A e \in doc.dimensions : e.name = d.name => e = d
    /\ CostsOf(d.source) = {c}

\* That is the cost, whatever costs other tables have.
LEMMA CostColumnsAre ==
  ASSUME NEW doc, NEW scope, NEW d, NEW c, OneProduct(doc, d, c),
         d.source \in Reachable(doc.fact, scope)
  PROVE  CostColumns(doc, scope) = {c}
<1> DEFINE near == Reachable(doc.fact, scope)
           products == {x.source : x \in {e \in doc.dimensions : e.name = "dim_producto"}} \cap near
           t == d.source
<1>1. products = {t}
  BY DEF OneProduct
<1> HIDE DEF products
<1>2. DOMAIN CostGroups = 1 .. 4 /\ \A i \in 1 .. 4 : "cost" \in CostGroups[i]
  BY DEF CostGroups
<1>3. FoundBy(CostGroups[4], t) = {c}
  BY DEF CostGroups, CostsOf, FoundBy, OneProduct
<1>4. \A i \in 1 .. 4 : FoundBy(CostGroups[i], t) \subseteq {c}
  BY <1>2 DEF CostsOf, FoundBy, OneProduct
<1>5. FindOnly(CostGroups, t, c)
  BY <1>2, <1>3, <1>4 DEF FindOnly
<1>6. Matching(CostGroups, {t}) = {c}
  BY <1>5, MatchingIs
<1>7. QED
  BY <1>1, <1>6 DEF CostColumns, products

\* What a measure's parts prove.
LEMMA ProvenByIs ==
  ASSUME NEW parts, NEW m
  PROVE  /\ AtMostOne(ProvenBy(parts, m))
         /\ \A x \in ProvenBy(parts, m) :
               x = [m EXCEPT !.inputs = [i \in DOMAIN parts |-> CHOOSE c \in parts[i] : TRUE]]
  BY DEF ProvenBy, AtMostOne

\* The measures that are proven, and what they are called.
LEMMA ProvenAre ==
  ASSUME NEW doc, NEW goals, NEW scope
  PROVE  /\ AtMostOne(ProvenQuantity(doc)) /\ \A m \in ProvenQuantity(doc) : m.role = "quantity"
         /\ AtMostOne(ProvenCost(doc, goals, scope))
         /\ AtMostOne(ProvenDiscount(doc, goals))
         /\ \A m \in ProvenDiscount(doc, goals) : m.role = "discount_amount"
<1>1. /\ AtMostOne(ProvenQuantity(doc))
      /\ \A m \in ProvenQuantity(doc) : m.role = "quantity"
  BY ProvenByIs DEF ProvenQuantity, Built
<1>2. AtMostOne(ProvenCost(doc, goals, scope))
  BY ProvenByIs DEF ProvenCost, AtMostOne
<1>3. /\ AtMostOne(ProvenDiscount(doc, goals))
      /\ \A m \in ProvenDiscount(doc, goals) : m.role = "discount_amount"
  <2>1. CASE "discount_amount" \notin goals
    BY <2>1 DEF ProvenDiscount, AtMostOne
  <2>2. CASE "discount_amount" \in goals
    BY <2>2, ProvenByIs DEF ProvenDiscount, Built
  <2>3. QED
    BY <2>1, <2>2
<1>4. QED
  BY <1>1, <1>2, <1>3

\* A measure is added when nothing has its role, and what is there stays.
LEMMA EnsureIs ==
  ASSUME NEW s, s \in Seq(Range(s)), NEW proven, AtMostOne(proven)
  PROVE  LET t == Ensure(s, proven)
         IN  /\ t \in Seq(Range(t))
             /\ Range(s) \subseteq Range(t) /\ Range(t) \subseteq Range(s) \cup proven
             /\ \A m \in proven : (\A x \in Range(s) : x.role # m.role) => m \in Range(t)
<1> DEFINE fresh == {m \in proven : \A x \in Range(s) : x.role # m.role}
<1>1. AtMostOne(fresh)
  BY DEF AtMostOne
<1> HIDE DEF fresh
<1>2. LET t == s \o SetToSeq(fresh) IN t \in Seq(Range(t)) /\ Range(t) = Range(s) \cup fresh
  BY <1>1, OneIsAdded
<1>3. Ensure(s, proven) = s \o SetToSeq(fresh)
  BY DEF Ensure, fresh
<1>4. QED
  BY <1>2, <1>3 DEF fresh

\* Nothing is in doubt about the quantity and the cost.
CostIsKnown(doc, scope, q, c) == QuantityColumns(doc) = {q} /\ CostColumns(doc, scope) = {c}

\* One measure, a cost by the piece.
OneCost(measures, q, c) ==
    \E m : /\ measures = {m}
           /\ m.role = "cost_amount" /\ m.operation = "multiply" /\ Range(m.inputs) = {q, c}

\* One quantity and one cost prove a cost.
LEMMA CostIsProven ==
  ASSUME NEW doc, NEW goals, "gross_margin" \in goals, NEW scope, NEW q, NEW c,
         CostIsKnown(doc, scope, q, c)
  PROVE  OneCost(ProvenCost(doc, goals, scope), q, c)
<1> DEFINE parts == <<{q}, {c}>>
           m == [Built("costo_total", {"cost", "total"}, "cost_amount", "multiply")
                   EXCEPT !.inputs = [i \in DOMAIN parts |-> CHOOSE x \in parts[i] : TRUE]]
<1>1. DOMAIN parts = {1, 2} /\ parts[1] = {q} /\ parts[2] = {c}
  OBVIOUS
<1>2. \A i \in DOMAIN parts : Cardinality(parts[i]) = 1
  BY <1>1, FS_Singleton
<1>3. ProvenCost(doc, goals, scope) = {m}
  <2>1. goals \cap CostGoals # {}
    BY DEF CostGoals
  <2>2. QuantityColumns(doc) = {q} /\ CostColumns(doc, scope) = {c}
    BY DEF CostIsKnown
  <2>3. ProvenCost(doc, goals, scope)
          = ProvenBy(parts, Built("costo_total", {"cost", "total"}, "cost_amount", "multiply"))
    BY <2>1, <2>2 DEF ProvenCost
  <2>4. QED
    BY <1>2, <2>3 DEF ProvenBy
<1>4. m.role = "cost_amount" /\ m.operation = "multiply"
  BY DEF Built
<1>5. m.inputs = [i \in DOMAIN parts |-> CHOOSE x \in parts[i] : TRUE]
  BY DEF Built
<1>6. Range(m.inputs) = {q, c}
  <2> HIDE DEF m
  <2>1. DOMAIN m.inputs = {1, 2} /\ m.inputs[1] = q /\ m.inputs[2] = c
    BY <1>1, <1>5
  <2>2. QED
    BY <2>1 DEF Range
<1> HIDE DEF m
<1>7. QED
  BY <1>3, <1>4, <1>6 DEF OneCost

\* The quantity is proven by its column.
LEMMA QuantityIsProven ==
  ASSUME NEW doc, NEW q, QuantityColumns(doc) = {q}
  PROVE  \A m \in ProvenQuantity(doc) : Range(m.inputs) = {q}
<1> DEFINE parts == <<{q}>>
<1>1. DOMAIN parts = {1} /\ parts[1] = {q}
  OBVIOUS
<1>2. \A m \in ProvenQuantity(doc) : m.inputs = [i \in DOMAIN parts |-> CHOOSE x \in parts[i] : TRUE]
  BY ProvenByIs DEF ProvenQuantity, Built
<1> HIDE DEF parts
<1>3. \A m \in ProvenQuantity(doc) : DOMAIN m.inputs = {1} /\ m.inputs[1] = q
  BY <1>1, <1>2
<1>4. QED
  BY <1>3 DEF Range

\* A role has its first measure.
LEMMA RolesHaveMeasures ==
  ASSUME NEW s, s \in Seq(Range(s))
  PROVE  /\ \A role : /\ AtMostOne(Of(s, role))
                      /\ Of(s, role) \subseteq {m \in Range(s) : m.role = role}
                      /\ (\E m \in Range(s) : m.role = role) => Of(s, role) # {}
         /\ AtMostOne(Sales(s))
         /\ Sales(s) \subseteq {m \in Range(s) : m.role = "sales_amount" /\ m.aggregation = "sum"}
         /\ (\E m \in Range(s) : m.role = "sales_amount" /\ m.aggregation = "sum") => Sales(s) # {}
<1>1. ASSUME NEW role
      PROVE  /\ AtMostOne(Of(s, role))
             /\ Of(s, role) \subseteq {m \in Range(s) : m.role = role}
             /\ (\E m \in Range(s) : m.role = role) => Of(s, role) # {}
  <2> DEFINE positions == {i \in DOMAIN s : s[i].role = role}
  <2>1. positions \in SUBSET DOMAIN s
    OBVIOUS
  <2>2. Of(s, role) = FirstAt(s, positions)
    BY DEF Of
  <2>3. /\ {s[i] : i \in positions} \subseteq {m \in Range(s) : m.role = role}
        /\ (\E m \in Range(s) : m.role = role) => positions # {}
    BY DEF Range
  <2> HIDE DEF positions
  <2>4. QED
    BY <2>1, <2>2, <2>3, FirstIs
<1>2. /\ AtMostOne(Sales(s))
      /\ Sales(s) \subseteq {m \in Range(s) : m.role = "sales_amount" /\ m.aggregation = "sum"}
      /\ (\E m \in Range(s) : m.role = "sales_amount" /\ m.aggregation = "sum") => Sales(s) # {}
  <2> DEFINE positions == {i \in DOMAIN s : s[i].role = "sales_amount" /\ s[i].aggregation = "sum"}
  <2>1. positions \in SUBSET DOMAIN s
    OBVIOUS
  <2>2. Sales(s) = FirstAt(s, positions)
    BY DEF Sales, WithRole
  <2>3. /\ {s[i] : i \in positions}
              \subseteq {m \in Range(s) : m.role = "sales_amount" /\ m.aggregation = "sum"}
        /\ (\E m \in Range(s) : m.role = "sales_amount" /\ m.aggregation = "sum") => positions # {}
    BY DEF Range
  <2> HIDE DEF positions
  <2>4. QED
    BY <2>1, <2>2, <2>3, FirstIs
<1>3. QED
  BY <1>1, <1>2

\* A document whose sales, quantity and cost leave no doubt.
Certain(doc, scope, q, c) ==
    /\ {"fact", "dimensions", "measures", "kpis"} \subseteq DOMAIN doc
    /\ doc.measures \in Seq(Range(doc.measures)) /\ doc.kpis \in Seq(Range(doc.kpis))
    /\ QuantitiesOf(doc.fact) = {q} /\ CostColumns(doc, scope) = {c}
    /\ \A m \in Range(doc.measures) : m.role = "quantity" => Range(m.inputs) = {q}
    /\ Sales(doc.measures) # {}

\* Without a cost of its own such a document gets the one of the product, and stays
\* without doubt.
LEMMA MeasuresAreAdded ==
  ASSUME NEW own, NEW scope, NEW q, NEW c, Certain(own, scope, q, c),
         \A m \in Range(own.measures) : m.role # "cost_amount",
         NEW goals, "gross_margin" \in goals
  PROVE  LET doc == WithMeasures(own, goals, scope)
         IN  /\ Certain(doc, scope, q, c)
             /\ doc.kpis = own.kpis
             /\ \E m \in Range(doc.measures) :
                   /\ Of(doc.measures, "cost_amount") = {m}
                   /\ m.role = "cost_amount" /\ m.operation = "multiply"
                   /\ Range(m.inputs) = {q, c}
<1> DEFINE first  == Ensure(own.measures, ProvenQuantity(own))
           second == Ensure(first, ProvenCost(own, goals, scope))
           third  == Ensure(second, ProvenDiscount(own, goals))
           doc == WithMeasures(own, goals, scope)
<1>1. goals \cap FinancialGoals # {}
  BY DEF FinancialGoals
<1>2. doc = [own EXCEPT !.measures = third]
  BY <1>1 DEF WithMeasures
<1>3. /\ DOMAIN doc = DOMAIN own /\ doc.measures = third /\ doc.kpis = own.kpis
      /\ doc.fact = own.fact /\ doc.dimensions = own.dimensions
  BY <1>2 DEF Certain
<1> HIDE DEF doc
<1>4. QuantityColumns(own) = {q}
  BY QuantityColumnsAre DEF Certain
<1>5. PICK cost : /\ ProvenCost(own, goals, scope) = {cost}
                  /\ cost.role = "cost_amount" /\ cost.operation = "multiply"
                  /\ Range(cost.inputs) = {q, c}
  <2>1. CostIsKnown(own, scope, q, c)
    BY <1>4 DEF Certain, CostIsKnown
  <2>2. OneCost(ProvenCost(own, goals, scope), q, c)
    BY <2>1, CostIsProven
  <2>3. QED
    BY <2>2 DEF OneCost
<1>6. /\ first \in Seq(Range(first)) /\ Range(own.measures) \subseteq Range(first)
      /\ Range(first) \subseteq Range(own.measures) \cup ProvenQuantity(own)
  BY ProvenAre, EnsureIs DEF Certain
<1>7. \A m \in ProvenQuantity(own) : m.role = "quantity" /\ Range(m.inputs) = {q}
  BY <1>4, ProvenAre, QuantityIsProven
<1> HIDE DEF first
<1>8. /\ second \in Seq(Range(second)) /\ Range(first) \subseteq Range(second)
      /\ Range(second) \subseteq Range(first) \cup {cost}
      /\ (\A x \in Range(first) : x.role # cost.role) => cost \in Range(second)
  <2>1. AtMostOne({cost})
    BY DEF AtMostOne
  <2>2. QED
    BY <1>5, <1>6, <2>1, EnsureIs
<1> HIDE DEF second
<1>9. /\ third \in Seq(Range(third)) /\ Range(second) \subseteq Range(third)
      /\ Range(third) \subseteq Range(second) \cup ProvenDiscount(own, goals)
  BY <1>8, ProvenAre, EnsureIs
<1> HIDE DEF third
<1>10. \A m \in ProvenDiscount(own, goals) : m.role = "discount_amount"
  BY ProvenAre
<1>11. \A x \in Range(first) : x.role # "cost_amount"
  BY <1>6, <1>7
<1>12. cost \in Range(third) /\ \A x \in Range(third) : x.role = "cost_amount" => x = cost
  BY <1>5, <1>8, <1>9, <1>10, <1>11
<1>13. \A m \in Range(third) : m.role = "quantity" => Range(m.inputs) = {q}
  BY <1>5, <1>6, <1>7, <1>8, <1>9, <1>10 DEF Certain
<1>14. Sales(third) # {}
  <2>1. \E m \in Range(own.measures) : m.role = "sales_amount" /\ m.aggregation = "sum"
    BY RolesHaveMeasures DEF Certain
  <2>2. \E m \in Range(third) : m.role = "sales_amount" /\ m.aggregation = "sum"
    BY <1>6, <1>8, <1>9, <2>1
  <2>3. QED
    BY <1>9, <2>2, RolesHaveMeasures
<1>15. CostColumns(doc, scope) = {c}
  BY <1>3 DEF Certain, CostColumns
<1>16. Certain(doc, scope, q, c)
  BY <1>3, <1>9, <1>13, <1>14, <1>15 DEF Certain
<1>17. Of(third, "cost_amount") = {cost}
  BY <1>5, <1>9, <1>12, RolesHaveMeasures
<1>18. QED
  BY <1>3, <1>5, <1>12, <1>16, <1>17 DEF doc

\* Seven formulas, over inputs that each stand for one measure at most.
LEMMA FormulasAreSeven ==
  Len(Formulas) = 7 /\ DOMAIN Formulas = 1 .. 7
  BY DEF Formulas, F

LEMMA FormulaIsOne ==
  ASSUME NEW s, s \in Seq(Range(s)), NEW n \in 1 .. 7
  PROVE  AtMostOne(KpiOfFormula(Formulas[n], s))
<1> DEFINE names == {"total", "sales", "documents", "cost", "discount", "quantity", "margin"}
<1>1. AtMostOne(Sales(s)) /\ AtMostOne(Transactions(s)) /\ \A role : AtMostOne(Of(s, role))
  BY RolesHaveMeasures, FirstIs DEF Transactions, WithRole
<1>2. /\ Inputs(s, "total") = Sales(s)
      /\ Inputs(s, "sales") = IF Sales(s) # {} THEN Sales(s) ELSE Of(s, "sales_amount")
      /\ Inputs(s, "documents") = Transactions(s)
      /\ Inputs(s, "cost") = Of(s, "cost_amount")
      /\ Inputs(s, "discount") = Of(s, "discount_amount")
      /\ Inputs(s, "quantity") = Of(s, "quantity")
      /\ Inputs(s, "margin") = {[name |-> "margen_bruto", role |-> "none"]}
  BY DEF Inputs
<1>3. \A e : AtMostOne({e})
  BY DEF AtMostOne
<1>4. \A x \in names : AtMostOne(Inputs(s, x))
  BY <1>1, <1>2, <1>3
<1>5. Formulas[n].x \in names /\ Formulas[n].y \in names
  <2>1. n = 1 \/ n = 2 \/ n = 3 \/ n = 4 \/ n = 5 \/ n = 6 \/ n = 7
    OBVIOUS
  <2>2. QED
    BY <2>1 DEF Formulas, F
<1> HIDE DEF names
<1> DEFINE f == Formulas[n]
           kpi(x, y) == Kpi(f.code, f.words, IF f.kind = "aggregate" THEN x.role ELSE "none", f.kind,
                            <<x.name, IF f.kind = "aggregate" THEN "sum" ELSE y.name>>)
<1>6. \A k \in KpiOfFormula(f, s) : \E x \in Inputs(s, f.x), y \in Inputs(s, f.y) : k = kpi(x, y)
  BY DEF KpiOfFormula
<1> HIDE DEF kpi, f
<1>7. AtMostOne(Inputs(s, f.x)) /\ AtMostOne(Inputs(s, f.y))
  BY <1>4, <1>5 DEF f
<1>8. QED
  BY <1>6, <1>7 DEF AtMostOne, f

\* Without a financial goal nothing is added.
IsFinancial(goals) == goals \cap FinancialGoals # {}

\* What is asked of a formula.
Asked(f, doc, goals, scope) ==
    f.goal \in goals \cup {"any"} /\ (f.costed => ProvenCost(doc, goals, scope) # {})

\* A document with its measures and its KPI.
ListsBoth(doc) ==
    /\ {"measures", "kpis"} \subseteq DOMAIN doc
    /\ doc.measures \in Seq(Range(doc.measures)) /\ doc.kpis \in Seq(Range(doc.kpis))

\* The KPI of a document and those of the formulas before one.
KnownBefore(doc, n) ==
    Range(doc.kpis) \cup (UNION {KpiOfFormula(Formulas[m], doc.measures) : m \in 1 .. (n - 1)})

\* A KPI is among some, or was said by one of them that was known before.
Answered(k, kpis, known) ==
    \/ k \in Range(kpis)
    \/ \E before : /\ Said(before, k)
                   /\ Range(before) \subseteq Range(kpis) /\ Range(before) \subseteq known

\* The KPI so far, formula by formula: each formula that is asked for and not said yet.
FormulaSteps(W, doc, goals, scope) ==
    /\ WithFormulas(doc, goals, scope).kpis = W[7]
    /\ W[0] = doc.kpis
    /\ W[7] \in Seq(Range(W[7]))
    /\ SaidOnce(doc.kpis) => SaidOnce(W[7])
    /\ \A m \in 1 .. 7 :
          Range(W[m]) = Range(W[m - 1]) \cup {x \in KpiOfFormula(Formulas[m], doc.measures) :
                            Asked(Formulas[m], doc, goals, scope) /\ ~ Said(W[m - 1], x)}

\* Formulas are computed one after the other.
LEMMA FormulasOneByOne ==
  ASSUME NEW doc, ListsBoth(doc), NEW goals, IsFinancial(goals), NEW scope
  PROVE  \E W : FormulaSteps(W, doc, goals, scope)
<1> DEFINE N == Len(Formulas)
           asked(f) == /\ f.goal \in goals \cup {"any"}
                       /\ f.costed => ProvenCost(doc, goals, scope) # {}
           made(m) == KpiOfFormula(Formulas[m], doc.measures)
           T == Range(doc.kpis) \cup (UNION {made(m) : m \in 1 .. 7})
           S == {b \in Seq(T) : SaidOnce(doc.kpis) => SaidOnce(b)}
           Fresh(b, m) == {x \in made(m) : asked(Formulas[m]) /\ ~ Said(b, x)}
           Step(b, m) == b \o SetToSeq(Fresh(b, m))
           Grows(f) == f = [m \in 0 .. N |-> IF m = 0 THEN doc.kpis ELSE Step(f[m - 1], m)]
           W == CHOOSE f : Grows(f)
           G == [p \in S \X (1 .. N) |-> Step(p[1], p[2])]
<1>1. WithFormulas(doc, goals, scope).kpis = W[N]
  BY DEF WithFormulas, IsFinancial, ListsBoth
<1>2. N = 7
  BY FormulasAreSeven
<1>4. \A b \in S, m \in 1 .. N : /\ Step(b, m) \in S
                                 /\ Range(Step(b, m)) = Range(b) \cup Fresh(b, m)
  <2> SUFFICES ASSUME NEW b \in S, NEW m \in 1 .. 7
               PROVE  Step(b, m) \in S /\ Range(Step(b, m)) = Range(b) \cup Fresh(b, m)
    BY <1>2
  <2>1. AtMostOne(made(m))
    BY FormulaIsOne DEF ListsBoth
  <2> HIDE DEF made, asked
  <2>2. AtMostOne(Fresh(b, m)) /\ Fresh(b, m) \in SUBSET T
    BY <2>1 DEF AtMostOne
  <2>3. \A k \in Fresh(b, m) : \A i \in DOMAIN b : ~ SaidTwice(b[i], k)
    BY DEF Said, SaidTwice
  <2> HIDE DEF Fresh, T
  <2>4. b \in Seq(T) /\ (SaidOnce(doc.kpis) => SaidOnce(b))
    OBVIOUS
  <2>5. SaidOnce(doc.kpis) => SaidOnce(Step(b, m))
    BY <2>2, <2>3, <2>4, OneIsSaidOnce
  <2>6. Step(b, m) \in Seq(T) /\ Range(Step(b, m)) = Range(b) \cup Fresh(b, m)
    BY <2>2, <2>4, OneIsAddedOf
  <2>7. QED
    BY <2>5, <2>6
<1>5. doc.kpis \in S
  BY DEF ListsBoth
<1> HIDE DEF Step, S, N, asked
<1>6. /\ G \in [S \X (1 .. N) -> S]
      /\ \A b \in S, m \in 1 .. N : G[<<b, m>>] = Step(b, m)
  BY <1>4
<1> HIDE DEF G
<1>7. PICK f \in [0 .. N -> S] : Iterates(f, N, doc.kpis, G)
  BY <1>2, <1>5, <1>6, IterationExists
<1>8. Grows(f)
  <2>1. \A m \in 0 .. N : m # 0 => m \in 1 .. N /\ m - 1 \in 0 .. N
    BY <1>2
  <2>2. \A m \in 0 .. N : f[m] = IF m = 0 THEN doc.kpis ELSE Step(f[m - 1], m)
    BY <1>6, <1>7, <2>1 DEF Iterates
  <2>3. QED
    BY <2>2
<1>9. Grows(W)
  BY <1>8
<1> HIDE DEF W
<1>10. W[0] = doc.kpis /\ \A m \in 1 .. N : W[m] = Step(W[m - 1], m)
  <2> DEFINE E(m) == IF m = 0 THEN doc.kpis ELSE Step(W[m - 1], m)
  <2>1. W = [m \in 0 .. N |-> E(m)]
    BY <1>9
  <2>2. E(0) = doc.kpis /\ \A m \in 1 .. N : m \in 0 .. N /\ E(m) = Step(W[m - 1], m)
    BY <1>2
  <2>3. 0 \in 0 .. N
    BY <1>2
  <2> HIDE DEF E
  <2>4. QED
    BY <2>1, <2>2, <2>3
<1> HIDE DEF Grows
<1>11. \A m \in 0 .. N : W[m] \in S
  <2>1. W[0] \in S /\ \A m \in 1 .. N : W[m - 1] \in S => W[m] \in S
    BY <1>4, <1>5, <1>10
  <2>2. QED
    BY <1>2, <2>1, StaysIn
<1>12. \A m \in 1 .. N : Range(W[m]) = Range(W[m - 1]) \cup Fresh(W[m - 1], m)
  <2>1. \A m \in 1 .. N : m - 1 \in 0 .. N
    BY <1>2
  <2>2. QED
    BY <1>4, <1>10, <1>11, <2>1
<1>13. W[7] \in Seq(Range(W[7])) /\ (SaidOnce(doc.kpis) => SaidOnce(W[7]))
  <2>1. W[7] \in Seq(T) /\ (SaidOnce(doc.kpis) => SaidOnce(W[7]))
    BY <1>2, <1>11 DEF S
  <2> HIDE DEF T
  <2>2. QED
    BY <2>1, SeqOfRange
<1>14. \A m : asked(Formulas[m]) <=> Asked(Formulas[m], doc, goals, scope)
  BY DEF asked, Asked
<1>15. \A m \in 1 .. 7 : Fresh(W[m - 1], m) =
          {x \in KpiOfFormula(Formulas[m], doc.measures) :
              Asked(Formulas[m], doc, goals, scope) /\ ~ Said(W[m - 1], x)}
  BY <1>14
<1> HIDE DEF Fresh
<1>16. FormulaSteps(W, doc, goals, scope)
  BY <1>1, <1>2, <1>10, <1>12, <1>13, <1>15 DEF FormulaSteps
<1>17. QED
  BY <1>16

\* No formula takes the place of a KPI.
LEMMA KpisStay ==
  ASSUME NEW doc, ListsBoth(doc), NEW goals, NEW scope
  PROVE  Range(doc.kpis) \subseteq Range(WithFormulas(doc, goals, scope).kpis)
<1>1. CASE IsFinancial(goals)
  <2>1. PICK W : FormulaSteps(W, doc, goals, scope)
    BY <1>1, FormulasOneByOne
  <2>2. /\ WithFormulas(doc, goals, scope).kpis = W[7] /\ W[0] = doc.kpis
        /\ \A m \in 1 .. 7 : Range(W[m - 1]) \subseteq Range(W[m])
    BY <2>1 DEF FormulaSteps
  <2>3. /\ Range(W[0]) \subseteq Range(W[1]) /\ Range(W[1]) \subseteq Range(W[2])
        /\ Range(W[2]) \subseteq Range(W[3]) /\ Range(W[3]) \subseteq Range(W[4])
        /\ Range(W[4]) \subseteq Range(W[5]) /\ Range(W[5]) \subseteq Range(W[6])
        /\ Range(W[6]) \subseteq Range(W[7])
    <3> DEFINE Grown(l, m) == Range(W[l]) \subseteq Range(W[m])
    <3>1. \A m \in 1 .. 7 : Grown(m - 1, m)
      BY <2>2
    <3> HIDE DEF Grown
    <3>2. Grown(0, 1) /\ Grown(1, 2) /\ Grown(2, 3) /\ Grown(3, 4) /\ Grown(4, 5) /\ Grown(5, 6)
            /\ Grown(6, 7)
      BY <3>1
    <3>3. QED
      BY <3>2 DEF Grown
  <2>4. QED
    BY <2>2, <2>3
<1>2. CASE ~ IsFinancial(goals)
  BY <1>2 DEF WithFormulas, IsFinancial
<1>3. QED
  BY <1>1, <1>2

\* A formula that is asked for is computed, or was said already by a KPI of the document
\* or of a formula before it.
LEMMA FormulasAreAnswered ==
  ASSUME NEW doc, ListsBoth(doc), NEW goals, IsFinancial(goals), NEW scope,
         NEW n \in 1 .. 7, Asked(Formulas[n], doc, goals, scope),
         NEW k \in KpiOfFormula(Formulas[n], doc.measures)
  PROVE  Answered(k, WithFormulas(doc, goals, scope).kpis, KnownBefore(doc, n))
<1> DEFINE N == 7
           made(m) == KpiOfFormula(Formulas[m], doc.measures)
<1>1. PICK W : FormulaSteps(W, doc, goals, scope)
  BY FormulasOneByOne
<1> DEFINE Fresh(m) == {x \in made(m) : Asked(Formulas[m], doc, goals, scope) /\ ~ Said(W[m - 1], x)}
<1>2. N = 7
  OBVIOUS
<1>3. WithFormulas(doc, goals, scope).kpis = W[N] /\ W[0] = doc.kpis
  BY <1>1 DEF FormulaSteps
<1>4. \A m \in 1 .. N : Range(W[m]) = Range(W[m - 1]) \cup Fresh(m)
  BY <1>1 DEF FormulaSteps
<1> HIDE DEF made, N
<1>5. Range(W[n - 1]) \subseteq Range(doc.kpis) \cup (UNION {made(m) : m \in 1 .. (n - 1)})
  <2> DEFINE KnownTo(i) == Range(doc.kpis) \cup (UNION {made(m) : m \in 1 .. i})
             D == {i \in 0 .. N : Range(W[i]) \subseteq KnownTo(i)}
  <2>1. 0 \in D /\ D \in SUBSET (0 .. N)
    BY <1>2, <1>3
  <2>2. ASSUME NEW i \in 1 .. N, i - 1 \in D PROVE i \in D
    <3>1. KnownTo(i - 1) \subseteq KnownTo(i) /\ made(i) \subseteq KnownTo(i)
      <4>1. \A m \in 1 .. (i - 1) : m \in 1 .. i
        BY <1>2
      <4>2. i \in 1 .. i
        BY <1>2
      <4>3. QED
        BY <4>1, <4>2
    <3>2. Fresh(i) \subseteq made(i)
      OBVIOUS
    <3> HIDE DEF KnownTo
    <3>3. i \in 0 .. N
      BY <1>2
    <3>4. QED
      BY <1>4, <2>2, <3>1, <3>2, <3>3
  <2>3. D = 0 .. N
    <3> HIDE DEF D
    <3>1. QED
      BY <1>2, <2>1, <2>2, Induction
  <2>4. n - 1 \in 0 .. N
    BY <1>2
  <2>5. QED
    BY <2>3, <2>4
<1>6. ASSUME NEW l \in 0 .. N PROVE Range(W[l]) \subseteq Range(W[N])
  <2> DEFINE D == {j \in 0 .. N : j < l \/ Range(W[l]) \subseteq Range(W[j])}
  <2>1. 0 \in D /\ D \in SUBSET (0 .. N)
    BY <1>2
  <2>2. ASSUME NEW j \in 1 .. N, j - 1 \in D PROVE j \in D
    <3>1. Range(W[j - 1]) \subseteq Range(W[j])
      BY <1>4
    <3>2. j \in 0 .. N /\ (j < l \/ j = l \/ ~ (j - 1 < l))
      BY <1>2
    <3>3. QED
      BY <2>2, <3>1, <3>2
  <2>3. D = 0 .. N
    <3> HIDE DEF D
    <3>1. QED
      BY <1>2, <2>1, <2>2, Induction
  <2>4. N \in 0 .. N /\ ~ (N < l)
    BY <1>2
  <2>5. QED
    BY <2>3, <2>4
<1>7. CASE Said(W[n - 1], k)
  <2>1. n - 1 \in 0 .. N
    BY <1>2
  <2>2. QED
    BY <1>3, <1>5, <1>6, <1>7, <2>1 DEF made, Answered, KnownBefore
<1>8. CASE ~ Said(W[n - 1], k)
  <2>1. n \in 1 .. N /\ n \in 0 .. N
    BY <1>2
  <2>2. k \in Fresh(n)
    BY <1>8 DEF made
  <2>3. k \in Range(W[n])
    BY <1>4, <2>1, <2>2
  <2>4. QED
    BY <1>3, <1>6, <2>1, <2>3 DEF Answered
<1>9. QED
  BY <1>7, <1>8

\* The margin of such a document is computed, whatever its KPI are, unless one of them
\* is already called so.
LEMMA MarginIsComputed ==
  ASSUME NEW own, NEW scope, NEW q, NEW c, Certain(own, scope, q, c),
         \A m \in Range(own.measures) : m.role # "cost_amount",
         "margen_bruto" \notin {k.code : k \in Range(own.kpis)},
         NEW goals, "gross_margin" \in goals
  PROVE  HasMargin(WithFormulas(WithMeasures(own, goals, scope), goals, scope), q, c)
<1> DEFINE doc  == WithMeasures(own, goals, scope)
           full == WithFormulas(doc, goals, scope)
<1> SUFFICES HasMargin(full, q, c)
  OBVIOUS
<1>1. /\ Certain(doc, scope, q, c) /\ doc.kpis = own.kpis
      /\ \E m \in Range(doc.measures) :
            /\ Of(doc.measures, "cost_amount") = {m}
            /\ m.role = "cost_amount" /\ m.operation = "multiply"
            /\ Range(m.inputs) = {q, c}
  BY MeasuresAreAdded
<1> HIDE DEF doc
<1>2. PICK m \in Range(doc.measures) :
          /\ Of(doc.measures, "cost_amount") = {m}
          /\ m.role = "cost_amount" /\ m.operation = "multiply"
          /\ Range(m.inputs) = {q, c}
  BY <1>1
<1>3. ListsBoth(doc) /\ Sales(doc.measures) # {}
  BY <1>1 DEF Certain, ListsBoth
<1>4. PICK s \in Range(doc.measures) : s \in Sales(doc.measures) /\ s.role = "sales_amount"
  BY <1>3, RolesHaveMeasures DEF ListsBoth
<1> DEFINE k == Kpi("margen_bruto", {"margin"}, "none", "difference", <<s.name, m.name>>)
<1>5. k \in KpiOfFormula(Formulas[3], doc.measures)
  <2>1. /\ Formulas[3].x = "sales" /\ Formulas[3].y = "cost" /\ Formulas[3].kind = "difference"
        /\ Formulas[3].code = "margen_bruto" /\ Formulas[3].words = {"margin"}
    BY DEF Formulas, F
  <2>2. s \in Inputs(doc.measures, "sales") /\ m \in Inputs(doc.measures, "cost")
    BY <1>2, <1>4 DEF Inputs
  <2>3. \A f : \A x \in Inputs(doc.measures, f.x), y \in Inputs(doc.measures, f.y) :
            f.kind # "aggregate" =>
               Kpi(f.code, f.words, "none", f.kind, <<x.name, y.name>>) \in KpiOfFormula(f, doc.measures)
    BY DEF KpiOfFormula
  <2>4. QED
    BY <2>1, <2>2, <2>3
<1>6. k.code = "margen_bruto" /\ k.kind = "difference" /\ k.args = <<s.name, m.name>>
  BY DEF Kpi
<1> HIDE DEF k
<1>7. Asked(Formulas[3], doc, goals, scope)
  <2>1. CostIsKnown(doc, scope, q, c)
    BY <1>1, QuantityColumnsAre DEF Certain, CostIsKnown
  <2>2. OneCost(ProvenCost(doc, goals, scope), q, c)
    BY <2>1, CostIsProven
  <2>3. ProvenCost(doc, goals, scope) # {}
    BY <2>2 DEF OneCost
  <2>4. Formulas[3].goal = "gross_margin"
    BY DEF Formulas, F
  <2>5. QED
    BY <2>3, <2>4 DEF Asked
<1>8. IsFinancial(goals)
  BY DEF IsFinancial, FinancialGoals
<1>9. full.measures = doc.measures
  BY <1>8 DEF WithFormulas, IsFinancial
<1>10. Answered(k, full.kpis, KnownBefore(doc, 3))
  BY <1>3, <1>5, <1>7, <1>8, FormulasAreAnswered
<1> HIDE DEF full
<1>11. CASE k \in Range(full.kpis)
  BY <1>2, <1>4, <1>6, <1>9, <1>11 DEF HasMargin
<1>12. ASSUME NEW before, Said(before, k),
              Range(before) \subseteq Range(full.kpis), Range(before) \subseteq KnownBefore(doc, 3)
       PROVE  HasMargin(full, q, c)
  <2>1. \A x \in Range(before) : x.code # "margen_bruto"
    <3>1. \A n \in 1 .. 2 : Formulas[n].code # "margen_bruto"
      <4>1. \A n \in 1 .. 2 : n = 1 \/ n = 2
        OBVIOUS
      <4>2. QED
        BY <4>1 DEF Formulas, F
    <3>2. \A n : \A x \in KpiOfFormula(Formulas[n], doc.measures) : x.code = Formulas[n].code
      BY DEF KpiOfFormula, Kpi
    <3>3. QED
      BY <1>1, <1>12, <3>1, <3>2 DEF KnownBefore
  <2>2. PICK x \in Range(before) : x.kind = "difference" /\ x.args = k.args
    BY <1>6, <1>12, <2>1 DEF Said, Range
  <2>3. QED
    BY <1>2, <1>4, <1>6, <1>9, <1>12, <2>2 DEF HasMargin
<1>13. QED
  BY <1>10, <1>11, <1>12 DEF Answered

\* What the source proves is added to what is listed, and nothing else is touched.
LEMMA MeasuresStayListed ==
  ASSUME NEW own, ListsBoth(own), "dimensions" \in DOMAIN own, NEW goals, NEW scope
  PROVE  LET doc == WithMeasures(own, goals, scope)
         IN  /\ ListsBoth(doc) /\ DOMAIN doc = DOMAIN own
             /\ doc.kpis = own.kpis /\ doc.dimensions = own.dimensions
<1> DEFINE first  == Ensure(own.measures, ProvenQuantity(own))
           second == Ensure(first, ProvenCost(own, goals, scope))
           third  == Ensure(second, ProvenDiscount(own, goals))
           doc == WithMeasures(own, goals, scope)
<1>1. CASE goals \cap FinancialGoals = {}
  BY <1>1 DEF WithMeasures
<1>2. CASE goals \cap FinancialGoals # {}
  <2>1. doc = [own EXCEPT !.measures = third]
    BY <1>2 DEF WithMeasures
  <2>2. DOMAIN doc = DOMAIN own /\ doc.measures = third /\ doc.kpis = own.kpis
        /\ doc.dimensions = own.dimensions
    BY <2>1 DEF ListsBoth
  <2> HIDE DEF doc
  <2>3. first \in Seq(Range(first))
    BY ProvenAre, EnsureIs DEF ListsBoth
  <2> HIDE DEF first
  <2>4. second \in Seq(Range(second))
    BY <2>3, ProvenAre, EnsureIs
  <2> HIDE DEF second
  <2>5. third \in Seq(Range(third))
    BY <2>4, ProvenAre, EnsureIs
  <2> HIDE DEF third
  <2>6. QED
    BY <2>2, <2>5 DEF ListsBoth, doc
<1>3. QED
  BY <1>1, <1>2

\* What the requirements of the need leave as it was compiled.
LEMMA CompiledKeeps ==
  ASSUME NEW bp, IsBlueprint(bp), NEW assessment, NEW scope,
         NEW own \in Expanded(bp, scope), NEW doc \in Compiled(bp, assessment, scope)
  PROVE  Range(own.kpis) \subseteq Range(doc.kpis) /\ doc.dimensions = own.dimensions
<1>1. /\ Expanded(bp, scope) = {own} /\ ListsBoth(own)
  BY ExpandedIs DEF ListsBoth
<1>2. PICK goals, mid : /\ mid = WithMeasures(own, goals, scope)
                        /\ doc = WithFormulas(mid, goals, scope)
  BY <1>1 DEF Compiled
<1>3. /\ ListsBoth(mid) /\ "dimensions" \in DOMAIN mid
      /\ mid.kpis = own.kpis /\ mid.dimensions = own.dimensions
  BY <1>1, <1>2, ExpandedIs, MeasuresStayListed
<1>4. Range(mid.kpis) \subseteq Range(doc.kpis)
  BY <1>2, <1>3, KpisStay
<1>5. doc.dimensions = mid.dimensions
  <2>1. doc = mid \/ \E kpis : doc = [mid EXCEPT !.kpis = kpis]
    BY <1>2 DEF WithFormulas
  <2>2. QED
    BY <1>3, <2>1
<1>6. QED
  BY <1>3, <1>4, <1>5

-----------------------------------------------------------------------------
(* The measure of a KPI *)

\* A KPI stands for one of the blueprint, and takes the measure that this one was given.
TakesItsMeasure(k, own, bp) ==
    \E given \in Range(bp.kpis) :
       /\ given.code = k.code /\ given.words = k.words
       /\ given.measure \in DOMAIN bp.measures
       /\ \E m \in StandsFor(own, bp, bp.measures[given.measure]) : k.args[1] = m.name

\* What is kept has its own calculation, and is no average per document.
LEMMA KeptIsNotDeferred ==
  ASSUME NEW x, NEW fact, Kept(x, fact)
  PROVE  ~ Deferred(x)
<1>1. CASE x.calc = Direct
  BY <1>1 DEF Deferred
<1>2. CASE x.calc # Direct
  <2>1. CalculationAllowed(x.role, x.calc, x.words, fact)
    BY <1>2 DEF Kept
  <2>2. ~ (x.role = "sales_amount" /\ TransactionAverage(x.words))
    BY <2>1 DEF CalculationAllowed, Money
  <2>3. QED
    BY <2>2 DEF Deferred
<1>3. QED
  BY <1>1, <1>2

\* The measures of a document are what the readings that are kept became, each at the
\* place that it has among them.
LEMMA DocumentMeasuresAre ==
  ASSUME NEW bp, IsBlueprint(bp), NEW scope, NEW own \in Expanded(bp, scope)
  PROVE  LET kept == KeptOf(Readings(bp), bp.fact)
             became(i) == Became(Reading(bp.measures[i], bp.fact), bp.fact, LineGrain(bp))
         IN  /\ kept \subseteq DOMAIN bp.measures
             /\ \A i \in kept : /\ Kept(Reading(bp.measures[i], bp.fact), bp.fact)
                                /\ own.measures[PlaceOf(kept, i)] = became(i)
                                /\ became(i) \in Range(own.measures)
             /\ \A m \in Range(own.measures) : \E i \in kept : m = became(i)
<1> DEFINE readings == Readings(bp)
           kept == KeptOf(readings, bp.fact)
           became(x) == Became(x, bp.fact, LineGrain(bp))
<1>1. own.measures = CompileMeasures(readings, bp.fact, LineGrain(bp))
  BY ExpandedParts
<1>2. readings \in Seq(Range(readings))
  BY ReadingsAre
<1>3. /\ DOMAIN readings = DOMAIN bp.measures
      /\ \A i \in DOMAIN bp.measures : readings[i] = Reading(bp.measures[i], bp.fact)
  BY DEF Readings
<1> HIDE DEF readings
<1>4. kept \subseteq DOMAIN readings /\ \A i \in kept : Kept(readings[i], bp.fact)
  BY DEF KeptOf
<1>5. /\ \A i \in kept : /\ PlaceOf(kept, i) \in DOMAIN own.measures
                         /\ own.measures[PlaceOf(kept, i)] = became(readings[i])
      /\ \A m \in Range(own.measures) : \E i \in kept : m = became(readings[i])
  BY <1>1, <1>2, MeasuresArePlaced
<1> HIDE DEF kept, became
<1>6. \A i \in kept : became(readings[i]) \in Range(own.measures)
  BY <1>5 DEF Range
<1>7. \A i \in kept : readings[i] = Reading(bp.measures[i], bp.fact)
  BY <1>3, <1>4
<1>8. QED
  BY <1>3, <1>4, <1>5, <1>6, <1>7 DEF kept, became, readings

\* So a KPI that is no formula takes the measure it was given, or the total of sales when
\* that measure was left to it.
LEMMA KpiHasItsMeasure ==
  ASSUME NEW bp, IsBlueprint(bp), NEW scope, NEW own \in Expanded(bp, scope),
         NEW k \in Range(own.kpis), k.kind = "aggregate"
  PROVE  TakesItsMeasure(k, own, bp)
<1> DEFINE readings == Readings(bp)
           kept == KeptOf(readings, bp.fact)
<1>1. PICK given \in Range(bp.kpis) : k \in CompileKpi(readings, kept, own.measures, given)
  <2>1. own.kpis = CompileKpis(bp.kpis, readings, kept, own.measures)
    BY ExpandedParts
  <2>2. own.measures \in Seq(Range(own.measures)) /\ bp.kpis \in Seq(Range(bp.kpis))
    BY ExpandedIs DEF IsBlueprint
  <2>3. QED
    BY <2>1, <2>2, CompiledKpisAre
<1>2. PICK m \in MeasureOf(readings, kept, own.measures, given.measure) :
          k \in KpiOf(given, m, own.measures)
  BY <1>1 DEF CompileKpi
<1>3. k.code = given.code /\ k.words = given.words /\ k.args[1] = m.name
  BY <1>2 DEF KpiOf, Kpi
<1> DEFINE i == given.measure
           x == Reading(bp.measures[i], bp.fact)
<1>4. i \in DOMAIN bp.measures
  BY <1>2 DEF MeasureOf, Readings
<1>5. readings[i] = x
  BY <1>4 DEF Readings
<1> HIDE DEF x
<1>6. CASE i \in kept
  <2>1. /\ m = Became(x, bp.fact, LineGrain(bp)) /\ m \in Range(own.measures)
        /\ Kept(x, bp.fact)
    <3>1. m = own.measures[PlaceOf(kept, i)]
      BY <1>2, <1>6 DEF MeasureOf, PlaceOf
    <3> HIDE DEF kept, readings
    <3>2. QED
      BY <1>6, <3>1, DocumentMeasuresAre DEF kept, readings, x
  <2>2. ~ Deferred(x)
    BY <2>1, KeptIsNotDeferred
  <2>3. m.name = CalledOf(x, LineGrain(bp)).name /\ m.role = x.role
    BY <2>1 DEF Became, CompileMeasure
  <2>4. m \in StandsFor(own, bp, bp.measures[i])
    BY <2>1, <2>2, <2>3 DEF StandsFor, x
  <2>5. QED
    BY <1>3, <1>4, <2>4 DEF TakesItsMeasure
<1>7. CASE i \notin kept
  <2>1. m \in Sales(own.measures) /\ Deferred(x)
    BY <1>2, <1>5, <1>7 DEF MeasureOf
  <2>2. m \in StandsFor(own, bp, bp.measures[i])
    BY <2>1 DEF StandsFor, x
  <2>3. QED
    BY <1>3, <1>4, <2>2 DEF TakesItsMeasure
<1>8. QED
  BY <1>6, <1>7

-----------------------------------------------------------------------------
(* Revisions of a blueprint *)

\* Some positions of a sequence have a last one, and a first one.
LEMMA EndsAre ==
  ASSUME NEW s, s \in Seq(Range(s)), NEW P \in SUBSET DOMAIN s, P # {}
  PROVE  Max(P) \in P /\ Min(P) \in P
<1> DEFINE v == [x \in P |-> x]
<1>1. P \in SUBSET (1 .. Len(s)) /\ Len(s) \in Nat
  OBVIOUS
<1>2. IsFiniteSet(P)
  BY <1>1, FS_Interval, FS_Subset
<1>3. v \in [P -> Int] /\ {v[y] : y \in P} = P /\ \A x \in P : v[x] = x
  BY <1>1
<1> HIDE DEF v
<1>4. \E x \in P : v[x] = Max({v[y] : y \in P})
  BY <1>2, <1>3, GreatestExists
<1>5. P \in SUBSET Nat
  BY <1>1
<1>6. Min(P) \in P
  BY <1>5, LeastExists
<1>7. QED
  BY <1>3, <1>4, <1>6

\* A name is found where it is.
LEMMA MeasureAtNameIs ==
  ASSUME NEW bp, IsBlueprint(bp), NEW name \in Names(bp.measures)
  PROVE  /\ MeasureAtName(bp, name) \in DOMAIN bp.measures
         /\ bp.measures[MeasureAtName(bp, name)].name = name
<1> DEFINE P == {i \in 1 .. Len(bp.measures) : bp.measures[i].name = name}
<1>1. P \in SUBSET DOMAIN bp.measures /\ P # {}
  BY DEF IsBlueprint, Names
<1>2. MeasureAtName(bp, name) = Max(P)
  BY <1>1 DEF MeasureAtName, SelectLastInSeq
<1>3. Max(P) \in P
  <2> HIDE DEF P
  <2>1. QED
    BY <1>1, EndsAre DEF IsBlueprint
<1>4. QED
  BY <1>1, <1>2, <1>3

LEMMA KpiAtCodeIs ==
  ASSUME NEW bp, IsBlueprint(bp), NEW code \in {k.code : k \in Range(bp.kpis)}
  PROVE  /\ KpiAtCode(bp, code) \in DOMAIN bp.kpis
         /\ bp.kpis[KpiAtCode(bp, code)].code = code
<1> DEFINE P == {i \in 1 .. Len(bp.kpis) : bp.kpis[i].code = code}
<1>1. P \in SUBSET DOMAIN bp.kpis /\ P # {}
  <2>1. DOMAIN bp.kpis = 1 .. Len(bp.kpis)
    BY DEF IsBlueprint
  <2>2. PICK k \in Range(bp.kpis) : k.code = code
    OBVIOUS
  <2>3. \E i \in DOMAIN bp.kpis : bp.kpis[i] = k
    BY DEF Range
  <2>4. QED
    BY <2>1, <2>2, <2>3
<1>2. KpiAtCode(bp, code) = Max(P)
  BY <1>1 DEF KpiAtCode, SelectLastInSeq
<1>3. Max(P) \in P
  <2> HIDE DEF P
  <2>1. QED
    BY <1>1, EndsAre DEF IsBlueprint
<1>4. QED
  BY <1>1, <1>2, <1>3

LEMMA DimensionAtNameIs ==
  ASSUME NEW bp, IsBlueprint(bp), NEW name \in Names(bp.dimensions)
  PROVE  /\ DimensionAtName(bp, name) \in DOMAIN bp.dimensions
         /\ bp.dimensions[DimensionAtName(bp, name)].name = name
<1> DEFINE P == {i \in 1 .. Len(bp.dimensions) : bp.dimensions[i].name = name}
<1>1. P \in SUBSET DOMAIN bp.dimensions /\ P # {}
  BY DEF IsBlueprint, Names
<1>2. DimensionAtName(bp, name) = Max(P)
  BY <1>1 DEF DimensionAtName, SelectLastInSeq
<1>3. Max(P) \in P
  <2> HIDE DEF P
  <2>1. QED
    BY <1>1, EndsAre DEF IsBlueprint
<1>4. QED
  BY <1>1, <1>2, <1>3

\* What an adjustment keeps is in the source.
LEMMA KeptAreOfTheSource ==
  ASSUME NEW bp, IsBlueprint(bp), NEW a \in Adjustments, AdjustmentAllowed(bp, a)
  PROVE  /\ \A i \in DOMAIN a.dimensions : a.dimensions[i] \in Names(bp.dimensions)
         /\ \A i \in DOMAIN a.measures : a.measures[i] \in Names(bp.measures)
         /\ \A i \in DOMAIN a.kpis : a.kpis[i] \in {k.code : k \in Range(bp.kpis)}
<1>1. /\ Range(a.dimensions) \subseteq Names(bp.dimensions)
      /\ Range(a.measures) \subseteq Names(bp.measures)
      /\ Range(a.kpis) \subseteq {k.code : k \in Range(bp.kpis)}
  BY DEF AdjustmentAllowed
<1>2. \A s : \A i \in DOMAIN s : s[i] \in Range(s)
  BY DEF Range
<1>3. QED
  BY <1>1, <1>2

\* The parts of an adjusted blueprint.
Adjusts(own, bp, a) ==
    /\ DOMAIN own = DOMAIN bp /\ own.fact = bp.fact
    /\ own.dimensions = [i \in DOMAIN a.dimensions |->
          bp.dimensions[DimensionAtName(bp, a.dimensions[i])]]
    /\ own.measures = [i \in DOMAIN a.measures |->
          MeasureAdjusted(bp.measures[MeasureAtName(bp, a.measures[i])], a)]
    /\ own.kpis = [i \in DOMAIN a.kpis |-> KpiAdjusted(bp, a, a.kpis[i])]

LEMMA AdjustedIs ==
  ASSUME NEW bp, IsBlueprint(bp), NEW a
  PROVE  Adjusts(Adjust(bp, a), bp, a)
  BY DEF Adjust, Adjusts, IsBlueprint

LEMMA AdjustmentKeepsTheFact ==
  ASSUME NEW bp, IsBlueprint(bp), NEW a
  PROVE  Adjust(bp, a).fact = bp.fact
  BY AdjustedIs DEF Adjusts

\* An adjustment leaves a measure its name and gives it a calculation.
LEMMA MeasureAdjustedIs ==
  ASSUME NEW m, {"name", "words", "role", "column", "own", "analyst", "aggregation"} \subseteq DOMAIN m,
         NEW a
  PROVE  /\ DOMAIN MeasureAdjusted(m, a) = DOMAIN m
         /\ MeasureAdjusted(m, a).name = m.name
         /\ m.name \in DOMAIN a.calculations =>
               /\ MeasureAdjusted(m, a).analyst = a.calculations[m.name]
               /\ a.calculations[m.name] # Direct =>
                     MeasureAdjusted(m, a).column = a.calculations[m.name].inputs[1]
  BY DEF MeasureAdjusted

\* An adjusted blueprint lists what the adjustment names.
LEMMA AdjustedIsABlueprint ==
  ASSUME NEW bp, IsBlueprint(bp), NEW a \in Adjustments, AdjustmentAllowed(bp, a)
  PROVE  IsBlueprint(Adjust(bp, a))
<1> DEFINE own == Adjust(bp, a)
<1>1. /\ DOMAIN a.dimensions = 1 .. Len(a.dimensions) /\ Len(a.dimensions) \in Nat
      /\ DOMAIN a.measures = 1 .. Len(a.measures) /\ Len(a.measures) \in Nat
      /\ DOMAIN a.kpis = 1 .. Len(a.kpis) /\ Len(a.kpis) \in Nat
  BY AnswersAssumption
<1>2. /\ DOMAIN own = DOMAIN bp
      /\ own.dimensions = [i \in DOMAIN a.dimensions |->
            bp.dimensions[DimensionAtName(bp, a.dimensions[i])]]
      /\ own.measures = [i \in DOMAIN a.measures |->
            MeasureAdjusted(bp.measures[MeasureAtName(bp, a.measures[i])], a)]
      /\ own.kpis = [i \in DOMAIN a.kpis |-> KpiAdjusted(bp, a, a.kpis[i])]
  <2>1. Adjusts(own, bp, a)
    BY AdjustedIs
  <2> HIDE DEF own
  <2>2. QED
    BY <2>1 DEF Adjusts
<1> HIDE DEF own
<1>3. /\ own.dimensions = [i \in 1 .. Len(a.dimensions) |-> own.dimensions[i]]
      /\ own.measures = [i \in 1 .. Len(a.measures) |-> own.measures[i]]
      /\ own.kpis = [i \in 1 .. Len(a.kpis) |-> own.kpis[i]]
  BY <1>1, <1>2
<1>4. /\ own.dimensions \in Seq(Range(own.dimensions))
      /\ own.measures \in Seq(Range(own.measures)) /\ own.kpis \in Seq(Range(own.kpis))
  BY <1>1, <1>3, FunctionsAreSequences
<1>5. \A d \in Range(own.dimensions) : d \in Range(bp.dimensions)
  <2>1. \A i \in DOMAIN a.dimensions : DimensionAtName(bp, a.dimensions[i]) \in DOMAIN bp.dimensions
    BY KeptAreOfTheSource, DimensionAtNameIs
  <2>2. QED
    BY <1>2, <2>1 DEF Range
<1>6. \A m \in Range(own.measures) :
          {"name", "words", "role", "column", "own", "analyst", "aggregation"} \subseteq DOMAIN m
  <2>1. \A i \in DOMAIN a.measures : MeasureAtName(bp, a.measures[i]) \in DOMAIN bp.measures
    BY KeptAreOfTheSource, MeasureAtNameIs
  <2>2. \A m \in Range(own.measures) : \E x \in Range(bp.measures) : m = MeasureAdjusted(x, a)
    BY <1>2, <2>1 DEF Range
  <2>3. \A x \in Range(bp.measures) : DOMAIN MeasureAdjusted(x, a) = DOMAIN x
    BY MeasureAdjustedIs DEF IsBlueprint
  <2>4. QED
    BY <2>2, <2>3 DEF IsBlueprint
<1>7. \A k \in Range(own.kpis) : {"code", "words", "role", "measure", "operation"} \subseteq DOMAIN k
  <2>1. \A i \in DOMAIN a.kpis : KpiAtCode(bp, a.kpis[i]) \in DOMAIN bp.kpis
    BY KeptAreOfTheSource, KpiAtCodeIs
  <2>2. \A i \in DOMAIN a.kpis : \E x \in Range(bp.kpis) : DOMAIN own.kpis[i] = DOMAIN x
    <3>1. \A code : DOMAIN KpiAdjusted(bp, a, code) = DOMAIN bp.kpis[KpiAtCode(bp, code)]
      BY DEF KpiAdjusted
    <3>2. \A i \in DOMAIN a.kpis : bp.kpis[KpiAtCode(bp, a.kpis[i])] \in Range(bp.kpis)
      BY <2>1 DEF Range
    <3>3. \A i \in DOMAIN a.kpis : own.kpis[i] = KpiAdjusted(bp, a, a.kpis[i])
      BY <1>2
    <3>4. QED
      BY <3>1, <3>2, <3>3
  <2>3. DOMAIN own.kpis = DOMAIN a.kpis
    BY <1>2
  <2>4. QED
    BY <2>2, <2>3 DEF IsBlueprint, Range
<1>8. QED
  BY <1>2, <1>4, <1>5, <1>6, <1>7 DEF IsBlueprint, own

\* One dimension of a name is locked on a table, and the rest stays.
Locks(own, bp, name, t) ==
    /\ DOMAIN own = DOMAIN bp /\ own.fact = bp.fact
    /\ own.measures = bp.measures /\ own.kpis = bp.kpis
    /\ own.dimensions = [i \in DOMAIN bp.dimensions |-> own.dimensions[i]]
    /\ \E i \in DOMAIN bp.dimensions :
          /\ bp.dimensions[i].name = name
          /\ own.dimensions[i] = [bp.dimensions[i] EXCEPT !.source = t, !.locked = TRUE]
          /\ \A j \in DOMAIN bp.dimensions : j # i => own.dimensions[j] = bp.dimensions[j]

\* A relation locks one dimension of the name and changes nothing else.
LEMMA LockedIs ==
  ASSUME NEW bp, IsBlueprint(bp), NEW d \in Names(bp.dimensions), NEW k
  PROVE  Locks(LockSource(bp, d, k), bp, d, k.to)
<1> DEFINE own == LockSource(bp, d, k)
           i == SelectInSeq(bp.dimensions, LAMBDA x : x.name = d)
           P == {j \in 1 .. Len(bp.dimensions) : bp.dimensions[j].name = d}
<1>1. P \in SUBSET DOMAIN bp.dimensions /\ P # {}
  BY DEF IsBlueprint, Names
<1>2. i = Min(P)
  BY <1>1 DEF SelectInSeq
<1>3. Min(P) \in P
  <2> HIDE DEF P
  <2>1. QED
    BY <1>1, EndsAre DEF IsBlueprint
<1>4. i \in DOMAIN bp.dimensions /\ bp.dimensions[i].name = d
  BY <1>1, <1>2, <1>3
<1>5. own = [bp EXCEPT !.dimensions =
                [bp.dimensions EXCEPT ![i] = [bp.dimensions[i] EXCEPT !.source = k.to, !.locked = TRUE]]]
  BY DEF LockSource
<1> HIDE DEF own, i, P
<1>6. /\ DOMAIN own = DOMAIN bp /\ own.fact = bp.fact
      /\ own.measures = bp.measures /\ own.kpis = bp.kpis
      /\ own.dimensions =
            [bp.dimensions EXCEPT ![i] = [bp.dimensions[i] EXCEPT !.source = k.to, !.locked = TRUE]]
  BY <1>5 DEF IsBlueprint
<1>7. QED
  BY <1>4, <1>6 DEF Locks, own

\* So it stays a blueprint.
LEMMA LockedIsABlueprint ==
  ASSUME NEW bp, IsBlueprint(bp), NEW d \in Names(bp.dimensions), NEW k
  PROVE  IsBlueprint(LockSource(bp, d, k))
<1> DEFINE own == LockSource(bp, d, k)
<1>0. Locks(own, bp, d, k.to)
  BY LockedIs
<1> HIDE DEF own
<1>1. /\ DOMAIN own = DOMAIN bp /\ own.measures = bp.measures /\ own.kpis = bp.kpis
      /\ own.dimensions = [j \in DOMAIN bp.dimensions |-> own.dimensions[j]]
  BY <1>0 DEF Locks
<1>2. own.dimensions \in Seq(Range(own.dimensions))
  <2>1. DOMAIN bp.dimensions = 1 .. Len(bp.dimensions) /\ Len(bp.dimensions) \in Nat
    BY DEF IsBlueprint
  <2>2. QED
    BY <1>1, <2>1, FunctionsAreSequences
<1>3. \A j \in DOMAIN bp.dimensions :
          /\ {"name", "source", "locked"} \subseteq DOMAIN own.dimensions[j]
          /\ own.dimensions[j].name \in DOMAIN DimensionTerms
  <2>1. \A j \in DOMAIN bp.dimensions :
            /\ {"name", "source", "locked"} \subseteq DOMAIN bp.dimensions[j]
            /\ bp.dimensions[j].name \in DOMAIN DimensionTerms
    BY DEF IsBlueprint, Range
  <2>2. PICK i \in DOMAIN bp.dimensions :
            /\ own.dimensions[i] = [bp.dimensions[i] EXCEPT !.source = k.to, !.locked = TRUE]
            /\ \A j \in DOMAIN bp.dimensions : j # i => own.dimensions[j] = bp.dimensions[j]
    BY <1>0 DEF Locks
  <2>3. /\ DOMAIN own.dimensions[i] = DOMAIN bp.dimensions[i]
        /\ own.dimensions[i].name = bp.dimensions[i].name
    BY <2>1, <2>2
  <2>4. QED
    BY <2>1, <2>2, <2>3
<1>4. \A d1 \in Range(own.dimensions) : /\ {"name", "source", "locked"} \subseteq DOMAIN d1
                                        /\ d1.name \in DOMAIN DimensionTerms
  BY <1>1, <1>3 DEF Range
<1>5. QED
  BY <1>1, <1>2, <1>4 DEF IsBlueprint, own

-----------------------------------------------------------------------------
(* What an adjustment asks for *)

\* The measure of a KPI is the one that was chosen for it, or the one it had.
Refers(own, bp, a, k) ==
    /\ k.measure \in DOMAIN own.measures
    /\ own.measures[k.measure].name =
          IF k.code \in DOMAIN a.measureOf THEN a.measureOf[k.code]
          ELSE bp.measures[bp.kpis[KpiAtCode(bp, k.code)].measure].name

\* A measure that stays keeps its name and gets its calculation.
LEMMA AdjustedMeasureIs ==
  ASSUME NEW bp, IsBlueprint(bp), NEW a \in Adjustments, AdjustmentAllowed(bp, a),
         NEW i \in DOMAIN Adjust(bp, a).measures
  PROVE  LET m == Adjust(bp, a).measures[i]
         IN  /\ i \in DOMAIN a.measures /\ m.name = a.measures[i]
             /\ m.name \in DOMAIN a.calculations =>
                   /\ m.analyst = a.calculations[m.name]
                   /\ a.calculations[m.name] # Direct =>
                         m.column = a.calculations[m.name].inputs[1]
<1> DEFINE own == Adjust(bp, a)
<1>1. Adjusts(own, bp, a)
  BY AdjustedIs
<1> HIDE DEF own
<1>2. PICK old : /\ i \in DOMAIN a.measures
                 /\ old = bp.measures[MeasureAtName(bp, a.measures[i])]
                 /\ own.measures[i] = MeasureAdjusted(old, a)
  BY <1>1 DEF Adjusts, own
<1>3. /\ MeasureAtName(bp, a.measures[i]) \in DOMAIN bp.measures
      /\ old.name = a.measures[i]
  BY <1>2, KeptAreOfTheSource, MeasureAtNameIs
<1>4. {"name", "words", "role", "column", "own", "analyst", "aggregation"} \subseteq DOMAIN old
  BY <1>2, <1>3 DEF IsBlueprint, Range
<1>5. /\ MeasureAdjusted(old, a).name = old.name
      /\ old.name \in DOMAIN a.calculations =>
            /\ MeasureAdjusted(old, a).analyst = a.calculations[old.name]
            /\ a.calculations[old.name] # Direct =>
                  MeasureAdjusted(old, a).column = a.calculations[old.name].inputs[1]
  BY <1>4, MeasureAdjustedIs
<1>6. QED
  BY <1>2, <1>3, <1>5 DEF own

\* A KPI that stays has its measure at the new place of that one.
LEMMA AdjustedKpisRefer ==
  ASSUME NEW bp, IsBlueprint(bp), NEW a \in Adjustments, AdjustmentAllowed(bp, a),
         NEW k \in Range(Adjust(bp, a).kpis)
  PROVE  Refers(Adjust(bp, a), bp, a, k)
<1> DEFINE own == Adjust(bp, a)
<1>1. Adjusts(own, bp, a)
  BY AdjustedIs
<1>2. PICK code \in Range(a.kpis) : k = KpiAdjusted(bp, a, code)
  <2>1. k \in Range(own.kpis)
    OBVIOUS
  <2> HIDE DEF own
  <2>2. QED
    BY <1>1, <2>1 DEF Adjusts, Range
<1>3. code \in {x.code : x \in Range(bp.kpis)}
  BY DEF AdjustmentAllowed
<1> DEFINE old == bp.kpis[KpiAtCode(bp, code)]
           m == bp.measures[SourceMeasure(bp, a, code)].name
           at == CHOOSE i \in DOMAIN a.measures : a.measures[i] = m
<1>4. KpiAtCode(bp, code) \in DOMAIN bp.kpis /\ old.code = code
  BY <1>3, KpiAtCodeIs
<1>5. {"code", "words", "role", "measure", "operation"} \subseteq DOMAIN old
  BY <1>4 DEF IsBlueprint, Range
<1>6. k.code = code /\ k.measure = at
  <2>1. k = [old EXCEPT !.measure = at]
    BY <1>2 DEF KpiAdjusted
  <2> HIDE DEF old, at
  <2>2. QED
    BY <1>4, <1>5, <2>1
<1>7. PICK name \in Range(a.measures) :
          SourceMeasure(bp, a, code) = MeasureAtName(bp, name)
  BY DEF AdjustmentAllowed
<1>8. \A n \in Range(a.measures) : n \in Names(bp.measures)
  BY DEF AdjustmentAllowed
<1>9. m = name
  BY <1>7, <1>8, MeasureAtNameIs
<1> HIDE DEF m
<1>10. at \in DOMAIN a.measures /\ a.measures[at] = m
  BY <1>9 DEF Range
<1> HIDE DEF at
<1>11. at \in DOMAIN own.measures
  <2> HIDE DEF own
  <2>1. QED
    BY <1>1, <1>10 DEF Adjusts
<1>12. own.measures[at].name = m
  BY <1>10, <1>11, AdjustedMeasureIs
<1>13. m = IF code \in DOMAIN a.measureOf THEN a.measureOf[code] ELSE bp.measures[old.measure].name
  <2>1. CASE code \in DOMAIN a.measureOf
    <3>1. a.measureOf[code] \in Range(a.measures)
      BY <2>1 DEF AdjustmentAllowed
    <3>2. bp.measures[MeasureAtName(bp, a.measureOf[code])].name = a.measureOf[code]
      BY <1>8, <3>1, MeasureAtNameIs
    <3>3. QED
      BY <2>1, <3>2 DEF SourceMeasure, m
  <2>2. CASE code \notin DOMAIN a.measureOf
    BY <2>2 DEF SourceMeasure, m
  <2>3. QED
    BY <2>1, <2>2
<1>14. QED
  BY <1>6, <1>11, <1>12, <1>13 DEF Refers

\* A measure goes on with the calculation that a person set, unless that one takes a rate.
LEMMA CorrectedFollows ==
  ASSUME NEW m, NEW role, NEW fact, NEW calc, m.analyst = calc,
         calc.operation # "direct", calc = [operation |-> calc.operation, inputs |-> calc.inputs],
         calc.inputs \in Seq(Range(calc.inputs)), calc.inputs # <<>>, m.column = calc.inputs[1]
  PROVE  \/ Corrected(m, role, fact) = calc
         \/ ~ CompleteDiscount(calc) /\ \E c \in Range(calc.inputs) : Rate(c)
<1>1. calc # Direct /\ CalculationOf(m) = calc
  BY DEF CalculationOf, Direct
<1> DEFINE rates == {i \in DOMAIN calc.inputs : Rate(calc.inputs[i])}
           rate == IF rates = {} THEN m.column ELSE calc.inputs[Min(rates)]
<1>2. rate \in Range(calc.inputs)
  <2>1. rates \in SUBSET DOMAIN calc.inputs
    OBVIOUS
  <2> HIDE DEF rates
  <2>2. CASE rates = {}
    <3>1. 1 \in DOMAIN calc.inputs
      OBVIOUS
    <3>2. QED
      BY <2>2, <3>1 DEF Range
  <2>3. CASE rates # {}
    <3>1. Min(rates) \in rates
      BY <2>1, <2>3, EndsAre
    <3>2. QED
      BY <2>1, <2>3, <3>1 DEF Range
  <2>4. QED
    BY <2>2, <2>3
<1>3. \/ Corrected(m, role, fact) = calc
      \/ Rate(rate) /\ ~ CompleteDiscount(calc)
  <2>1. Corrected(m, role, fact) =
            LET fixed == DiscountAmount(m.words, rate, fact)
            IN  IF /\ role \in {"sales_amount", "discount_amount"}
                   /\ Rate(rate) /\ ~ CompleteDiscount(calc) THEN fixed
                ELSE calc
    BY <1>1 DEF Corrected
  <2> HIDE DEF rate
  <2>2. QED
    BY <2>1
<1> HIDE DEF rate
<1>4. QED
  BY <1>2, <1>3

\* So it is compiled with that calculation.
LEMMA AdjustedMeasuresFollow ==
  ASSUME NEW bp, IsBlueprint(bp), NEW a \in Adjustments, AdjustmentAllowed(bp, a),
         NEW scope, NEW own \in Expanded(Adjust(bp, a), scope), NEW m \in Range(own.measures),
         m.name \in DOMAIN a.calculations, m.name # LineAverage.name
  PROVE  Followed(m, a.calculations[m.name])
<1>1. PICK new : new = Adjust(bp, a) /\ IsBlueprint(new)
  BY AdjustedIsABlueprint
<1> DEFINE kept == KeptOf(Readings(new), new.fact)
           x(i) == Reading(new.measures[i], new.fact)
<1>2. PICK i \in kept : m = Became(x(i), new.fact, LineGrain(new)) /\ i \in DOMAIN new.measures
  <2>1. /\ kept \subseteq DOMAIN new.measures
        /\ \E i \in kept : m = Became(x(i), new.fact, LineGrain(new))
    BY <1>1, DocumentMeasuresAre
  <2>2. QED
    BY <2>1
<1> DEFINE given == new.measures[i]
           calc == a.calculations[m.name]
<1>3. m.name = given.name
  <2>1. m.name = CalledOf(x(i), LineGrain(new)).name
    BY <1>2 DEF Became, CompileMeasure
  <2>2. CalledOf(x(i), LineGrain(new)) = LineAverage
          \/ CalledOf(x(i), LineGrain(new)).name = x(i).name
    BY DEF CalledOf
  <2>3. x(i).name = given.name
    BY DEF Reading
  <2>4. QED
    BY <2>1, <2>2, <2>3
<1>4. /\ calc.operation # "direct"
      /\ calc = [operation |-> calc.operation, inputs |-> calc.inputs]
      /\ calc.inputs \in Seq(Range(calc.inputs)) /\ calc.inputs # <<>>
  BY AnswersAssumption
<1>5. calc # Direct
  BY <1>4 DEF Direct
<1>6. given.analyst = calc /\ given.column = calc.inputs[1]
  <2>1. \A j \in DOMAIN new.measures : new.measures[j].name \in DOMAIN a.calculations =>
           /\ new.measures[j].analyst = a.calculations[new.measures[j].name]
           /\ a.calculations[new.measures[j].name] # Direct =>
                 new.measures[j].column = a.calculations[new.measures[j].name].inputs[1]
    BY <1>1, AdjustedMeasureIs
  <2>2. QED
    BY <1>2, <1>3, <1>5, <2>1
<1>7. x(i).calc = Corrected(given, MeasureRole(given), new.fact)
  BY DEF Reading
<1>8. \/ x(i).calc = calc
      \/ ~ CompleteDiscount(calc) /\ \E c \in Range(calc.inputs) : Rate(c)
  <2> HIDE DEF calc, given
  <2>1. QED
    BY <1>4, <1>6, <1>7, CorrectedFollows
<1>9. CASE x(i).calc = calc
  <2>1. m.operation = calc.operation /\ m.inputs = calc.inputs
    BY <1>2, <1>5, <1>9 DEF Became, CompileMeasure
  <2>2. QED
    BY <1>4, <2>1 DEF Followed
<1>10. QED
  BY <1>8, <1>9 DEF Followed

-----------------------------------------------------------------------------
(* The table of a dimension *)

\* Wherever a blueprint gives a dimension this name, it is d.
OnlyOne(bp, n, d) ==
    /\ n \in Names(bp.dimensions)
    /\ \A i \in DOMAIN bp.dimensions : bp.dimensions[i].name = n => bp.dimensions[i] = d

\* Then the compiler reads d, however well it suits the name.
LEMMA DimensionOfIs ==
  ASSUME NEW bp, IsBlueprint(bp), NEW n, NEW d, OnlyOne(bp, n, d)
  PROVE  DimensionOf(bp, n) = d
<1> DEFINE suits(x) == 10 * Cardinality(Table[x.source].words \cap DimensionTerms[n])
                        - (IF x.source = bp.fact THEN 5 ELSE 0)
           named == {i \in DOMAIN bp.dimensions : bp.dimensions[i].name = n}
           best  == {i \in named : \A j \in named : suits(bp.dimensions[i]) >= suits(bp.dimensions[j])}
<1>1. DimensionOf(bp, n) = bp.dimensions[Min(best)]
  BY DEF DimensionOf
<1>2. named \in SUBSET DOMAIN bp.dimensions /\ named # {} /\ \A i \in named : bp.dimensions[i] = d
  BY DEF OnlyOne, Names
<1>3. suits(d) \in Int
  <2> DEFINE common == Table[d.source].words \cap DimensionTerms[n]
  <2>1. n \in {"dim_producto", "dim_cliente", "dim_territorio", "dim_fecha"}
    <3>1. \E x \in Range(bp.dimensions) : x.name = n
      BY <1>2 DEF Range
    <3>2. n \in DOMAIN DimensionTerms
      BY <3>1 DEF IsBlueprint
    <3>3. QED
      BY <3>2 DEF DimensionTerms
  <2>2. DimensionTerms[n] \in {{"product"}, {"customer", "person", "store", "party"},
                              {"territory"}, {"date"}}
    BY <2>1 DEF DimensionTerms
  <2>3. IsFiniteSet({"product"}) /\ IsFiniteSet({"territory"}) /\ IsFiniteSet({"date"})
    BY FS_Singleton
  <2>4. IsFiniteSet({"customer", "person", "store", "party"})
    <3>1. IsFiniteSet({"customer"})
      BY FS_Singleton
    <3>2. IsFiniteSet({"customer"} \cup {"person"})
      BY <3>1, FS_AddElement
    <3>3. IsFiniteSet(({"customer"} \cup {"person"}) \cup {"store"})
      BY <3>2, FS_AddElement
    <3>4. IsFiniteSet((({"customer"} \cup {"person"}) \cup {"store"}) \cup {"party"})
      BY <3>3, FS_AddElement
    <3>5. (({"customer"} \cup {"person"}) \cup {"store"}) \cup {"party"}
            = {"customer", "person", "store", "party"}
      OBVIOUS
    <3>6. QED
      BY <3>4, <3>5
  <2>5. IsFiniteSet(DimensionTerms[n])
    BY <2>2, <2>3, <2>4
  <2>6. common \subseteq DimensionTerms[n]
    OBVIOUS
  <2>7. IsFiniteSet(common)
    BY <2>5, <2>6, FS_Subset
  <2> HIDE DEF common
  <2>8. Cardinality(common) \in Nat
    BY <2>7, FS_CardinalityType
  <2>9. QED
    BY <2>8 DEF common
<1> HIDE DEF suits, named
<1>4. best = named
  <2>1. suits(d) >= suits(d)
    BY <1>3
  <2>2. QED
    BY <1>2, <2>1
<1>5. Min(best) \in named
  <2> HIDE DEF best
  <2>1. QED
    BY <1>2, <1>4, EndsAre DEF IsBlueprint
<1>6. QED
  BY <1>1, <1>2, <1>5

\* A dimension that the blueprint lists reads the source of what it lists.
LEMMA DocumentDimensionIs ==
  ASSUME NEW bp, IsBlueprint(bp), NEW scope, NEW own \in Expanded(bp, scope),
         NEW d \in own.dimensions, d.name \in Names(bp.dimensions),
         NEW e, OnlyOne(bp, d.name, e)
  PROVE  d.source = SourceOf(e, scope, bp.fact)
<1>1. \A n, t : CompileDimension(n, t, scope).name = n /\ CompileDimension(n, t, scope).source = t
  BY DEF CompileDimension
<1>2. d.name \in {x.name : x \in Range(bp.dimensions)}
  BY DEF Names, Range
<1>3. d = CompileDimension(d.name, SourceOf(DimensionOf(bp, d.name), scope, bp.fact), scope)
  <2>1. d \in CompileDimensions(bp, scope)
    BY ExpandedParts
  <2>2. QED
    BY <1>1, <1>2, <2>1 DEF CompileDimensions
<1>4. DimensionOf(bp, d.name) = e
  BY DimensionOfIs
<1>5. QED
  BY <1>1, <1>3, <1>4

\* What an adjustment keeps of dimensions that are named once.
LEMMA AdjustedKeepsADimension ==
  ASSUME NEW bp, IsBlueprint(bp), NamedOnce(bp.dimensions),
         NEW a \in Adjustments, AdjustmentAllowed(bp, a),
         NEW n \in Names(Adjust(bp, a).dimensions)
  PROVE  \E e : OnlyOne(bp, n, e) /\ OnlyOne(Adjust(bp, a), n, e)
<1> DEFINE own == Adjust(bp, a)
           at(name) == DimensionAtName(bp, name)
           e == bp.dimensions[at(n)]
<1>1. own.dimensions = [j \in DOMAIN a.dimensions |-> bp.dimensions[at(a.dimensions[j])]]
  <2>1. Adjusts(own, bp, a)
    BY AdjustedIs
  <2> HIDE DEF own
  <2>2. QED
    BY <2>1 DEF Adjusts
<1>2. \A j \in DOMAIN a.dimensions : /\ at(a.dimensions[j]) \in DOMAIN bp.dimensions
                                    /\ bp.dimensions[at(a.dimensions[j])].name = a.dimensions[j]
  BY KeptAreOfTheSource, DimensionAtNameIs
<1> HIDE DEF at, own
<1>3. \A j \in DOMAIN own.dimensions : own.dimensions[j].name = n => a.dimensions[j] = n
  BY <1>1, <1>2
<1>4. \E j \in DOMAIN own.dimensions : own.dimensions[j].name = n
  BY DEF Names, own
<1>5. at(n) \in DOMAIN bp.dimensions /\ e.name = n
  BY <1>1, <1>2, <1>3, <1>4
<1>6. \A j \in DOMAIN own.dimensions : own.dimensions[j].name = n => own.dimensions[j] = e
  BY <1>1, <1>3
<1>7. \A i \in DOMAIN bp.dimensions : bp.dimensions[i].name = n => bp.dimensions[i] = e
  BY <1>5 DEF NamedOnce
<1>8. OnlyOne(bp, n, e)
  BY <1>5, <1>7 DEF OnlyOne, Names
<1>9. OnlyOne(own, n, e)
  BY <1>6 DEF OnlyOne, own
<1>10. QED
  BY <1>8, <1>9 DEF own

\* What a relation leaves of them, and what it locks.
LeavesOne(own, bp, name, t, n) ==
    \E e : /\ OnlyOne(own, n, e)
          /\ IF n = name THEN e.locked /\ e.source = t ELSE OnlyOne(bp, n, e)

LEMMA LockedKeepsADimension ==
  ASSUME NEW bp, IsBlueprint(bp), NamedOnce(bp.dimensions),
         NEW name \in Names(bp.dimensions), NEW k,
         NEW n \in Names(LockSource(bp, name, k).dimensions)
  PROVE  LeavesOne(LockSource(bp, name, k), bp, name, k.to, n)
<1> DEFINE own == LockSource(bp, name, k)
<1>1. Locks(own, bp, name, k.to)
  BY LockedIs
<1>2. n \in Names(own.dimensions)
  OBVIOUS
<1> HIDE DEF own
<1>3. PICK i \in DOMAIN bp.dimensions :
          /\ bp.dimensions[i].name = name
          /\ own.dimensions[i] = [bp.dimensions[i] EXCEPT !.source = k.to, !.locked = TRUE]
          /\ \A j \in DOMAIN bp.dimensions : j # i => own.dimensions[j] = bp.dimensions[j]
  BY <1>1 DEF Locks
<1>4. /\ own.dimensions[i].name = name /\ own.dimensions[i].locked
      /\ own.dimensions[i].source = k.to
  <2>1. {"name", "source", "locked"} \subseteq DOMAIN bp.dimensions[i]
    BY DEF IsBlueprint, Range
  <2>2. QED
    BY <1>3, <2>1
<1>5. PICK j \in DOMAIN bp.dimensions : own.dimensions[j].name = n
  BY <1>1, <1>2 DEF Locks, Names
<1>6. \A l \in DOMAIN bp.dimensions : own.dimensions[l].name = bp.dimensions[l].name
  BY <1>3, <1>4
<1>7. \A l \in DOMAIN bp.dimensions : own.dimensions[l].name = n => l = j
  BY <1>5, <1>6 DEF NamedOnce
<1>8. OnlyOne(own, n, own.dimensions[j])
  BY <1>1, <1>2, <1>7 DEF Locks, OnlyOne
<1>9. CASE n = name
  <2>1. j = i
    BY <1>4, <1>7, <1>9
  <2>2. QED
    BY <1>4, <1>8, <1>9, <2>1 DEF own, LeavesOne
<1>10. CASE n # name
  <2>1. own.dimensions[j] = bp.dimensions[j]
    BY <1>3, <1>4, <1>5, <1>10
  <2>2. OnlyOne(bp, n, own.dimensions[j])
    <3>1. n \in Names(bp.dimensions)
      BY <1>5, <1>6 DEF Names
    <3>2. \A l \in DOMAIN bp.dimensions : bp.dimensions[l].name = n => bp.dimensions[l] = own.dimensions[j]
      BY <1>6, <1>7, <2>1
    <3>3. QED
      BY <3>1, <3>2 DEF OnlyOne
  <2>3. QED
    BY <1>8, <1>10, <2>2 DEF own, LeavesOne
<1>11. QED
  BY <1>9, <1>10

-----------------------------------------------------------------------------
(* The invariant *)

VersionFields == {"status", "snapshot", "need", "source", "requirements", "accepted",
                  "blueprint", "document", "issues", "warned", "change"}
CallFields == {"step", "snapshot", "need", "source", "requirements", "accepted",
               "concepts", "scope"}

\* A review with the gaps that were accepted, and an earlier version of its snapshot.
Rests(v) ==
    /\ \E r \in reviews : RestsOn(v, r)
    /\ v.source # 0 => /\ v.source \in DOMAIN versions
                       /\ versions[v.source].snapshot = v.snapshot

\* A long call rests on what it read when it began.
CallRests ==
    call.step \in {"scoping", "discovering", "composing"} =>
        CallFields \subseteq DOMAIN call /\ Rests(call)

VersionsRest ==
    \A i \in DOMAIN versions :
        /\ VersionFields \subseteq DOMAIN versions[i]
        /\ Rests(versions[i])
        /\ versions[i].source # 0 => versions[i].source < i

GInv ==
    /\ versions \in Seq(Range(versions))
    /\ CallRests
    /\ VersionsRest

LEMMA InitEstablishesGInv == Init => GInv
<1> SUFFICES ASSUME Init PROVE GInv
  OBVIOUS
<1>1. versions = <<>> /\ call.step = "idle"
  BY DEF Init, Idle
<1>2. QED
  BY <1>1 DEF GInv, CallRests, VersionsRest

-----------------------------------------------------------------------------
(* Versions are appended *)

\* Appending to a sequence leaves its elements where they are.
LEMMA Appended ==
  ASSUME NEW s, s \in Seq(Range(s)), NEW e
  PROVE  LET t == Append(s, e)
         IN  /\ t \in Seq(Range(t))
             /\ DOMAIN s = 1 .. Len(s) /\ Len(s) \in Nat
             /\ DOMAIN t = 1 .. (Len(s) + 1)
             /\ \A i \in DOMAIN s : t[i] = s[i]
             /\ t[Len(s) + 1] = e
<1> DEFINE S == Range(s) \cup {e}
           t == Append(s, e)
<1>1. s \in Seq(S) /\ e \in S
  OBVIOUS
<1> HIDE DEF S
<1>2. /\ t \in Seq(S)
      /\ DOMAIN s = 1 .. Len(s) /\ Len(s) \in Nat
      /\ Len(t) = Len(s) + 1 /\ DOMAIN t = 1 .. (Len(s) + 1)
      /\ \A i \in DOMAIN s : t[i] = s[i]
      /\ t[Len(s) + 1] = e
  BY <1>1
<1>3. t \in Seq(Range(t))
  <2> HIDE DEF t
  <2>1. Len(t) \in Nat /\ t \in [1 .. Len(t) -> Range(t)]
    BY <1>2 DEF Range
  <2>2. QED
    BY <2>1
<1>4. QED
  BY <1>2, <1>3

\* What a version rests on stays when one is appended and reviews are added.
LEMMA RestingStays ==
  ASSUME GInv, NEW v, Rests(v), reviews \subseteq reviews',
         \A i \in DOMAIN versions : i \in DOMAIN versions' /\ versions'[i] = versions[i]
  PROVE  Rests(v)'
  BY DEF Rests, RestsOn

\* A version that rests on a review is added to those that do.
LEMMA AppendKeepsVersions ==
  ASSUME GInv, NEW v, versions' = Append(versions, v), UNCHANGED reviews,
         VersionFields \subseteq DOMAIN v, Rests(v)
  PROVE  versions' \in Seq(Range(versions')) /\ VersionsRest'
<1>1. /\ versions' \in Seq(Range(versions'))
      /\ DOMAIN versions = 1 .. Len(versions) /\ Len(versions) \in Nat
      /\ DOMAIN versions' = 1 .. (Len(versions) + 1)
      /\ \A i \in DOMAIN versions : versions'[i] = versions[i]
      /\ versions'[Len(versions) + 1] = v
  BY Appended DEF GInv
<1>2. \A i \in DOMAIN versions' : Rests(versions[i])'
  <2> SUFFICES ASSUME NEW i \in DOMAIN versions' PROVE Rests(versions[i])'
    OBVIOUS
  <2>1. PICK w : w = versions'[i] /\ Rests(w)
    BY <1>1 DEF GInv, VersionsRest
  <2>2. \A j \in DOMAIN versions : j \in DOMAIN versions' /\ versions'[j] = versions[j]
    BY <1>1
  <2>3. Rests(w)'
    BY <2>1, <2>2, RestingStays
  <2>4. QED
    BY <2>1, <2>3 DEF Rests, RestsOn
<1>3. QED
  BY <1>1, <1>2 DEF GInv, VersionsRest, Rests

\* A call that ends, or begins a review, rests on nothing.
LEMMA CallDoesNotRest ==
  ASSUME GInv, call'.step \notin {"scoping", "discovering", "composing"},
         reviews \subseteq reviews', UNCHANGED versions
  PROVE  GInv'
<1>1. VersionsRest'
  BY DEF GInv, VersionsRest, Rests, RestsOn
<1>2. QED
  BY <1>1 DEF GInv, CallRests

-----------------------------------------------------------------------------
(* Reviews *)

LEMMA ReviewKeepsGInv ==
  ASSUME GInv,
         \/ CaptureSnapshot
         \/ \E n \in DOMAIN Needs : BeginReview(n)
         \/ \E requirements : FinishReview(requirements)
         \/ RequestDies
  PROVE  GInv'
<1>1. CASE CaptureSnapshot
  BY <1>1 DEF GInv, CallRests, VersionsRest, Rests, RestsOn, CaptureSnapshot
<1>2. ASSUME NEW n \in DOMAIN Needs, BeginReview(n) PROVE GInv'
  BY <1>2, CallDoesNotRest DEF BeginReview
<1>3. ASSUME NEW requirements, FinishReview(requirements) PROVE GInv'
  BY <1>3, CallDoesNotRest DEF FinishReview, Idle
<1>4. CASE RequestDies
  BY <1>4, CallDoesNotRest DEF RequestDies, Idle
<1>5. QED
  BY <1>1, <1>2, <1>3, <1>4

-----------------------------------------------------------------------------
(* Generation *)

LEMMA BeginKeepsGInv ==
  ASSUME GInv, NEW r \in reviews, NEW accepted \in SUBSET Pending(r.requirements),
         NEW excluded \in Exclusions, NEW source \in 0 .. Len(versions),
         BeginProposal(r, accepted, excluded, source)
  PROVE  GInv'
<1>1. /\ CallFields \subseteq DOMAIN call'
      /\ call'.need = r.need /\ call'.snapshot = r.snapshot
      /\ call'.requirements = r.requirements
      /\ call'.accepted = accepted /\ call'.source = source
      /\ UNCHANGED <<reviews, versions>>
      /\ r.snapshot = latest
      /\ source # 0 => versions[source].snapshot = latest
      /\ Pending(r.requirements) \subseteq accepted
  BY DEF BeginProposal, CallFields, Acknowledged
<1>2. source # 0 => source \in DOMAIN versions
  BY Appended DEF GInv
<1>3. \A q \in r.requirements : q.status \in Viable \/ q.id \in accepted
  BY <1>1 DEF Pending
<1>4. CallRests'
  BY <1>1, <1>2, <1>3 DEF CallRests, Rests, RestsOn
<1>5. VersionsRest'
  BY <1>1 DEF GInv, VersionsRest, Rests, RestsOn
<1>6. QED
  BY <1>1, <1>4, <1>5 DEF GInv

\* The version that a call leaves rests on what the call rests on.
LEMMA InsertKeepsVersions ==
  ASSUME GInv, NEW c, Rests(c), NEW status, NEW judged, NEW bp,
         Insert(c, status, judged, bp), UNCHANGED reviews
  PROVE  versions' \in Seq(Range(versions')) /\ VersionsRest'
<1> DEFINE v == [status |-> status, snapshot |-> c.snapshot, need |-> c.need,
                 source |-> c.source, requirements |-> c.requirements,
                 accepted |-> c.accepted, concepts |-> c.concepts, scope |-> c.scope,
                 blueprint |-> bp, document |-> judged.document, issues |-> judged.issues,
                 warned |-> judged.warned, change |-> NoChange]
<1>1. versions' = Append(versions, v)
  BY DEF Insert
<1>2. VersionFields \subseteq DOMAIN v
  BY DEF VersionFields
<1>3. Rests(v)
  BY DEF Rests, RestsOn
<1> HIDE DEF v
<1>4. QED
  BY <1>1, <1>2, <1>3, AppendKeepsVersions

LEMMA ConceptsKeepGInv ==
  ASSUME GInv, call.step \in {"scoping", "discovering"}, UNCHANGED reviews,
         NEW concepts, WithConcepts(concepts)
  PROVE  GInv'
<1>1. PICK own, next :
          /\ next = [call EXCEPT !.concepts = own, !.scope = ScopeOf(call, own),
                                 !.step = "composing"]
          /\ IF Chosen(own) = {} \/ next.scope = {}
             THEN /\ Insert(next, "validation_failed",
                            [Nothing EXCEPT !.issues = {"semantic_empty"}], None)
                  /\ call' = Idle
             ELSE /\ call' = next
                  /\ UNCHANGED versions
  BY DEF WithConcepts
<1>2. CallFields \subseteq DOMAIN call /\ Rests(call)
  BY DEF GInv, CallRests
<1>3. /\ CallFields \subseteq DOMAIN next
      /\ \A f \in {"snapshot", "need", "source", "requirements", "accepted"} : next[f] = call[f]
  BY <1>1, <1>2 DEF CallFields
<1>4. Rests(next)
  BY <1>2, <1>3 DEF Rests, RestsOn
<1>5. CASE call' = Idle /\ versions' # versions
  BY <1>1, <1>4, <1>5, InsertKeepsVersions DEF GInv, CallRests, Idle
<1>6. CASE call' = Idle /\ versions' = versions
  BY <1>6, CallDoesNotRest DEF Idle
<1>7. CASE call' = next /\ versions' = versions
  BY <1>3, <1>4, <1>7 DEF GInv, CallRests, VersionsRest, Rests, RestsOn
<1>8. QED
  BY <1>1, <1>5, <1>6, <1>7

LEMMA AnswerKeepsGInv ==
  ASSUME GInv,
         \/ \E answer \in Semantics : AnswerSemantics(answer)
         \/ ReuseSemantics
         \/ \E answer \in Blueprints : AnswerBlueprint(answer)
         \/ ProviderFails
  PROVE  GInv'
<1>1. ASSUME NEW answer \in Semantics, AnswerSemantics(answer) PROVE GInv'
  <2>1. PICK concepts : WithConcepts(concepts)
    BY <1>1 DEF AnswerSemantics
  <2>2. QED
    BY <1>1, <2>1, ConceptsKeepGInv DEF AnswerSemantics
<1>2. CASE ReuseSemantics
  <2>1. PICK concepts : WithConcepts(concepts)
    BY <1>2 DEF ReuseSemantics
  <2>2. QED
    BY <1>2, <2>1, ConceptsKeepGInv DEF ReuseSemantics
<1>3. ASSUME NEW answer \in Blueprints, AnswerBlueprint(answer) PROVE GInv'
  <2>1. PICK bp, judged : Insert(call, StatusOf(judged), judged, bp)
    BY <1>3 DEF AnswerBlueprint
  <2>2. call.step = "composing" /\ call' = Idle /\ UNCHANGED reviews
    BY <1>3 DEF AnswerBlueprint
  <2>3. PICK c, status : c = call /\ Rests(c) /\ Insert(c, status, judged, bp)
    BY <2>1, <2>2 DEF GInv, CallRests
  <2>4. versions' \in Seq(Range(versions')) /\ VersionsRest'
    BY <2>2, <2>3, InsertKeepsVersions
  <2>5. QED
    BY <2>2, <2>4 DEF GInv, CallRests, Idle
<1>4. CASE ProviderFails
  <2>1. call' = Idle /\ UNCHANGED reviews
    BY <1>4 DEF ProviderFails
  <2>2. CASE UNCHANGED versions
    BY <2>1, <2>2, CallDoesNotRest DEF Idle
  <2>3. CASE versions' # versions
    <3>1. PICK c, judged : c = call /\ Rests(c) /\ Insert(c, "provider_failed", judged, None)
      BY <1>4, <2>3 DEF ProviderFails, GInv, CallRests
    <3>2. versions' \in Seq(Range(versions')) /\ VersionsRest'
      BY <2>1, <3>1, InsertKeepsVersions
    <3>3. QED
      BY <2>1, <3>2 DEF GInv, CallRests, Idle
  <2>4. QED
    BY <2>2, <2>3
<1>5. QED
  BY <1>1, <1>2, <1>3, <1>4

-----------------------------------------------------------------------------
(* Revisions *)

\* A revision rests on what its source rests on, and on its source.
LEMMA ReviseKeepsGInv ==
  ASSUME GInv, NEW i \in DOMAIN versions, Revisable(i), NEW bp, NEW change,
         Revise(i, bp, change)
  PROVE  GInv'
<1>1. PICK judged :
          versions' = Append(versions,
              [versions[i] EXCEPT !.status = StatusOf(judged), !.source = i, !.blueprint = bp,
                                  !.document = judged.document, !.issues = judged.issues,
                                  !.warned = judged.warned, !.change = change])
  BY DEF Revise
<1> DEFINE v == [versions[i] EXCEPT
                     !.status = StatusOf(judged), !.source = i, !.blueprint = bp,
                     !.document = judged.document, !.issues = judged.issues,
                     !.warned = judged.warned, !.change = change]
<1>2. /\ VersionFields \subseteq DOMAIN v
      /\ v.source = i
      /\ \A f \in {"snapshot", "need", "requirements", "accepted"} : v[f] = versions[i][f]
  BY DEF GInv, VersionsRest, VersionFields
<1>3. versions' = Append(versions, v) /\ call' = Idle /\ UNCHANGED reviews
  BY <1>1 DEF Revise, Revisable
<1> HIDE DEF v
<1>4. PICK w : w = v /\ Rests(w)
  BY <1>2 DEF GInv, VersionsRest, Rests, RestsOn
<1>5. versions' \in Seq(Range(versions')) /\ VersionsRest'
  BY <1>2, <1>3, <1>4, AppendKeepsVersions
<1>6. QED
  BY <1>3, <1>5 DEF GInv, CallRests, Idle

-----------------------------------------------------------------------------
(* The theorems *)

\* What calls and versions rest on holds in every reachable state.
THEOREM GInvAlways == Spec => []GInv
<1>1. GInv /\ [Next]_vars => GInv'
  <2> SUFFICES ASSUME GInv, [Next]_vars PROVE GInv'
    OBVIOUS
  <2>1. CASE UNCHANGED vars
    BY <2>1 DEF vars, GInv, CallRests, VersionsRest, Rests, RestsOn
  <2>2. ASSUME NEW i \in DOMAIN versions,
               \/ \E a \in Adjustments : ReviseProposal(i, a)
               \/ \E d \in DOMAIN DimensionTerms, k \in Relations : ReviseRelation(i, d, k)
        PROVE  GInv'
    <3>1. /\ Revisable(i)
          /\ \E bp, change : Revise(i, bp, change)
      BY <2>2 DEF ReviseProposal, ReviseRelation
    <3>2. QED
      BY <3>1, ReviseKeepsGInv
  <2>3. ASSUME NEW r \in reviews, NEW accepted \in SUBSET Pending(r.requirements),
               NEW excluded \in Exclusions, NEW source \in 0 .. Len(versions),
               BeginProposal(r, accepted, excluded, source)
        PROVE  GInv'
    BY <2>3, BeginKeepsGInv
  <2>4. CASE Next
    BY <2>2, <2>3, <2>4, ReviewKeepsGInv, AnswerKeepsGInv DEF Next
  <2>5. QED
    BY <2>1, <2>4
<1>2. QED
  BY <1>1, InitEstablishesGInv, PTL DEF Spec

\* Every version rests on a review of its own snapshot, whose gaps were accepted, and
\* the version it starts from is an earlier one of the same snapshot, whatever was
\* captured and inserted while the provider answered, and through any chain of
\* revisions (create_proposal, revise_proposal).
THEOREM VersionsRestOnTheirReview == Spec => []RestsOnTheReview
<1>1. GInv => RestsOnTheReview
  BY DEF GInv, VersionsRest, Rests, RestsOnTheReview
<1>2. QED
  BY <1>1, GInvAlways, PTL

-----------------------------------------------------------------------------
(* What a document was compiled over *)

\* The scope is the one of the concepts, and one of them at least was chosen.
Scoped(v) ==
    /\ Chosen(v.concepts) # {}
    /\ v.scope = ScopeOf(v, v.concepts)

\* The document is what its blueprint compiles to, with what the source proves, and is
\* judged as it is.
CompiledFrom(v) ==
    /\ IsBlueprint(v.blueprint) /\ v.blueprint.fact \in v.scope
    /\ v.document \in Compiled(v.blueprint, AssessmentOf(v), v.scope)
    /\ v.issues = Issues(v.document, AssessmentOf(v), v.scope)

ReviewsFit ==
    /\ latest \in 1 .. MaxSnapshots
    /\ \A r \in reviews : r.need \in DOMAIN Needs /\ r.snapshot \in 1 .. latest

\* A blueprint is asked for with concepts that are known and the scope they have.
CallFits ==
    /\ call.step \in {"idle", "reviewing", "discovering", "scoping", "composing"}
    /\ call.step = "reviewing" => call.need \in DOMAIN Needs /\ call.snapshot \in 1 .. latest
    /\ call.step \in {"discovering", "scoping", "composing"} =>
          AreKnown(call.concepts) /\ call.scope \subseteq Tables
    /\ call.step = "composing" => Scoped(call)

VersionFits(v) ==
    /\ {"concepts", "scope"} \subseteq DOMAIN v
    /\ AreKnown(v.concepts) /\ v.scope \subseteq Tables
    /\ v.status \in Statuses
    /\ v.status = "ready_for_review" <=> v.document # NoDocument /\ v.issues = {}
    /\ v.document # NoDocument => Scoped(v) /\ CompiledFrom(v)

VersionsFit == \A i \in DOMAIN versions : VersionFits(versions[i])

SInv ==
    /\ ReviewsFit
    /\ CallFits
    /\ VersionsFit

LEMMA InitEstablishesSInv == Init => SInv
<1> SUFFICES ASSUME Init PROVE SInv
  OBVIOUS
<1>1. ReviewsFit
  BY SnapshotsAssumption DEF Init, ReviewsFit
<1>2. CallFits
  BY DEF Init, Idle, CallFits
<1>3. VersionsFit
  BY DEF Init, VersionsFit
<1>4. QED
  BY <1>1, <1>2, <1>3 DEF SInv

\* What is compiled is a document: it has a fact.
LEMMA CompiledIsADocument ==
  ASSUME NEW bp, NEW assessment, NEW scope, NEW judged \in Outcomes(bp, assessment, scope)
  PROVE  /\ judged.document # NoDocument
         /\ judged.document \in Compiled(bp, assessment, scope)
         /\ judged.issues = Issues(judged.document, assessment, scope)
         /\ StatusOf(judged) \in Statuses
         /\ StatusOf(judged) = "ready_for_review" <=> judged.issues = {}
<1>1. PICK doc \in Compiled(bp, assessment, scope) : judged = Judged(doc, assessment, scope)
  BY DEF Outcomes
<1>2. PICK own \in Expanded(bp, scope) :
          doc = WithFormulas(WithMeasures(own, GoalsOf(assessment), scope),
                             GoalsOf(assessment), scope)
  BY DEF Compiled
<1>3. "fact" \in DOMAIN own
  <2>1. own = WithKpis(bp, Readings(bp), Measured(bp, Readings(bp), scope))
    BY DEF Expanded
  <2>2. \A readings, d : DOMAIN WithKpis(bp, readings, d) = DOMAIN d
    BY DEF WithKpis
  <2>3. "fact" \in DOMAIN Measured(bp, Readings(bp), scope)
    BY DEF Measured
  <2>4. QED
    BY <2>1, <2>2, <2>3
<1>4. \A d, goals : DOMAIN WithMeasures(d, goals, scope) = DOMAIN d
  BY DEF WithMeasures
<1>5. \A d, goals : DOMAIN WithFormulas(d, goals, scope) = DOMAIN d
  BY DEF WithFormulas
<1>6. "fact" \in DOMAIN doc
  BY <1>2, <1>3, <1>4, <1>5
<1>7. doc # NoDocument
  BY <1>6 DEF NoDocument
<1>8. judged.document = doc /\ judged.issues = Issues(doc, assessment, scope)
  BY <1>1 DEF Judged
<1>9. QED
  BY <1>7, <1>8 DEF StatusOf, Statuses

\* The scope of known concepts is of the source.
LEMMA ScopeIsOfTheSource ==
  ASSUME NEW c, NEW concepts, AreKnown(concepts)
  PROVE  ScopeOf(c, concepts) \subseteq Tables
<1>1. Evidence(c.requirements) \in SUBSET Tables
  BY DEF Evidence
<1>2. QED
  BY <1>1, DerivedScopeIs DEF ScopeOf

\* A version that fits is added to those that do.
LEMMA AppendKeepsFit ==
  ASSUME GInv, VersionsFit, NEW v, VersionFits(v), versions' = Append(versions, v)
  PROVE  VersionsFit'
<1>1. /\ DOMAIN versions = 1 .. Len(versions) /\ Len(versions) \in Nat
      /\ DOMAIN versions' = 1 .. (Len(versions) + 1)
      /\ \A i \in DOMAIN versions : versions'[i] = versions[i]
      /\ versions'[Len(versions) + 1] = v
  BY Appended DEF GInv
<1>2. \A i \in DOMAIN versions' : i = Len(versions) + 1 \/ i \in DOMAIN versions
  BY <1>1
<1>3. QED
  BY <1>1, <1>2 DEF VersionsFit

\* What a call leaves fits, compiled or not.
LEMMA InsertKeepsFit ==
  ASSUME GInv, VersionsFit, NEW c, NEW status, NEW judged, NEW bp,
         AreKnown(c.concepts), c.scope \subseteq Tables,
         status \in Statuses,
         status = "ready_for_review" <=> judged.document # NoDocument /\ judged.issues = {},
         judged.document # NoDocument =>
            /\ Scoped(c) /\ IsBlueprint(bp) /\ bp.fact \in c.scope
            /\ judged.document \in Compiled(bp, AssessmentOf(c), c.scope)
            /\ judged.issues = Issues(judged.document, AssessmentOf(c), c.scope),
         Insert(c, status, judged, bp)
  PROVE  VersionsFit'
<1> DEFINE v == [status |-> status, snapshot |-> c.snapshot, need |-> c.need,
                 source |-> c.source, requirements |-> c.requirements,
                 accepted |-> c.accepted, concepts |-> c.concepts, scope |-> c.scope,
                 blueprint |-> bp, document |-> judged.document, issues |-> judged.issues,
                 warned |-> judged.warned, change |-> NoChange]
<1>1. versions' = Append(versions, v)
  BY DEF Insert
<1>2. /\ {"concepts", "scope"} \subseteq DOMAIN v
      /\ v.concepts = c.concepts /\ v.scope = c.scope /\ v.status = status
      /\ v.document = judged.document /\ v.issues = judged.issues
      /\ v.need = c.need /\ v.requirements = c.requirements /\ v.accepted = c.accepted
      /\ v.blueprint = bp
  OBVIOUS
<1> HIDE DEF v
<1>3. Scoped(c) => Scoped(v)
  BY <1>2 DEF Scoped, ScopeOf
<1>4. AssessmentOf(v) = AssessmentOf(c)
  BY <1>2 DEF AssessmentOf
<1>5. VersionFits(v)
  BY <1>2, <1>3, <1>4 DEF VersionFits, CompiledFrom
<1>6. QED
  BY <1>1, <1>5, AppendKeepsFit

LEMMA ReviewKeepsSInv ==
  ASSUME SInv,
         \/ CaptureSnapshot
         \/ \E n \in DOMAIN Needs : BeginReview(n)
         \/ \E requirements : FinishReview(requirements)
         \/ RequestDies
  PROVE  SInv'
<1>1. CASE CaptureSnapshot
  <2>1. ReviewsFit'
    BY <1>1, SnapshotsAssumption DEF SInv, ReviewsFit, CaptureSnapshot
  <2>2. CallFits'
    BY <1>1, SnapshotsAssumption
    DEF SInv, ReviewsFit, CallFits, CaptureSnapshot, Scoped, ScopeOf
  <2>3. VersionsFit'
    BY <1>1 DEF SInv, VersionsFit, CaptureSnapshot
  <2>4. QED
    BY <2>1, <2>2, <2>3 DEF SInv
<1>2. ASSUME NEW n \in DOMAIN Needs, BeginReview(n) PROVE SInv'
  <2>1. ReviewsFit' /\ VersionsFit'
    BY <1>2 DEF SInv, ReviewsFit, VersionsFit, BeginReview
  <2>2. CallFits'
    BY <1>2, SnapshotsAssumption DEF SInv, ReviewsFit, CallFits, BeginReview
  <2>3. QED
    BY <2>1, <2>2 DEF SInv
<1>3. ASSUME NEW requirements, FinishReview(requirements) PROVE SInv'
  <2>1. ReviewsFit'
    BY <1>3 DEF SInv, ReviewsFit, CallFits, FinishReview
  <2>2. CallFits' /\ VersionsFit'
    BY <1>3 DEF SInv, CallFits, VersionsFit, FinishReview, Idle
  <2>3. QED
    BY <2>1, <2>2 DEF SInv
<1>4. CASE RequestDies
  BY <1>4 DEF SInv, ReviewsFit, CallFits, VersionsFit, RequestDies, Idle
<1>5. QED
  BY <1>1, <1>2, <1>3, <1>4

\* A call begins with the concepts of a version, or with none.
LEMMA BeginKeepsSInv ==
  ASSUME GInv, SInv, NEW r \in reviews, NEW accepted \in SUBSET Pending(r.requirements),
         NEW excluded \in Exclusions, NEW source \in 0 .. Len(versions),
         BeginProposal(r, accepted, excluded, source)
  PROVE  SInv'
<1>1. /\ call'.step \in {"scoping", "discovering"}
      /\ call'.scope = {}
      /\ \/ source # 0 /\ call'.concepts = versions[source].concepts
         \/ call'.concepts = <<>>
      /\ UNCHANGED <<latest, reviews, versions>>
  BY DEF BeginProposal, Reused
<1>2. source # 0 => source \in DOMAIN versions
  BY Appended DEF GInv
<1>3. AreKnown(<<>>)
  BY DEF AreKnown, Range
<1>4. AreKnown(call'.concepts)
  BY <1>1, <1>2, <1>3 DEF SInv, VersionsFit, VersionFits
<1>5. CallFits'
  BY <1>1, <1>4 DEF CallFits
<1>6. QED
  BY <1>1, <1>5 DEF SInv, ReviewsFit, VersionsFit

LEMMA ConceptsKeepSInv ==
  ASSUME GInv, SInv, call.step \in {"scoping", "discovering"}, UNCHANGED <<latest, reviews>>,
         NEW concepts, AreKnown(concepts), WithConcepts(concepts)
  PROVE  SInv'
<1>1. PICK own, next :
          /\ own = Decided(concepts, call.excluded) \/ own = concepts
          /\ next = [call EXCEPT !.concepts = own, !.scope = ScopeOf(call, own),
                                 !.step = "composing"]
          /\ IF Chosen(own) = {} \/ next.scope = {}
             THEN /\ Insert(next, "validation_failed",
                            [Nothing EXCEPT !.issues = {"semantic_empty"}], None)
                  /\ call' = Idle
             ELSE /\ call' = next
                  /\ UNCHANGED versions
  BY DEF WithConcepts
<1>2. AreKnown(own)
  BY <1>1, DecidedAreKnown
<1>3. CallFields \subseteq DOMAIN call
  BY DEF GInv, CallRests
<1>4. /\ next.concepts = own /\ next.scope = ScopeOf(call, own) /\ next.step = "composing"
      /\ next.need = call.need /\ next.requirements = call.requirements
  BY <1>1, <1>3 DEF CallFields
<1>5. next.scope = ScopeOf(next, own)
  BY <1>4 DEF ScopeOf
<1>6. next.scope \subseteq Tables
  BY <1>2, <1>5, ScopeIsOfTheSource
<1>7. CASE Chosen(own) = {} \/ next.scope = {}
  <2> DEFINE judged == [Nothing EXCEPT !.issues = {"semantic_empty"}]
  <2>1. judged.document = NoDocument
    BY DEF Nothing
  <2>2. Insert(next, "validation_failed", judged, None) /\ call' = Idle
    BY <1>1, <1>7
  <2> HIDE DEF judged
  <2>3. VersionsFit'
    BY <1>2, <1>4, <1>6, <2>1, <2>2, InsertKeepsFit DEF SInv, Statuses
  <2>4. QED
    BY <2>2, <2>3 DEF SInv, ReviewsFit, CallFits, Idle
<1>8. CASE Chosen(own) # {} /\ next.scope # {}
  <2>1. call' = next /\ UNCHANGED versions
    BY <1>1, <1>8
  <2>2. CallFits'
    BY <1>2, <1>4, <1>5, <1>6, <1>8, <2>1 DEF CallFits, Scoped
  <2>3. QED
    BY <2>1, <2>2 DEF SInv, ReviewsFit, VersionsFit
<1>9. QED
  BY <1>7, <1>8

LEMMA AnswerKeepsSInv ==
  ASSUME GInv, SInv,
         \/ \E answer \in Semantics : AnswerSemantics(answer)
         \/ ReuseSemantics
         \/ \E answer \in Blueprints : AnswerBlueprint(answer)
         \/ ProviderFails
  PROVE  SInv'
<1>1. ASSUME NEW answer \in Semantics, AnswerSemantics(answer) PROVE SInv'
  <2>1. AreKnown(Concepts(answer))
    BY SemanticsAssumption, ConceptsAreKnown
  <2>2. WithConcepts(Concepts(answer)) /\ call.step = "discovering" /\ UNCHANGED <<latest, reviews>>
    BY <1>1 DEF AnswerSemantics
  <2>3. QED
    BY <2>1, <2>2, ConceptsKeepSInv
<1>2. CASE ReuseSemantics
  <2>1. PICK concepts : concepts = call.concepts /\ WithConcepts(concepts)
    BY <1>2 DEF ReuseSemantics
  <2>2. call.step = "scoping" /\ AreKnown(concepts) /\ UNCHANGED <<latest, reviews>>
    BY <1>2, <2>1 DEF ReuseSemantics, SInv, CallFits
  <2>3. QED
    BY <2>1, <2>2, ConceptsKeepSInv
<1>3. ASSUME NEW answer \in Blueprints, AnswerBlueprint(answer) PROVE SInv'
  <2>1. PICK bp : /\ bp = [answer EXCEPT !.requested = RequestedDimensions(AssessmentOf(call))]
                  /\ \E judged \in Outcomes(bp, AssessmentOf(call), call.scope) :
                        Insert(call, StatusOf(judged), judged, bp)
    BY <1>3 DEF AnswerBlueprint
  <2>2. PICK judged \in Outcomes(bp, AssessmentOf(call), call.scope) :
            Insert(call, StatusOf(judged), judged, bp)
    BY <2>1
  <2>3. /\ judged.document # NoDocument
        /\ judged.document \in Compiled(bp, AssessmentOf(call), call.scope)
        /\ judged.issues = Issues(judged.document, AssessmentOf(call), call.scope)
        /\ StatusOf(judged) \in Statuses
        /\ StatusOf(judged) = "ready_for_review" <=> judged.issues = {}
    BY CompiledIsADocument
  <2>4. IsBlueprint(bp) /\ bp.fact \in call.scope
    <3>1. /\ DOMAIN bp = DOMAIN answer /\ bp.dimensions = answer.dimensions
          /\ bp.measures = answer.measures /\ bp.kpis = answer.kpis /\ bp.fact = answer.fact
      BY <2>1
    <3>2. IsBlueprint(bp)
      BY <3>1, AnswersAssumption DEF IsBlueprint
    <3>3. answer.fact \in call.scope
      <4>1. answer.fact \in FactCandidates(call.concepts, call.scope, AssessmentOf(call))
        BY <1>3 DEF AnswerBlueprint, InSchema
      <4>2. QED
        BY <4>1 DEF FactCandidates
    <3>4. QED
      BY <3>1, <3>2, <3>3
  <2>5. PICK c, status : c = call /\ status = StatusOf(judged) /\ Insert(c, status, judged, bp)
    BY <2>2
  <2>6. AreKnown(c.concepts) /\ c.scope \subseteq Tables /\ Scoped(c)
    BY <1>3, <2>5 DEF SInv, CallFits, AnswerBlueprint
  <2>7. VersionsFit'
    BY <2>3, <2>4, <2>5, <2>6, InsertKeepsFit DEF SInv
  <2>8. QED
    BY <1>3, <2>7 DEF AnswerBlueprint, SInv, ReviewsFit, CallFits, Idle
<1>4. CASE ProviderFails
  <2>1. call' = Idle /\ UNCHANGED <<latest, reviews>>
    BY <1>4 DEF ProviderFails
  <2>2. CASE UNCHANGED versions
    BY <2>1, <2>2 DEF SInv, ReviewsFit, CallFits, VersionsFit, Idle
  <2>3. CASE versions' # versions
    <3>1. PICK c, judged : /\ c = call /\ judged.document = NoDocument
                           /\ Insert(c, "provider_failed", judged, None)
      BY <1>4, <2>3 DEF ProviderFails, Nothing
    <3>2. AreKnown(c.concepts) /\ c.scope \subseteq Tables
      BY <1>4, <2>3, <3>1 DEF SInv, CallFits, ProviderFails
    <3>3. VersionsFit'
      BY <3>1, <3>2, InsertKeepsFit DEF SInv, Statuses
    <3>4. QED
      BY <2>1, <3>3 DEF SInv, ReviewsFit, CallFits, Idle
  <2>4. QED
    BY <2>2, <2>3
<1>5. QED
  BY <1>1, <1>2, <1>3, <1>4

\* A revision is compiled over the concepts and the scope of its source.
LEMMA ReviseKeepsSInv ==
  ASSUME GInv, SInv, NEW i \in DOMAIN versions, Revisable(i),
         NEW bp, IsBlueprint(bp), bp.fact = versions[i].blueprint.fact,
         NEW change, Revise(i, bp, change)
  PROVE  SInv'
<1>1. PICK judged \in Outcomes(bp, AssessmentOf(versions[i]), versions[i].scope) :
          versions' = Append(versions,
              [versions[i] EXCEPT !.status = StatusOf(judged), !.source = i, !.blueprint = bp,
                                  !.document = judged.document, !.issues = judged.issues,
                                  !.warned = judged.warned, !.change = change])
  BY DEF Revise
<1> DEFINE v == [versions[i] EXCEPT
                     !.status = StatusOf(judged), !.source = i, !.blueprint = bp,
                     !.document = judged.document, !.issues = judged.issues,
                     !.warned = judged.warned, !.change = change]
<1>2. /\ DOMAIN v = DOMAIN versions[i]
      /\ v.status = StatusOf(judged) /\ v.document = judged.document /\ v.issues = judged.issues
      /\ v.concepts = versions[i].concepts /\ v.scope = versions[i].scope
      /\ v.need = versions[i].need /\ v.requirements = versions[i].requirements
      /\ v.accepted = versions[i].accepted /\ v.blueprint = bp
  BY DEF GInv, VersionsRest, VersionFields, SInv, VersionsFit, VersionFits
<1>3. /\ versions' = Append(versions, v) /\ call' = Idle /\ UNCHANGED <<latest, reviews>>
      /\ versions[i].document # NoDocument
  BY <1>1 DEF Revise, Revisable
<1> HIDE DEF v
<1>4. /\ judged.document # NoDocument
      /\ judged.document \in Compiled(bp, AssessmentOf(versions[i]), versions[i].scope)
      /\ judged.issues = Issues(judged.document, AssessmentOf(versions[i]), versions[i].scope)
      /\ StatusOf(judged) \in Statuses
      /\ StatusOf(judged) = "ready_for_review" <=> judged.issues = {}
  BY CompiledIsADocument
<1>5. /\ VersionFits(versions[i]) /\ Scoped(versions[i])
      /\ versions[i].blueprint.fact \in versions[i].scope
  BY <1>3 DEF SInv, VersionsFit, VersionFits, CompiledFrom
<1>6. Scoped(v)
  BY <1>2, <1>5 DEF Scoped, ScopeOf
<1>7. CompiledFrom(v)
  <2>1. AssessmentOf(v) = AssessmentOf(versions[i])
    BY <1>2 DEF AssessmentOf
  <2>2. QED
    BY <1>2, <1>4, <1>5, <2>1 DEF CompiledFrom
<1>8. VersionFits(v)
  BY <1>2, <1>4, <1>5, <1>6, <1>7 DEF VersionFits
<1>9. VersionsFit'
  BY <1>3, <1>8, AppendKeepsFit DEF SInv
<1>10. QED
  BY <1>3, <1>9 DEF SInv, ReviewsFit, CallFits, Idle

\* In every reachable state what is compiled was compiled over the scope of its own
\* chosen concepts and requirements, also when it was revised since (create_proposal,
\* revise_proposal, revise_controlled_relation).
THEOREM SInvAlways == Spec => []SInv
<1>1. GInv /\ SInv /\ [Next]_vars => SInv'
  <2> SUFFICES ASSUME GInv, SInv, [Next]_vars PROVE SInv'
    OBVIOUS
  <2>1. CASE UNCHANGED vars
    BY <2>1 DEF vars, SInv, ReviewsFit, CallFits, VersionsFit, Scoped, ScopeOf
  <2>2. ASSUME NEW i \in DOMAIN versions,
               \/ \E a \in Adjustments : ReviseProposal(i, a)
               \/ \E d \in DOMAIN DimensionTerms, k \in Relations : ReviseRelation(i, d, k)
        PROVE  SInv'
    <3>1. /\ Revisable(i)
          /\ \E bp, change :
                /\ Revise(i, bp, change)
                /\ \/ \E a \in Adjustments : /\ AdjustmentAllowed(versions[i].blueprint, a)
                                              /\ bp = Adjust(versions[i].blueprint, a)
                   \/ \E k : \E d \in Names(versions[i].blueprint.dimensions) :
                         bp = LockSource(versions[i].blueprint, d, k)
      BY <2>2 DEF ReviseProposal, ReviseRelation
    <3>2. IsBlueprint(versions[i].blueprint)
      BY <3>1 DEF SInv, VersionsFit, VersionFits, CompiledFrom, Revisable
    <3>3. PICK bp, change :
              /\ Revise(i, bp, change)
              /\ \/ \E a \in Adjustments : /\ AdjustmentAllowed(versions[i].blueprint, a)
                                            /\ bp = Adjust(versions[i].blueprint, a)
                 \/ \E k : \E d \in Names(versions[i].blueprint.dimensions) :
                       bp = LockSource(versions[i].blueprint, d, k)
      BY <3>1
    <3>4. IsBlueprint(bp)
      BY <3>2, <3>3, AdjustedIsABlueprint, LockedIsABlueprint
    <3>5. bp.fact = versions[i].blueprint.fact
      <4> DEFINE old == versions[i].blueprint
      <4>1. \A a : Adjusts(Adjust(old, a), old, a)
        BY <3>2, AdjustedIs
      <4>2. \A k : \A d \in Names(old.dimensions) : Locks(LockSource(old, d, k), old, d, k.to)
        BY <3>2, LockedIs
      <4>3. \A a : Adjust(old, a).fact = old.fact
        BY <4>1 DEF Adjusts
      <4>4. \A k : \A d \in Names(old.dimensions) : LockSource(old, d, k).fact = old.fact
        BY <4>2 DEF Locks
      <4>5. QED
        BY <3>3, <4>3, <4>4
    <3>6. QED
      BY <3>1, <3>3, <3>4, <3>5, ReviseKeepsSInv
  <2>3. ASSUME NEW r \in reviews, NEW accepted \in SUBSET Pending(r.requirements),
               NEW excluded \in Exclusions, NEW source \in 0 .. Len(versions),
               BeginProposal(r, accepted, excluded, source)
        PROVE  SInv'
    BY <2>3, BeginKeepsSInv
  <2>4. CASE Next
    BY <2>2, <2>3, <2>4, ReviewKeepsSInv, AnswerKeepsSInv DEF Next
  <2>5. QED
    BY <2>1, <2>4
<1>2. QED
  BY <1>1, InitEstablishesSInv, GInvAlways, PTL DEF Spec

\* States are those of the code and a version is ready for a review exactly when it was
\* compiled without an issue, whatever was answered and revised (create_proposal,
\* revise_proposal).
THEOREM TypesHold == Spec => []TypeOK
<1>1. GInv /\ SInv => TypeOK
  <2> SUFFICES ASSUME GInv, SInv PROVE TypeOK
    OBVIOUS
  <2>1. \A i \in DOMAIN versions : versions[i].source \in 0 .. (i - 1)
    <3> SUFFICES ASSUME NEW i \in DOMAIN versions PROVE versions[i].source \in 0 .. (i - 1)
      OBVIOUS
    <3>1. DOMAIN versions = 1 .. Len(versions) /\ Len(versions) \in Nat
      BY DEF GInv
    <3>2. versions[i].source # 0 => versions[i].source \in DOMAIN versions /\ versions[i].source < i
      BY DEF GInv, VersionsRest, Rests
    <3>3. QED
      BY <3>1, <3>2
  <2>2. QED
    BY <2>1 DEF TypeOK, SInv, ReviewsFit, CallFits, VersionsFit, VersionFits
<1>2. QED
  BY <1>1, GInvAlways, SInvAlways, PTL

\* A compiled version may read the chosen tables and every table that its viable
\* requirements rest on and that can be reached at all, and reaches them inside its own
\* scope, whatever the limit on tables and the size of the source (derived_scope): the
\* tables of a shortest path meet no table twice, so that the search within the scope
\* goes as far as the path.
THEOREM TheEvidenceIsInScope == Spec => []ScopeHoldsTheEvidence
<1>1. SInv => ScopeHoldsTheEvidence
  <2> SUFFICES ASSUME SInv, NEW i \in Newest
               PROVE  LET v     == versions[i]
                          first == SelectedTables(v.concepts)[1]
                      IN  /\ Range(SelectedTables(v.concepts)) \subseteq v.scope
                          /\ Evidence(v.requirements) \cap Reachable(first, Tables)
                                \subseteq Reachable(first, v.scope) \cap v.scope
    BY DEF ScopeHoldsTheEvidence
  <2>1. PICK v : v = versions[i] /\ VersionFits(v) /\ v.document # NoDocument
    BY DEF Newest, SInv, VersionsFit
  <2> DEFINE selected == SelectedTables(v.concepts)
             evidence == Evidence(v.requirements)
  <2>2. AreKnown(v.concepts) /\ v.scope \in SUBSET Tables /\ Scoped(v)
    BY <2>1 DEF VersionFits
  <2>3. evidence \in SUBSET Tables
    BY DEF Evidence
  <2>4. v.scope = DerivedScope(v.concepts, evidence, AskedWords(v.need, v.requirements))
    BY <2>2 DEF Scoped, ScopeOf
  <2>5. Chosen(v.concepts) # {}
    BY <2>2 DEF Scoped
  <2> HIDE DEF evidence
  <2>6. /\ selected[1] \in Tables
        /\ Range(selected) \subseteq v.scope
        /\ \A t \in evidence : Range(Path(selected[1], t)) \subseteq v.scope
    BY <2>2, <2>3, <2>4, <2>5, DerivedScopeIs
  <2> HIDE DEF selected
  <2>7. \A t \in evidence \cap Reachable(selected[1], Tables) :
            t \in v.scope /\ t \in Reachable(selected[1], v.scope)
    BY <2>2, <2>6, PathsJoin
  <2>8. QED
    BY <2>1, <2>6, <2>7 DEF selected, evidence
<1>2. QED
  BY <1>1, SInvAlways, PTL

\* A margin that was asked for and that sales, one quantity and one cost prove is in
\* every document, whatever the provider left out and people revised since, and however
\* many other costs the source has (apply_financial_requirements): the measures of the
\* need are added in one order, so that the cost is there when the margin is said.
THEOREM MarginsAreComputed == Spec => []ProvenGoalsAreAnswered
<1>1. SInv => ProvenGoalsAreAnswered
  <2> SUFFICES ASSUME SInv, NEW i \in Newest, NEW v, v = versions[i],
                      NEW q \in ColumnsOf(v.document.fact), NEW c,
                      NEW d \in v.document.dimensions, d.name = "dim_producto",
                      TableOf(c) = d.source,
                      NEW own \in Expanded(v.blueprint, v.scope),
                      "gross_margin" \in GoalsOf(AssessmentOf(v)),
                      Sales(own.measures) # {},
                      QuantitiesOf(v.document.fact) = {q},
                      TableOf(c) \in Reachable(v.document.fact, v.scope),
                      CostsOf(TableOf(c)) = {c},
                      \A m \in Range(own.measures) :
                         m.role # "cost_amount" /\ (m.role = "quantity" => Range(m.inputs) = {q}),
                      "margen_bruto" \notin {k.code : k \in Range(own.kpis)}
               PROVE  HasMargin(v.document, q, c)
    BY SMTT(60) DEF ProvenGoalsAreAnswered
  <2>1. VersionFits(v) /\ v.document # NoDocument
    BY DEF Newest, SInv, VersionsFit
  <2>2. CompiledFrom(v)
    BY <2>1 DEF VersionFits
  <2> DEFINE goals == GoalsOf(AssessmentOf(v))
  <2>3. /\ Expanded(v.blueprint, v.scope) = {own}
        /\ {"fact", "dimensions", "measures", "kpis"} \subseteq DOMAIN own
        /\ own.measures \in Seq(Range(own.measures)) /\ own.kpis \in Seq(Range(own.kpis))
        /\ \A d1, d2 \in own.dimensions : d1.name = d2.name => d1 = d2
    BY <2>2, ExpandedIs DEF CompiledFrom
  <2>4. v.document = WithFormulas(WithMeasures(own, goals, v.scope), goals, v.scope)
    BY <2>2, <2>3 DEF CompiledFrom, Compiled
  <2> HIDE DEF goals
  <2>5. v.document.fact = own.fact /\ v.document.dimensions = own.dimensions
    BY <2>3, <2>4 DEF WithFormulas, WithMeasures
  <2>6. CostColumns(own, v.scope) = {c}
    <3>1. OneProduct(own, d, c)
      BY <2>3, <2>5 DEF OneProduct
    <3>2. QED
      BY <2>5, <3>1, CostColumnsAre
  <2>7. Certain(own, v.scope, q, c)
    BY <2>3, <2>5, <2>6 DEF Certain
  <2>8. QED
    BY <2>4, <2>7, MarginIsComputed DEF goals
<1>2. QED
  BY <1>1, SInvAlways, PTL
\* Every KPI of a blueprint that is compiled and is no formula has the measure that it
\* was given, whatever was left out before that one and whatever the source proves since
\* (expand_proposal_blueprint's measure_map, apply_financial_requirements): a measure
\* that is kept has the place that it has among those that are.
THEOREM KpisHaveTheirMeasure == Spec => []KpisKeepTheirMeasure
<1>1. SInv => KpisKeepTheirMeasure
  <2> SUFFICES ASSUME SInv, NEW i \in Newest, NEW v, v = versions[i],
                      NEW own \in Expanded(v.blueprint, v.scope), NEW k \in Range(own.kpis)
               PROVE  /\ k \in Range(v.document.kpis)
                      /\ k.kind = "aggregate" => TakesItsMeasure(k, own, v.blueprint)
    BY DEF KpisKeepTheirMeasure, TakesItsMeasure
  <2>1. CompiledFrom(v)
    BY DEF Newest, SInv, VersionsFit, VersionFits
  <2>2. QED
    BY <2>1, CompiledKeeps, KpiHasItsMeasure DEF CompiledFrom
<1>2. QED
  BY <1>1, SInvAlways, PTL

-----------------------------------------------------------------------------
(* What a revision came from *)

\* A revision changes the blueprint of a compiled version as the person asked, on the
\* scope of that version.
FollowsFrom(v, source) ==
    /\ source.document # NoDocument /\ v.scope = source.scope
    /\ \/ /\ v.change.kind = "adjusted"
          /\ v.change.adjustment \in Adjustments
          /\ AdjustmentAllowed(source.blueprint, v.change.adjustment)
          /\ v.blueprint = Adjust(source.blueprint, v.change.adjustment)
       \/ /\ v.change.kind = "relation"
          /\ v.change.dimension \in Names(source.blueprint.dimensions)
          /\ \E k \in RelationOptions(v.scope) :
                /\ v.change.table = k.to
                /\ v.blueprint = LockSource(source.blueprint, v.change.dimension, k)

Follows(v) ==
    \/ v.change.kind = "generated"
    \/ v.source \in DOMAIN versions /\ FollowsFrom(v, versions[v.source])

RInv == \A i \in DOMAIN versions : Follows(versions[i])

\* What a revision came from is not written again.
LEMMA AppendKeepsRInv ==
  ASSUME GInv, RInv, NEW v, Follows(v), versions' = Append(versions, v)
  PROVE  RInv'
<1>1. /\ DOMAIN versions = 1 .. Len(versions) /\ Len(versions) \in Nat
      /\ DOMAIN versions' = 1 .. (Len(versions) + 1)
      /\ \A i \in DOMAIN versions : versions'[i] = versions[i]
      /\ versions'[Len(versions) + 1] = v
  BY Appended DEF GInv
<1>2. SUFFICES ASSUME NEW i \in DOMAIN versions' PROVE Follows(versions[i])'
  BY DEF RInv
<1>3. PICK w : w = versions'[i] /\ Follows(w)
  BY <1>1 DEF RInv
<1>4. \A j \in DOMAIN versions : j \in DOMAIN versions' /\ versions'[j] = versions[j]
  BY <1>1
<1>5. Follows(w)'
  BY <1>3, <1>4 DEF Follows
<1>6. QED
  BY <1>3, <1>5 DEF Follows

LEMMA InsertKeepsRInv ==
  ASSUME GInv, RInv, NEW c, NEW status, NEW judged, NEW bp, Insert(c, status, judged, bp)
  PROVE  RInv'
<1> DEFINE v == [status |-> status, snapshot |-> c.snapshot, need |-> c.need,
                 source |-> c.source, requirements |-> c.requirements,
                 accepted |-> c.accepted, concepts |-> c.concepts, scope |-> c.scope,
                 blueprint |-> bp, document |-> judged.document, issues |-> judged.issues,
                 warned |-> judged.warned, change |-> NoChange]
<1>1. versions' = Append(versions, v)
  BY DEF Insert
<1>2. Follows(v)
  BY DEF Follows, NoChange
<1> HIDE DEF v
<1>3. QED
  BY <1>1, <1>2, AppendKeepsRInv

\* A call leaves at most one version, which was generated.
LEMMA AnswersInsert ==
  ASSUME \/ \E answer \in Semantics : AnswerSemantics(answer)
         \/ ReuseSemantics
         \/ \E answer \in Blueprints : AnswerBlueprint(answer)
         \/ ProviderFails
  PROVE  UNCHANGED versions \/ \E c, status, judged, bp : Insert(c, status, judged, bp)
<1>1. ASSUME NEW concepts, WithConcepts(concepts)
      PROVE  UNCHANGED versions \/ \E c, status, judged, bp : Insert(c, status, judged, bp)
  BY <1>1 DEF WithConcepts
<1>2. ASSUME NEW answer, AnswerSemantics(answer)
      PROVE  UNCHANGED versions \/ \E c, status, judged, bp : Insert(c, status, judged, bp)
  BY <1>1, <1>2 DEF AnswerSemantics
<1>3. CASE ReuseSemantics
  <2>1. PICK concepts : concepts = call.concepts /\ WithConcepts(concepts)
    BY <1>3 DEF ReuseSemantics
  <2>2. QED
    BY <1>1, <2>1
<1>4. ASSUME NEW answer, AnswerBlueprint(answer)
      PROVE  \E c, status, judged, bp : Insert(c, status, judged, bp)
  BY <1>4 DEF AnswerBlueprint
<1>5. CASE ProviderFails
  BY <1>5 DEF ProviderFails
<1>6. QED
  BY <1>2, <1>3, <1>4, <1>5

\* A revision starts from the version that it names.
LEMMA ReviseKeepsRInv ==
  ASSUME GInv, SInv, RInv, NEW i \in DOMAIN versions, Revisable(i), NEW bp, NEW change,
         Revise(i, bp, change),
         \/ \E a \in Adjustments :
               /\ AdjustmentAllowed(versions[i].blueprint, a)
               /\ bp = Adjust(versions[i].blueprint, a)
               /\ change = [NoChange EXCEPT !.kind = "adjusted", !.adjustment = a]
         \/ \E k \in RelationOptions(versions[i].scope) : \E d \in Names(versions[i].blueprint.dimensions) :
               /\ bp = LockSource(versions[i].blueprint, d, k)
               /\ change = [NoChange EXCEPT !.kind = "relation", !.dimension = d, !.table = k.to]
  PROVE  RInv'
<1>1. PICK judged :
          versions' = Append(versions,
              [versions[i] EXCEPT !.status = StatusOf(judged), !.source = i, !.blueprint = bp,
                                  !.document = judged.document, !.issues = judged.issues,
                                  !.warned = judged.warned, !.change = change])
  BY DEF Revise
<1> DEFINE v == [versions[i] EXCEPT
                     !.status = StatusOf(judged), !.source = i, !.blueprint = bp,
                     !.document = judged.document, !.issues = judged.issues,
                     !.warned = judged.warned, !.change = change]
<1>2. /\ v.source = i /\ v.blueprint = bp /\ v.change = change
      /\ v.scope = versions[i].scope /\ versions' = Append(versions, v)
  BY <1>1 DEF GInv, VersionsRest, VersionFields, SInv, VersionsFit, VersionFits
<1> HIDE DEF v
<1>3. versions[i].document # NoDocument
  BY DEF Revisable
<1>4. FollowsFrom(v, versions[i])
  BY <1>2, <1>3 DEF FollowsFrom, NoChange
<1>5. Follows(v)
  BY <1>2, <1>4 DEF Follows
<1>6. QED
  BY <1>2, <1>5, AppendKeepsRInv

\* In every reachable state a version was generated or is what its change makes of an
\* earlier compiled one (revise_proposal, revise_controlled_relation).
THEOREM RInvAlways == Spec => []RInv
<1>1. Init => RInv
  BY DEF Init, RInv
<1>2. GInv /\ SInv /\ RInv /\ [Next]_vars => RInv'
  <2> SUFFICES ASSUME GInv, SInv, RInv, [Next]_vars PROVE RInv'
    OBVIOUS
  <2>1. CASE UNCHANGED versions
    BY <2>1 DEF RInv, Follows
  <2>2. ASSUME NEW i \in DOMAIN versions, NEW a \in Adjustments, ReviseProposal(i, a) PROVE RInv'
    <3>1. PICK bp, change :
              /\ Revisable(i) /\ Revise(i, bp, change)
              /\ AdjustmentAllowed(versions[i].blueprint, a)
              /\ bp = Adjust(versions[i].blueprint, a)
              /\ change = [NoChange EXCEPT !.kind = "adjusted", !.adjustment = a]
      BY <2>2 DEF ReviseProposal
    <3>2. QED
      BY <3>1, ReviseKeepsRInv
  <2>3. ASSUME NEW i \in DOMAIN versions, NEW d, NEW k, ReviseRelation(i, d, k) PROVE RInv'
    <3>1. PICK bp, change :
              /\ Revisable(i) /\ Revise(i, bp, change)
              /\ d \in Names(versions[i].blueprint.dimensions)
              /\ k \in RelationOptions(versions[i].scope)
              /\ bp = LockSource(versions[i].blueprint, d, k)
              /\ change = [NoChange EXCEPT !.kind = "relation", !.dimension = d, !.table = k.to]
      BY <2>3 DEF ReviseRelation
    <3>2. QED
      BY <3>1, ReviseKeepsRInv
  <2>4. CASE \/ CaptureSnapshot \/ RequestDies
             \/ \E n \in DOMAIN Needs : BeginReview(n)
             \/ \E requirements : FinishReview(requirements)
             \/ \E r \in reviews, excluded \in Exclusions, source \in 0 .. Len(versions) :
                   \E accepted \in SUBSET Pending(r.requirements) :
                      BeginProposal(r, accepted, excluded, source)
    BY <2>1, <2>4 DEF CaptureSnapshot, RequestDies, BeginReview, FinishReview, BeginProposal
  <2>5. CASE \/ \E answer \in Semantics : AnswerSemantics(answer)
             \/ ReuseSemantics
             \/ \E answer \in Blueprints : AnswerBlueprint(answer)
             \/ ProviderFails
    BY <2>1, <2>5, AnswersInsert, InsertKeepsRInv
  <2>6. CASE Next
    BY <2>2, <2>3, <2>4, <2>5, <2>6 DEF Next
  <2>7. QED
    BY <2>1, <2>6 DEF vars
<1>3. QED
  BY <1>1, <1>2, GInvAlways, SInvAlways, PTL DEF Spec

\* The dimensions of a document are those compiled of the blueprint.
LEMMA CompiledHasDimensions ==
  ASSUME NEW v, CompiledFrom(v)
  PROVE  \E own \in Expanded(v.blueprint, v.scope) : v.document.dimensions = own.dimensions
<1>1. IsBlueprint(v.blueprint) /\ v.document \in Compiled(v.blueprint, AssessmentOf(v), v.scope)
  BY DEF CompiledFrom
<1>2. \E own : own \in Expanded(v.blueprint, v.scope)
  BY <1>1 DEF Compiled
<1>3. QED
  BY <1>1, <1>2, CompiledKeeps

\* A dimension that a relation gave a table reads that one, and every other one the
\* table that it read before, through any chain of adjustments and relations, for every
\* source and answer that names a dimension once (apply_controlled_relationship,
\* apply_analyst_adjustments): what is compiled of a dimension depends on what is listed
\* of it, the scope and the fact, and a revision leaves the last two alone.
THEOREM DimensionsHaveTheirTable == Spec => []DimensionsKeepTheirTable
<1>1. SInv /\ RInv => DimensionsKeepTheirTable
  <2> SUFFICES ASSUME SInv, RInv, NEW i \in Newest, NEW v, v = versions[i],
                      NEW source, source = versions[v.source],
                      NEW bp, bp = v.blueprint, NEW old, old = source.blueprint,
                      v.change.kind # "generated", NamedOnce(old.dimensions),
                      NEW d \in v.document.dimensions, d.name \in Names(bp.dimensions)
               PROVE  IF v.change.kind = "relation" /\ d.name = v.change.dimension
                      THEN d.source = v.change.table
                      ELSE \A e \in source.document.dimensions : d.name = e.name => d.source = e.source
    BY DEF DimensionsKeepTheirTable
  <2>1. v.source \in DOMAIN versions /\ FollowsFrom(v, source)
    BY DEF Newest, RInv, Follows
  <2>2. CompiledFrom(v) /\ CompiledFrom(source)
    BY <2>1 DEF Newest, SInv, VersionsFit, VersionFits, FollowsFrom
  <2>3. PICK own \in Expanded(bp, v.scope) : v.document.dimensions = own.dimensions
    BY <2>2, CompiledHasDimensions
  <2>4. PICK before \in Expanded(old, source.scope) : source.document.dimensions = before.dimensions
    BY <2>2, CompiledHasDimensions
  <2>5. IsBlueprint(bp) /\ IsBlueprint(old) /\ source.scope = v.scope
    BY <2>1, <2>2 DEF CompiledFrom, FollowsFrom
  <2>6. ASSUME NEW e, OnlyOne(bp, d.name, e) PROVE d.source = SourceOf(e, v.scope, bp.fact)
    BY <2>3, <2>5, <2>6, DocumentDimensionIs
  <2>7. ASSUME NEW e, OnlyOne(bp, d.name, e), OnlyOne(old, d.name, e), bp.fact = old.fact
        PROVE  \A x \in source.document.dimensions : d.name = x.name => d.source = x.source
    <3> SUFFICES ASSUME NEW x \in before.dimensions, x.name = d.name PROVE d.source = x.source
      BY <2>4
    <3>1. x.source = SourceOf(e, v.scope, old.fact)
      <4>1. x.name \in Names(old.dimensions) /\ OnlyOne(old, x.name, e)
        BY <2>7 DEF OnlyOne
      <4>2. before \in Expanded(old, v.scope)
        BY <2>5
      <4>3. QED
        BY <2>5, <4>1, <4>2, DocumentDimensionIs
    <3>2. QED
      BY <2>6, <2>7, <3>1
  <2>8. CASE v.change.kind = "adjusted"
    <3>1. PICK a \in Adjustments : AdjustmentAllowed(old, a) /\ bp = Adjust(old, a)
      BY <2>1, <2>8 DEF FollowsFrom
    <3>2. bp.fact = old.fact
      <4>1. Adjust(old, a).fact = old.fact
        BY <2>5, AdjustmentKeepsTheFact
      <4>2. QED
        BY <3>1, <4>1
    <3>3. \E e : OnlyOne(old, d.name, e) /\ OnlyOne(bp, d.name, e)
      BY <2>5, <3>1, AdjustedKeepsADimension
    <3>4. QED
      BY <2>7, <2>8, <3>2, <3>3
  <2>9. CASE v.change.kind = "relation"
    <3>1. PICK name \in Names(old.dimensions), k \in RelationOptions(v.scope) :
              /\ v.change.table = k.to /\ v.change.dimension = name
              /\ bp = LockSource(old, name, k)
      BY <2>1, <2>9 DEF FollowsFrom
    <3>2. bp.fact = old.fact
      <4>1. Locks(bp, old, name, k.to)
        BY <2>5, <3>1, LockedIs
      <4>2. QED
        BY <4>1 DEF Locks
    <3>3. PICK e : /\ OnlyOne(bp, d.name, e)
                   /\ IF d.name = name THEN e.locked /\ e.source = k.to
                      ELSE OnlyOne(old, d.name, e)
      <4>1. LeavesOne(bp, old, name, k.to, d.name)
        BY <2>5, <3>1, LockedKeepsADimension
      <4>2. QED
        BY <4>1 DEF LeavesOne
    <3>4. CASE d.name = name
      <4>1. k.to \in v.scope
        BY DEF RelationOptions, RelationsIn
      <4>2. SourceOf(e, v.scope, bp.fact) = k.to
        BY <3>3, <3>4, <4>1 DEF SourceOf
      <4>3. QED
        BY <2>6, <2>9, <3>1, <3>3, <3>4, <4>2
    <3>5. CASE d.name # name
      BY <2>7, <2>9, <3>1, <3>2, <3>3, <3>5
    <3>6. QED
      BY <3>4, <3>5
  <2>10. QED
    BY <2>1, <2>8, <2>9 DEF FollowsFrom
<1>2. QED
  BY <1>1, SInvAlways, RInvAlways, PTL

\* An adjusted version has the measures that the person chose for the KPI, at the places
\* that those have now, and is compiled with the calculations that the person set,
\* whatever the answer and the adjustments before were (apply_analyst_adjustments): a
\* calculation changes on the way only when it takes a rate for an amount.
THEOREM AdjustmentsFollowed == Spec => []AdjustmentsAreFollowed
<1>1. SInv /\ RInv => AdjustmentsAreFollowed
  <2> SUFFICES ASSUME SInv, RInv, NEW i \in Newest, NEW v, v = versions[i],
                      NEW source, source = versions[v.source], v.change.kind = "adjusted"
               PROVE  LET a == v.change.adjustment IN
                      /\ \A k \in Range(v.blueprint.kpis) : Refers(v.blueprint, source.blueprint, a, k)
                      /\ \A own \in Expanded(v.blueprint, v.scope) : \A m \in Range(own.measures) :
                            m.name \in DOMAIN a.calculations \ {LineAverage.name} =>
                               Followed(m, a.calculations[m.name])
    BY DEF AdjustmentsAreFollowed, Refers
  <2>1. v.source \in DOMAIN versions /\ FollowsFrom(v, source)
    BY DEF Newest, RInv, Follows
  <2>2. IsBlueprint(source.blueprint)
    BY <2>1 DEF SInv, VersionsFit, VersionFits, CompiledFrom, FollowsFrom
  <2>3. PICK bp, old, a :
            /\ bp = v.blueprint /\ old = source.blueprint /\ a = v.change.adjustment
            /\ a \in Adjustments /\ AdjustmentAllowed(old, a) /\ bp = Adjust(old, a)
    BY <2>1 DEF FollowsFrom
  <2>4. \A k \in Range(bp.kpis) : Refers(bp, old, a, k)
    BY <2>2, <2>3, AdjustedKpisRefer
  <2>5. ASSUME NEW own \in Expanded(bp, v.scope), NEW m \in Range(own.measures),
               m.name \in DOMAIN a.calculations \ {LineAverage.name}
        PROVE  Followed(m, a.calculations[m.name])
    <3>1. PICK scope : scope = v.scope /\ own \in Expanded(bp, scope)
      OBVIOUS
    <3>2. QED
      BY <2>2, <2>3, <2>5, <3>1, AdjustedMeasuresFollow
  <2>6. QED
    BY <2>3, <2>4, <2>5
<1>2. QED
  BY <1>1, SInvAlways, RInvAlways, PTL

\* The three together: no later step of the generation undoes a decision of a person.
THEOREM DecisionsKept == Spec => []DecisionsAreKept
<1>1. KpisKeepTheirMeasure /\ AdjustmentsAreFollowed /\ DimensionsKeepTheirTable => DecisionsAreKept
  BY DEF DecisionsAreKept
<1>2. QED
  BY <1>1, KpisHaveTheirMeasure, AdjustmentsFollowed, DimensionsHaveTheirTable, PTL

-----------------------------------------------------------------------------
(* The KPI of a document, judged one after the other *)

\* What the validator knows and has found, KPI by KPI.
JudgeGoes(f, doc) ==
    /\ f[0] = [known |-> {m.name : m \in Range(doc.measures)}, issues |-> {}]
    /\ \A i \in 1 .. Len(doc.kpis) : f[i] = JudgeKpi(doc, f[i - 1], doc.kpis[i])
    /\ KpiIssues(doc) = f[Len(doc.kpis)].issues

LEMMA JudgeSteps ==
  ASSUME NEW doc, doc.kpis \in Seq(Range(doc.kpis))
  PROVE  \E f : JudgeGoes(f, doc)
<1> DEFINE N == Len(doc.kpis)
           names == {m.name : m \in Range(doc.measures)}
           codes == names \cup {k.code : k \in Range(doc.kpis)}
           found == {"derived_inputs", "formula"}
                       \cup UNION {AggregateIssues(doc, k) : k \in Range(doc.kpis)}
           V == [known : SUBSET codes, issues : SUBSET found]
           base == [known |-> names, issues |-> {}]
           Step(v, i) == JudgeKpi(doc, v, doc.kpis[i])
           G == [p \in V \X (1 .. N) |-> Step(p[1], p[2])]
           Eq(g) == g = [s \in SUBSET (1 .. N) |->
                            IF s = {} THEN base ELSE Step(g[s \ {Max(s)}], Max(s))]
           iter == CHOOSE g : Eq(g)
<1>1. N \in Nat /\ DOMAIN doc.kpis = 1 .. N /\ \A i \in 1 .. N : doc.kpis[i] \in Range(doc.kpis)
  BY DEF Range
<1>2. KpiIssues(doc) = iter[1 .. N].issues
  BY <1>1 DEF KpiIssues, FoldLeft, MapThenFoldSet
<1>3. \A v \in V, i \in 1 .. N : Step(v, i) \in V
  <2> SUFFICES ASSUME NEW v \in V, NEW k \in Range(doc.kpis) PROVE JudgeKpi(doc, v, k) \in V
    BY <1>1
  <2>1. k.code \in codes /\ AggregateIssues(doc, k) \subseteq found
    OBVIOUS
  <2> DEFINE known == [v EXCEPT !.known = @ \cup {k.code}]
  <2> HIDE DEF found, codes
  <2>2. known \in V
    BY <2>1
  <2>3. {"derived_inputs", "formula"} \subseteq found
    BY DEF found
  <2>4. \A x \in V : \A e \in SUBSET found : [x EXCEPT !.issues = @ \cup e] \in V
    OBVIOUS
  <2> HIDE DEF V
  <2>5. QED
    BY <2>1, <2>2, <2>3, <2>4 DEF JudgeKpi
<1>4. G \in [V \X (1 .. N) -> V]
  BY <1>3
<1>5. base \in V
  OBVIOUS
<1>6. \A v \in V, i \in 1 .. N : G[<<v, i>>] = Step(v, i)
  OBVIOUS
<1> HIDE DEF V, G, Step, N, base
<1>7. PICK h \in [SUBSET (1 .. N) -> V] : Folded(h, N, base, G)
  BY <1>1, <1>4, <1>5, FoldLeftExists
<1>8. Eq(h)
  <2>1. \A s \in SUBSET (1 .. N) : s # {} => Max(s) \in 1 .. N /\ s \ {Max(s)} \in SUBSET (1 .. N)
    BY <1>1, GreatestOfNumbers
  <2>2. \A s \in SUBSET (1 .. N) : s # {} => h[s] = Step(h[s \ {Max(s)}], Max(s))
    BY <1>6, <1>7, <2>1 DEF Folded
  <2>3. QED
    BY <1>7, <2>2 DEF Folded
<1>9. Eq(iter)
  BY <1>8
<1> HIDE DEF iter
<1> DEFINE f == [i \in 0 .. N |-> iter[1 .. i]]
<1>10. f[0] = base
  <2>1. 1 .. 0 = {} /\ 0 \in 0 .. N
    BY <1>1
  <2>2. QED
    BY <1>9, <2>1
<1>11. \A i \in 1 .. N : f[i] = Step(f[i - 1], i)
  <2> SUFFICES ASSUME NEW i \in 1 .. N PROVE f[i] = Step(f[i - 1], i)
    OBVIOUS
  <2>1. /\ i \in 0 .. N /\ i - 1 \in 0 .. N
        /\ 1 .. i \in SUBSET (1 .. N) /\ 1 .. i # {}
        /\ Max(1 .. i) = i /\ (1 .. i) \ {i} = 1 .. (i - 1)
    BY <1>1, Intervals
  <2>2. QED
    BY <1>9, <2>1
<1>12. f[N] = iter[1 .. N]
  BY <1>1
<1> HIDE DEF f, Eq
<1>13. JudgeGoes(f, doc)
  BY <1>2, <1>10, <1>11, <1>12 DEF JudgeGoes, N, Step, base
<1>14. QED
  BY <1>13

\* What the recipes of a document are, KPI by KPI.
RecipesGo(f, measures, kpis) ==
    /\ f[0] = [recipes |-> <<>>, issues |-> {}]
    /\ \A i \in 1 .. Len(kpis) : f[i] = Recipes!CompileOne(measures, f[i - 1], kpis[i])
    /\ Recipes!Compile(measures, kpis) = f[Len(kpis)]

LEMMA RecipeSteps ==
  ASSUME NEW measures, NEW kpis, kpis \in Seq(Range(kpis))
  PROVE  \E f : RecipesGo(f, measures, kpis)
<1> DEFINE N == Len(kpis)
           K == Range(kpis)
           V == [recipes : Seq(K), issues : SUBSET {k.code : k \in K}]
           base == [recipes |-> <<>>, issues |-> {}]
           Step(v, i) == Recipes!CompileOne(measures, v, kpis[i])
           G == [p \in V \X (1 .. N) |-> Step(p[1], p[2])]
           Eq(g) == g = [s \in SUBSET (1 .. N) |->
                            IF s = {} THEN base ELSE Step(g[s \ {Max(s)}], Max(s))]
           iter == CHOOSE g : Eq(g)
<1>1. N \in Nat /\ DOMAIN kpis = 1 .. N /\ \A i \in 1 .. N : kpis[i] \in K
  BY DEF Range
<1>2. Recipes!Compile(measures, kpis) = iter[1 .. N]
  BY <1>1 DEF Recipes!Compile, Recipes!FoldLeft, Recipes!MapThenFoldSet,
              Recipes!Max, Max
<1>3. \A v \in V, i \in 1 .. N : Step(v, i) \in V
  <2> SUFFICES ASSUME NEW v \in V, NEW k \in K PROVE Recipes!CompileOne(measures, v, k) \in V
    BY <1>1
  <2>1. [v EXCEPT !.issues = @ \cup {k.code}] \in V
    OBVIOUS
  <2>2. [v EXCEPT !.recipes = Append(@, k)] \in V
    <3> HIDE DEF K
    <3>1. v.recipes \in Seq(K) /\ Append(v.recipes, k) \in Seq(K)
      OBVIOUS
    <3>2. \A r \in Seq(K) : [v EXCEPT !.recipes = r] \in V
      OBVIOUS
    <3>3. QED
      BY <3>1, <3>2
  <2> HIDE DEF V
  <2>3. QED
    BY <2>1, <2>2 DEF Recipes!CompileOne
<1>4. G \in [V \X (1 .. N) -> V]
  BY <1>3
<1>5. base \in V
  OBVIOUS
<1>6. \A v \in V, i \in 1 .. N : G[<<v, i>>] = Step(v, i)
  OBVIOUS
<1> HIDE DEF V, G, Step, N, base
<1>7. PICK h \in [SUBSET (1 .. N) -> V] : Folded(h, N, base, G)
  BY <1>1, <1>4, <1>5, FoldLeftExists
<1>8. Eq(h)
  <2>1. \A s \in SUBSET (1 .. N) : s # {} => Max(s) \in 1 .. N /\ s \ {Max(s)} \in SUBSET (1 .. N)
    BY <1>1, GreatestOfNumbers
  <2>2. \A s \in SUBSET (1 .. N) : s # {} => h[s] = Step(h[s \ {Max(s)}], Max(s))
    BY <1>6, <1>7, <2>1 DEF Folded
  <2>3. QED
    BY <1>7, <2>2 DEF Folded
<1>9. Eq(iter)
  BY <1>8
<1> HIDE DEF iter
<1> DEFINE f == [i \in 0 .. N |-> iter[1 .. i]]
<1>10. f[0] = base
  <2>1. 1 .. 0 = {} /\ 0 \in 0 .. N
    BY <1>1
  <2>2. QED
    BY <1>9, <2>1
<1>11. \A i \in 1 .. N : f[i] = Step(f[i - 1], i)
  <2> SUFFICES ASSUME NEW i \in 1 .. N PROVE f[i] = Step(f[i - 1], i)
    OBVIOUS
  <2>1. /\ i \in 0 .. N /\ i - 1 \in 0 .. N
        /\ 1 .. i \in SUBSET (1 .. N) /\ 1 .. i # {}
        /\ Max(1 .. i) = i /\ (1 .. i) \ {i} = 1 .. (i - 1)
    BY <1>1, Intervals
  <2>2. QED
    BY <1>9, <2>1
<1>12. f[N] = iter[1 .. N]
  BY <1>1
<1> HIDE DEF f, Eq
<1>13. RecipesGo(f, measures, kpis)
  BY <1>2, <1>10, <1>11, <1>12 DEF RecipesGo, N, Step, base
<1>14. QED
  BY <1>13

\* The validator finds nothing wrong in a KPI: an aggregate is of a measure that means
\* what it means, and a formula is over measures and the KPI before it.
NamesOf(doc) == {m.name : m \in Range(doc.measures)}

CodesUpTo(doc, n) == {doc.kpis[j].code : j \in 1 .. n}

InOrder(doc, i) ==
    IF doc.kpis[i].kind = "aggregate"
    THEN doc.kpis[i].args[1] \in NamesOf(doc) /\ AggregateIssues(doc, doc.kpis[i]) = {}
    ELSE Range(doc.kpis[i].args) \subseteq NamesOf(doc) \cup CodesUpTo(doc, i - 1)

\* A validator that found nothing found nothing wrong in any KPI.
LEMMA NothingIsWrong ==
  ASSUME NEW doc, doc.kpis \in Seq(Range(doc.kpis)), KpiIssues(doc) = {}
  PROVE  \A i \in 1 .. Len(doc.kpis) : InOrder(doc, i)
<1> DEFINE N == Len(doc.kpis)
<1>1. N \in Nat
  OBVIOUS
<1>2. PICK f : JudgeGoes(f, doc)
  BY JudgeSteps
<1> DEFINE Fine(n) == /\ DOMAIN f[n] = {"known", "issues"}
                      /\ f[n].issues = {} => /\ \A i \in 1 .. n : InOrder(doc, i)
                                             /\ f[n].known = NamesOf(doc) \cup CodesUpTo(doc, n)
           D == {n \in 0 .. N : Fine(n)}
<1>3. Fine(0)
  <2>1. 1 .. 0 = {}
    OBVIOUS
  <2>2. f[0] = [known |-> NamesOf(doc), issues |-> {}]
    BY <1>2 DEF JudgeGoes, NamesOf
  <2>3. CodesUpTo(doc, 0) = {}
    BY <2>1 DEF CodesUpTo
  <2>4. QED
    BY <2>1, <2>2, <2>3
<1>4. ASSUME NEW n \in 1 .. N, Fine(n - 1) PROVE Fine(n)
  <2> DEFINE k == doc.kpis[n]
             acc == f[n - 1]
             known == [acc EXCEPT !.known = @ \cup {k.code}]
  <2>1. f[n] = JudgeKpi(doc, acc, k) /\ DOMAIN acc = {"known", "issues"}
    BY <1>2, <1>4 DEF JudgeGoes
  <2>2. \/ f[n] = known /\ k.kind # "aggregate" /\ Range(k.args) \subseteq acc.known
        \/ f[n] = [known EXCEPT !.issues = @ \cup {"derived_inputs"}]
        \/ f[n] = [acc EXCEPT !.issues = @ \cup {"formula"}]
        \/ /\ f[n] = [known EXCEPT !.issues = @ \cup AggregateIssues(doc, k)]
           /\ k.kind = "aggregate" /\ k.args[1] \in NamesOf(doc)
    BY <2>1 DEF JudgeKpi, NamesOf
  <2>3. /\ DOMAIN known = {"known", "issues"} /\ known.issues = acc.issues
        /\ known.known = acc.known \cup {k.code}
    BY <2>1
  <2>4. DOMAIN f[n] = {"known", "issues"}
    BY <2>1, <2>2, <2>3
  <2>5. ASSUME f[n].issues = {}
        PROVE  /\ \A i \in 1 .. n : InOrder(doc, i)
               /\ f[n].known = NamesOf(doc) \cup CodesUpTo(doc, n)
    <3> DEFINE listed == k.kind # "aggregate" /\ Range(k.args) \subseteq acc.known
               read == k.kind = "aggregate" /\ k.args[1] \in NamesOf(doc)
    <3>1. /\ acc.issues = {} /\ f[n].known = acc.known \cup {k.code}
          /\ listed \/ (read /\ AggregateIssues(doc, k) = {})
      <4>1. CASE f[n] = known /\ listed
        BY <2>3, <2>5, <4>1
      <4>2. CASE f[n] = [known EXCEPT !.issues = @ \cup {"derived_inputs"}]
        <5>1. f[n].issues = known.issues \cup {"derived_inputs"}
          BY <2>3, <4>2
        <5>2. QED
          BY <2>5, <5>1
      <4>3. CASE f[n] = [acc EXCEPT !.issues = @ \cup {"formula"}]
        <5>1. f[n].issues = acc.issues \cup {"formula"}
          BY <2>1, <4>3
        <5>2. QED
          BY <2>5, <5>1
      <4>4. CASE f[n] = [known EXCEPT !.issues = @ \cup AggregateIssues(doc, k)] /\ read
        <5>1. f[n].issues = known.issues \cup AggregateIssues(doc, k) /\ f[n].known = known.known
          BY <2>3, <4>4
        <5> HIDE DEF known
        <5>2. QED
          BY <2>3, <2>5, <4>4, <5>1
      <4> HIDE DEF known
      <4>5. QED
        BY <2>2, <4>1, <4>2, <4>3, <4>4
    <3>2. /\ \A i \in 1 .. (n - 1) : InOrder(doc, i)
          /\ acc.known = NamesOf(doc) \cup CodesUpTo(doc, n - 1)
      BY <1>4, <3>1
    <3>3. InOrder(doc, n)
      BY <3>1, <3>2 DEF InOrder
    <3>4. \A i \in 1 .. n : i = n \/ i \in 1 .. (n - 1)
      OBVIOUS
    <3>5. CodesUpTo(doc, n) = CodesUpTo(doc, n - 1) \cup {k.code}
      <4>1. n \in 1 .. n /\ 1 .. (n - 1) \subseteq 1 .. n
        OBVIOUS
      <4>2. QED
        BY <3>4, <4>1 DEF CodesUpTo
    <3>6. QED
      BY <3>1, <3>2, <3>3, <3>4, <3>5
  <2>6. QED
    BY <2>4, <2>5
<1>5. Fine(N)
  <2> HIDE DEF Fine, N
  <2>1. D \in SUBSET (0 .. N) /\ 0 \in D /\ \A n \in 1 .. N : n - 1 \in D => n \in D
    BY <1>1, <1>3, <1>4
  <2> HIDE DEF D
  <2>2. D = 0 .. N
    BY <1>1, <2>1, Induction
  <2>3. QED
    BY <1>1, <2>2 DEF D
<1>6. QED
  BY <1>2, <1>5 DEF JudgeGoes

\* KPI of known kinds that mean what they say, none of them twice.
GoodKpi(k) ==
    /\ k.kind \in {"aggregate", "difference", "ratio", "share"}
    /\ k.kind = "aggregate" => SemanticRole(k.words, {}, k.role) = k.role

GoodKpis(kpis) ==
    /\ kpis \in Seq(Range(kpis))
    /\ \A k \in Range(kpis) : GoodKpi(k)
    /\ SaidOnce(kpis)

\* Each KPI in which the validator finds nothing wrong has a recipe: none is refused,
\* and none is taken for another one.
LEMMA AllHaveRecipes ==
  ASSUME NEW doc, GoodKpis(doc.kpis), KpiIssues(doc) = {},
         NEW measures, DOMAIN measures = NamesOf(doc)
  PROVE  Recipes!Compile(measures, doc.kpis) = [recipes |-> doc.kpis, issues |-> {}]
<1> DEFINE kpis == doc.kpis
           N == Len(kpis)
<1>1. N \in Nat /\ kpis \in Seq(Range(kpis)) /\ DOMAIN kpis = 1 .. N
  BY DEF GoodKpis
<1>2. PICK f : RecipesGo(f, measures, kpis)
  BY <1>1, RecipeSteps
<1>3. \A i \in 1 .. N : InOrder(doc, i) /\ kpis[i] \in Range(kpis) /\ GoodKpi(kpis[i])
  BY <1>1, NothingIsWrong DEF GoodKpis, Range
<1> DEFINE first(n) == SubSeq(kpis, 1, n)
           Right(n) == f[n] = [recipes |-> first(n), issues |-> {}]
           D == {n \in 0 .. N : Right(n)}
<1>4. Right(0)
  <2>1. first(0) = <<>>
    OBVIOUS
  <2>2. QED
    BY <1>2, <2>1 DEF RecipesGo
<1>5. ASSUME NEW n \in 1 .. N, Right(n - 1) PROVE Right(n)
  <2> DEFINE k == kpis[n]
             before == first(n - 1)
             acc == [recipes |-> before, issues |-> {}]
  <2>1. f[n] = Recipes!CompileOne(measures, acc, k)
    BY <1>2, <1>5 DEF RecipesGo
  <2>2. /\ DOMAIN before = 1 .. (n - 1) /\ \A i \in 1 .. (n - 1) : before[i] = kpis[i]
        /\ first(n) = Append(before, k)
    OBVIOUS
  <2> HIDE DEF before
  <2>3. Recipes!RecipeCodes(before) = CodesUpTo(doc, n - 1)
    BY <2>2 DEF Recipes!RecipeCodes, CodesUpTo
  <2>4. CASE k.kind = "aggregate"
    <3>1. /\ k.args[1] \in NamesOf(doc) /\ AggregateIssues(doc, k) = {}
          /\ GoodKpi(k)
      BY <1>3, <2>4 DEF InOrder
    <3>2. /\ SemanticRole(k.words, {}, k.role) = JudgedRole(Meant(doc, k.args[1]))
          /\ k.args[2] \in AggregationsOf(SemanticRole(k.words, {}, k.role))
      BY <3>1 DEF AggregateIssues
    <3>3. k.args[2] \in Recipes!Operations
      BY <3>2 DEF AggregationsOf, Recipes!Operations
    <3>4. ASSUME NEW i \in 1 .. (n - 1), kpis[i].kind = "aggregate", kpis[i].args = k.args
          PROVE  FALSE
      <4>1. i \in 1 .. N
        OBVIOUS
      <4>2. AggregateIssues(doc, kpis[i]) = {} /\ GoodKpi(kpis[i])
        BY <1>3, <3>4, <4>1 DEF InOrder
      <4>3. SemanticRole(kpis[i].words, {}, kpis[i].role) = JudgedRole(Meant(doc, kpis[i].args[1]))
        BY <4>2 DEF AggregateIssues
      <4>4. kpis[i].role = k.role
        BY <2>4, <3>1, <3>2, <3>4, <4>2, <4>3 DEF GoodKpi
      <4>5. ~ SaidTwice(kpis[i], kpis[n])
        BY <1>1 DEF GoodKpis, SaidOnce
      <4>6. QED
        BY <2>4, <3>4, <4>4, <4>5 DEF SaidTwice
    <3>5. ~ Recipes!Repeats(before, k)
      BY <2>2, <3>4 DEF Recipes!Repeats
    <3>6. f[n] = [acc EXCEPT !.recipes = Append(@, k)]
      BY <2>1, <2>4, <3>1, <3>3, <3>5 DEF Recipes!CompileOne
    <3>7. QED
      BY <2>2, <3>6
  <2>5. CASE k.kind # "aggregate"
    <3>1. Range(k.args) \subseteq NamesOf(doc) \cup CodesUpTo(doc, n - 1) /\ GoodKpi(k)
      BY <1>3, <2>5 DEF InOrder
    <3>2. k.kind \in Recipes!DerivedKinds
      BY <2>5, <3>1 DEF GoodKpi, Recipes!DerivedKinds
    <3>3. f[n] = [acc EXCEPT !.recipes = Append(@, k)]
      BY <2>1, <2>3, <2>5, <3>1, <3>2 DEF Recipes!CompileOne, Recipes!Range, Range
    <3>4. QED
      BY <2>2, <3>3
  <2>6. QED
    BY <2>4, <2>5
<1>6. Right(N)
  <2> HIDE DEF Right, N
  <2>1. D \in SUBSET (0 .. N) /\ 0 \in D /\ \A n \in 1 .. N : n - 1 \in D => n \in D
    BY <1>1, <1>4, <1>5
  <2> HIDE DEF D
  <2>2. D = 0 .. N
    BY <1>1, <2>1, Induction
  <2>3. QED
    BY <1>1, <2>2 DEF D
<1>7. first(N) = kpis
  BY <1>1
<1>8. QED
  BY <1>2, <1>6, <1>7 DEF RecipesGo

-----------------------------------------------------------------------------
(* The KPI of a document *)

\* The role that was found is found again.
LEMMA RolesAreStable ==
  ASSUME NEW words, NEW declared, SemanticRole(words, {}, declared) \in Roles
  PROVE  SemanticRole(words, {}, SemanticRole(words, {}, declared)) = SemanticRole(words, {}, declared)
<1> DEFINE role == SemanticRole(words, {}, declared)
<1>1. "unsupported" \notin Roles
  BY DEF Roles, Magnitudes, Money, Counts
<1>2. role # "unsupported"
  BY <1>1
<1>3. SemanticRole(words, {}, role) \in {"unsupported", role}
  <2> HIDE DEF role
  <2>1. role \in Roles
    BY DEF role
  <2>2. QED
    BY <2>1 DEF SemanticRole
<1>4. SemanticRole(words, {}, role) = "unsupported" => role = "unsupported"
  <2> DEFINE out(d) == SemanticRole(words, {}, d) = "unsupported"
             No == \/ Speaks({}, {"tax", "freight"})
                   \/ Speaks(words, {"tax", "freight"}) /\ "included" \notin words
                   \/ "rate" \in words \cup {} /\ ~ Speaks(words \cup {}, {"amount", "total", "sales", "venta"})
  <2>1. \A d : No => SemanticRole(words, {}, d) = "unsupported"
    BY DEF SemanticRole
  <2>2. ~ No => SemanticRole(words, {}, role) = role
    <3> HIDE DEF role
    <3>1. role \in Roles
      BY DEF role
    <3>2. QED
      BY <3>1 DEF SemanticRole
  <2>3. QED
    BY <2>1, <2>2
<1>5. QED
  BY <1>2, <1>3, <1>4

\* The measures that a provider's answer becomes have roles that are known.
LEMMA MeasuresHaveRoles ==
  ASSUME NEW bp, IsBlueprint(bp), NEW scope, NEW own \in Expanded(bp, scope),
         NEW m \in Range(own.measures)
  PROVE  m.role \in Roles /\ (m.operation = "direct" => Len(m.inputs) = 1)
<1> DEFINE became(i) == Became(Reading(bp.measures[i], bp.fact), bp.fact, LineGrain(bp))
<1>1. PICK i : Kept(Reading(bp.measures[i], bp.fact), bp.fact) /\ m = became(i)
  BY DocumentMeasuresAre
<1> DEFINE x == Reading(bp.measures[i], bp.fact)
<1> HIDE DEF x
<1>2. Kept(x, bp.fact) /\ m = CompileMeasure(x, CalledOf(x, LineGrain(bp)), bp.fact)
  BY <1>1 DEF Became, x
<1>3. x.role \in Roles
  BY <1>2 DEF Kept, Acceptable
<1>4. x.calc # Direct => x.calc.operation # "direct"
  BY <1>2 DEF Kept, CalculationAllowed
<1>5. /\ m.role = x.role /\ m.operation = x.calc.operation
      /\ x.calc = Direct => Len(m.inputs) = 1
  BY <1>2 DEF CompileMeasure
<1>6. QED
  BY <1>3, <1>4, <1>5

\* The KPI that a provider's answer becomes are good ones.
LEMMA OwnKpisAreGood ==
  ASSUME NEW bp, IsBlueprint(bp), NEW scope, NEW own \in Expanded(bp, scope)
  PROVE  GoodKpis(own.kpis)
<1> DEFINE readings == Readings(bp)
           kept == KeptOf(readings, bp.fact)
<1>1. /\ own.measures \in Seq(Range(own.measures))
      /\ own.kpis \in Seq(Range(own.kpis)) /\ SaidOnce(own.kpis)
  BY ExpandedIs
<1>2. ASSUME NEW k \in Range(own.kpis) PROVE GoodKpi(k)
  <2>1. PICK given \in Range(bp.kpis) : k \in CompileKpi(readings, kept, own.measures, given)
    <3>1. /\ own.kpis = CompileKpis(bp.kpis, readings, kept, own.measures)
          /\ bp.kpis \in Seq(Range(bp.kpis))
      BY ExpandedParts DEF IsBlueprint
    <3>2. QED
      BY <1>1, <3>1, CompiledKpisAre
  <2>2. PICK m \in MeasureOf(readings, kept, own.measures, given.measure) :
            Meets(given, m) /\ k \in KpiOf(given, m, own.measures)
    BY <2>1 DEF CompileKpi
  <2>3. /\ k.kind \in {"aggregate", "ratio"} /\ k.role = m.role /\ k.words = given.words
    BY <2>2 DEF KpiOf, Kpi
  <2>4. m.role \in Roles
    <3> DEFINE i == given.measure
    <3>1. i \in DOMAIN readings
      BY <2>2 DEF MeasureOf
    <3>2. CASE i \in kept
      <4>1. m = own.measures[PlaceOf(kept, i)]
        BY <2>2, <3>1, <3>2 DEF MeasureOf, PlaceOf
      <4>2. m \in Range(own.measures)
        <5> HIDE DEF kept, readings
        <5>1. QED
          BY <3>2, <4>1, DocumentMeasuresAre DEF kept, readings
      <4>3. QED
        BY <4>2, MeasuresHaveRoles
    <3>3. CASE i \notin kept
      <4>1. m \in Sales(own.measures)
        BY <2>2, <3>1, <3>3 DEF MeasureOf
      <4>2. m.role = "sales_amount"
        BY <4>1 DEF Sales, WithRole, FirstAt
      <4>3. QED
        BY <4>2 DEF Roles, Magnitudes, Money
    <3>4. QED
      BY <3>2, <3>3
  <2>5. m.role = SemanticRole(given.words, {}, given.role)
    BY <2>2 DEF Meets
  <2>6. SemanticRole(k.words, {}, k.role) = k.role
    BY <2>3, <2>4, <2>5, RolesAreStable
  <2>7. QED
    BY <2>3, <2>6 DEF GoodKpi
<1>3. QED
  BY <1>1, <1>2 DEF GoodKpis

\* So are those of the formulas.
LEMMA FormulasAreGood ==
  ASSUME NEW measures, measures \in Seq(Range(measures)), NEW n \in 1 .. 7,
         NEW k \in KpiOfFormula(Formulas[n], measures)
  PROVE  GoodKpi(k)
<1> DEFINE f == Formulas[n]
<1>1. PICK x \in Inputs(measures, f.x) :
          /\ k.kind = f.kind /\ k.words = f.words
          /\ k.role = IF f.kind = "aggregate" THEN x.role ELSE "none"
  BY DEF KpiOfFormula, Kpi
<1>2. \/ f.kind \in {"difference", "ratio", "share"}
      \/ f.kind = "aggregate" /\ f.x = "cost" /\ f.words = {"cost", "total"}
      \/ f.kind = "aggregate" /\ f.x = "discount" /\ f.words = {"discount"}
  <2>1. n = 1 \/ n = 2 \/ n = 3 \/ n = 4 \/ n = 5 \/ n = 6 \/ n = 7
    OBVIOUS
  <2>2. QED
    BY <2>1 DEF Formulas, F
<1> HIDE DEF f
<1>3. \A role : \A m \in Of(measures, role) : m.role = role
  BY DEF Of, FirstAt
<1>4. CASE f.kind \in {"difference", "ratio", "share"}
  BY <1>1, <1>4 DEF GoodKpi
<1>5. CASE f.kind = "aggregate" /\ f.x = "cost" /\ f.words = {"cost", "total"}
  <2>1. k.role = "cost_amount"
    BY <1>1, <1>3, <1>5 DEF Inputs
  <2>2. SemanticRole({"cost", "total"}, {}, "cost_amount") = "cost_amount"
    BY DEF SemanticRole, Speaks, Roles, Magnitudes, Money
  <2>3. QED
    BY <1>1, <1>5, <2>1, <2>2 DEF GoodKpi
<1>6. CASE f.kind = "aggregate" /\ f.x = "discount" /\ f.words = {"discount"}
  <2>1. k.role = "discount_amount"
    BY <1>1, <1>3, <1>6 DEF Inputs
  <2>2. SemanticRole({"discount"}, {}, "discount_amount") = "discount_amount"
    BY DEF SemanticRole, Speaks, Roles, Magnitudes, Money
  <2>3. QED
    BY <1>1, <1>6, <2>1, <2>2 DEF GoodKpi
<1>7. QED
  BY <1>2, <1>4, <1>5, <1>6

\* And formulas leave good KPI good.
LEMMA FormulasKeepGood ==
  ASSUME NEW doc, ListsBoth(doc), GoodKpis(doc.kpis), NEW goals, NEW scope
  PROVE  GoodKpis(WithFormulas(doc, goals, scope).kpis)
<1>1. CASE IsFinancial(goals)
  <2>1. PICK W : FormulaSteps(W, doc, goals, scope)
    BY <1>1, FormulasOneByOne
  <2> DEFINE Good(m) == \A k \in Range(W[m]) : GoodKpi(k)
  <2>2. Good(0)
    BY <2>1 DEF FormulaSteps, GoodKpis
  <2>3. ASSUME NEW m \in 1 .. 7, Good(m - 1) PROVE Good(m)
    BY <2>1, <2>3, FormulasAreGood DEF FormulaSteps, ListsBoth
  <2> HIDE DEF Good
  <2>4. Good(7)
    <3>1. Good(0) => Good(1)
      BY <2>3
    <3>2. Good(1) => Good(2)
      BY <2>3
    <3>3. Good(2) => Good(3)
      BY <2>3
    <3>4. Good(3) => Good(4)
      BY <2>3
    <3>5. Good(4) => Good(5)
      BY <2>3
    <3>6. Good(5) => Good(6)
      BY <2>3
    <3>7. Good(6) => Good(7)
      BY <2>3
    <3>8. QED
      BY <2>2, <3>1, <3>2, <3>3, <3>4, <3>5, <3>6, <3>7
  <2>5. QED
    BY <2>1, <2>4 DEF FormulaSteps, GoodKpis, Good
<1>2. CASE ~ IsFinancial(goals)
  BY <1>2 DEF WithFormulas, IsFinancial
<1>3. QED
  BY <1>1, <1>2

-----------------------------------------------------------------------------
(* What may be approved can be loaded *)

\* A plain measure reads one column.
ReadsOne(m) == m.operation = "direct" => Len(m.inputs) = 1

\* So do those that the source proves.
LEMMA ProvenReadOne ==
  ASSUME NEW doc, NEW goals, NEW scope,
         NEW m \in ProvenQuantity(doc) \cup ProvenCost(doc, goals, scope) \cup ProvenDiscount(doc, goals)
  PROVE  ReadsOne(m)
<1>1. CASE m \in ProvenQuantity(doc)
  <2>1. m = [Built("unidades_vendidas", {"quantity"}, "quantity", "direct")
                EXCEPT !.inputs = [i \in DOMAIN <<QuantityColumns(doc)>> |->
                                      CHOOSE c \in <<QuantityColumns(doc)>>[i] : TRUE]]
    BY <1>1, ProvenByIs DEF ProvenQuantity
  <2> DEFINE inputs == [i \in DOMAIN <<QuantityColumns(doc)>> |->
                           CHOOSE c \in <<QuantityColumns(doc)>>[i] : TRUE]
  <2>2. inputs = [i \in 1 .. 1 |-> inputs[i]]
    OBVIOUS
  <2> HIDE DEF inputs
  <2>3. Len(inputs) = 1
    BY <2>2, FunctionsAreSequences
  <2>4. m.inputs = inputs
    BY <2>1 DEF Built, inputs
  <2>5. QED
    BY <2>3, <2>4 DEF ReadsOne
<1>2. CASE m \in ProvenCost(doc, goals, scope)
  <2>1. m.operation = "multiply"
    BY <1>2, ProvenByIs DEF ProvenCost, Built
  <2>2. QED
    BY <2>1 DEF ReadsOne
<1>3. CASE m \in ProvenDiscount(doc, goals)
  <2>1. m.operation = "multiply"
    BY <1>3, ProvenByIs DEF ProvenDiscount, Built
  <2>2. QED
    BY <2>1 DEF ReadsOne
<1>4. QED
  BY <1>1, <1>2, <1>3

LEMMA EnrichedReadOne ==
  ASSUME NEW own, ListsBoth(own), \A m \in Range(own.measures) : ReadsOne(m), NEW goals, NEW scope
  PROVE  \A m \in Range(WithMeasures(own, goals, scope).measures) : ReadsOne(m)
<1> DEFINE first  == Ensure(own.measures, ProvenQuantity(own))
           second == Ensure(first, ProvenCost(own, goals, scope))
           third  == Ensure(second, ProvenDiscount(own, goals))
<1>1. CASE goals \cap FinancialGoals = {}
  BY <1>1 DEF WithMeasures
<1>2. CASE goals \cap FinancialGoals # {}
  <2>1. WithMeasures(own, goals, scope).measures = third
    BY <1>2 DEF WithMeasures, ListsBoth
  <2>2. /\ first \in Seq(Range(first))
        /\ Range(first) \subseteq Range(own.measures) \cup ProvenQuantity(own)
    BY ProvenAre, EnsureIs DEF ListsBoth
  <2> HIDE DEF first
  <2>3. /\ second \in Seq(Range(second))
        /\ Range(second) \subseteq Range(first) \cup ProvenCost(own, goals, scope)
    BY <2>2, ProvenAre, EnsureIs
  <2> HIDE DEF second
  <2>4. Range(third) \subseteq Range(second) \cup ProvenDiscount(own, goals)
    BY <2>3, ProvenAre, EnsureIs
  <2> HIDE DEF third
  <2>5. QED
    BY <2>1, <2>2, <2>3, <2>4, ProvenReadOne
<1>3. QED
  BY <1>1, <1>2

\* What a document is, whatever was answered and revised.
LEMMA DocumentsAre ==
  ASSUME NEW bp, IsBlueprint(bp), NEW assessment, NEW scope,
         NEW doc \in Compiled(bp, assessment, scope)
  PROVE  /\ doc.fact = bp.fact
         /\ GoodKpis(doc.kpis)
         /\ \A m \in Range(doc.measures) : ReadsOne(m)
<1> DEFINE goals == GoalsOf(assessment)
<1>1. PICK own \in Expanded(bp, scope) :
          doc = WithFormulas(WithMeasures(own, goals, scope), goals, scope)
  BY DEF Compiled
<1>2. /\ ListsBoth(own) /\ {"dimensions", "fact"} \subseteq DOMAIN own
      /\ own.fact = bp.fact
  <2>1. own.fact = bp.fact
    <3>1. own = WithKpis(bp, Readings(bp), Measured(bp, Readings(bp), scope))
      BY DEF Expanded
    <3> DEFINE mid == Measured(bp, Readings(bp), scope)
    <3>2. mid.fact = bp.fact /\ {"fact", "kpis", "warned"} \subseteq DOMAIN mid
      BY DEF Measured
    <3> HIDE DEF mid
    <3>3. WithKpis(bp, Readings(bp), mid).fact = mid.fact
      BY <3>2 DEF WithKpis
    <3>4. QED
      BY <3>1, <3>2, <3>3 DEF mid
  <2>2. QED
    BY <2>1, ExpandedIs DEF ListsBoth
<1>3. \A m \in Range(own.measures) : ReadsOne(m)
  BY MeasuresHaveRoles DEF ReadsOne
<1> HIDE DEF goals
<1> DEFINE mid == WithMeasures(own, goals, scope)
<1>4. /\ ListsBoth(mid) /\ DOMAIN mid = DOMAIN own /\ mid.kpis = own.kpis
      /\ \A m \in Range(mid.measures) : ReadsOne(m)
  BY <1>2, <1>3, MeasuresStayListed, EnrichedReadOne
<1>5. mid.fact = own.fact
  BY <1>2 DEF WithMeasures
<1> HIDE DEF mid
<1>6. doc = WithFormulas(mid, goals, scope)
  BY <1>1 DEF mid
<1>7. doc.fact = mid.fact /\ doc.measures = mid.measures
  <2>1. doc = mid \/ \E kpis : doc = [mid EXCEPT !.kpis = kpis]
    BY <1>6 DEF WithFormulas
  <2>2. {"fact", "measures", "kpis"} \subseteq DOMAIN mid
    BY <1>2, <1>4 DEF ListsBoth
  <2>3. \A kpis : LET new == [mid EXCEPT !.kpis = kpis]
                  IN  new.fact = mid.fact /\ new.measures = mid.measures
    BY <2>2
  <2>4. QED
    BY <2>1, <2>3
<1>8. GoodKpis(doc.kpis)
  BY <1>4, <1>6, OwnKpisAreGood, FormulasKeepGood
<1>9. QED
  BY <1>2, <1>4, <1>5, <1>7, <1>8

\* What can be reached within a scope can be reached in the whole source.
LEMMA ReachableGrows ==
  ASSUME NEW scope \in SUBSET Tables, NEW t \in Tables
  PROVE  Reachable(t, scope) \subseteq Reachable(t, Tables)
<1> DEFINE n == Cardinality(scope)
           N == Cardinality(Tables)
           W == Within(t, scope)
           All == Within(t, Tables)
           In(m) == W[m] \subseteq All[m]
           D == {m \in 0 .. n : In(m)}
<1>1. n \in Nat /\ N \in Nat /\ n <= N
  BY ScopesAreFinite, StructureAssumption, FS_Subset
<1>2. \A u : Neighbours(u, scope) \subseteq Neighbours(u, Tables)
  BY DEF Neighbours, RelationsIn
<1>3. /\ W[0] = {t}
      /\ \A m \in 1 .. n : W[m] = W[m - 1] \cup UNION {Neighbours(u, scope) : u \in W[m - 1]}
  BY WithinIs
<1>4. /\ All[0] = {t}
      /\ \A m \in 1 .. N :
            All[m] = All[m - 1] \cup UNION {Neighbours(u, Tables) : u \in All[m - 1]}
  BY WithinIs
<1>5. \A m \in 0 .. N : All[m] \subseteq All[N]
  <2>1. N \in 0 .. N
    BY <1>1
  <2>2. QED
    BY <2>1, WithinGrows
<1>6. Reachable(t, scope) = W[n] /\ Reachable(t, Tables) = All[N]
  BY DEF Reachable, Reached
<1> HIDE DEF n, N, W, All
<1>7. In(0)
  BY <1>3, <1>4
<1>8. ASSUME NEW m \in 1 .. n, In(m - 1) PROVE In(m)
  <2>1. m \in 1 .. N
    BY <1>1
  <2>2. QED
    BY <1>2, <1>3, <1>4, <1>8, <2>1
<1>9. In(n)
  <2> HIDE DEF In
  <2>1. D \in SUBSET (0 .. n) /\ 0 \in D /\ \A m \in 1 .. n : m - 1 \in D => m \in D
    BY <1>1, <1>7, <1>8
  <2> HIDE DEF D
  <2>2. D = 0 .. n
    BY <1>1, <2>1, Induction
  <2>3. QED
    BY <1>1, <2>2 DEF D
<1>10. n \in 0 .. N
  BY <1>1
<1>11. QED
  BY <1>5, <1>6, <1>9, <1>10

\* The plan of a load takes what the validator found nothing wrong in, though it looks
\* for columns and tables in the whole source.
LEMMA ValidIsPlannable ==
  ASSUME NEW doc, NEW scope \in SUBSET Tables, doc.fact \in Tables,
         MeasureIssues(doc, scope) = {}, DimensionIssues(doc, scope) = {},
         \A m \in Range(doc.measures) : ReadsOne(m),
         \A d \in doc.dimensions : d.source \in Reachable(doc.fact, Tables)
  PROVE  Plannable(doc)
<1>1. ASSUME NEW d \in doc.dimensions PROVE DimensionPlanned(d, doc.fact)
  <2>1. Failed(DimensionChecks(d, scope)) = {}
    BY DEF DimensionIssues
  <2>2. ~ DimensionChecks(d, scope).display_column_unknown
    BY <2>1 DEF Failed, DimensionChecks
  <2>3. ~ DimensionChecks(d, scope).display_relation_unknown
    BY <2>1 DEF Failed, DimensionChecks
  <2>4. \A v \in d.label : v.columns # {} /\ v.columns \subseteq ColumnsOf(v.table)
    BY <2>2 DEF DimensionChecks
  <2>5. \A v \in d.label : \/ v.table = d.source
                            \/ \E k \in Relations : /\ k.from = d.source /\ k.to = v.table
                                                     /\ k.columns = v.left /\ k.referenced = v.right
    BY <2>3 DEF DimensionChecks
  <2>6. \A v \in d.label : VariantDeclared(d, v)
    BY <2>4, <2>5 DEF VariantDeclared
  <2>7. QED
    BY <2>6 DEF DimensionPlanned
<1>2. ASSUME NEW m \in Range(doc.measures) PROVE MeasurePlanned(m, doc.fact)
  <2>1. Failed(MeasureChecks(doc, m, scope)) = {}
    BY DEF MeasureIssues
  <2>2. ~ MeasureChecks(doc, m, scope).column_unknown
    BY <2>1 DEF Failed, MeasureChecks
  <2>3. ~ MeasureChecks(doc, m, scope).calculation_operation
    BY <2>1 DEF Failed, MeasureChecks
  <2>4. ~ MeasureChecks(doc, m, scope).calculation_arity
    BY <2>1 DEF Failed, MeasureChecks
  <2>5. \A c \in Range(m.inputs) : Located(doc, c, scope)
    BY <2>2 DEF MeasureChecks
  <2>6. m.operation # "direct" =>
            /\ m.operation \in {"multiply", "add", "subtract", "divide"}
            /\ Len(m.inputs) \in 2 .. 4
            /\ m.operation \in {"subtract", "divide"} => Len(m.inputs) = 2
    BY <2>3, <2>4 DEF MeasureChecks
  <2>7. \A c \in Range(m.inputs) : TableOf(c) \in Reachable(doc.fact, Tables)
    <3> SUFFICES ASSUME NEW c \in Range(m.inputs) PROVE TableOf(c) \in Reachable(doc.fact, Tables)
      OBVIOUS
    <3>1. PICK t \in scope : c \in ColumnsOf(t) /\ t \in Reachable(doc.fact, scope)
      BY <2>5 DEF Located
    <3>2. TableOf(c) \in Tables /\ c \in ColumnsOf(TableOf(c))
      BY <3>1 DEF TableOf
    <3>3. TableOf(c) = t
      BY <3>1, <3>2, ColumnsAssumption
    <3>4. QED
      BY <3>1, <3>3, ReachableGrows
  <2>8. QED
    BY <2>6, <2>7 DEF MeasurePlanned, ReadsOne
<1>3. QED
  BY <1>1, <1>2 DEF Plannable

\* A version that may be approved and is not blocked can be loaded when its dimensions
\* can be reached, whatever was answered and revised: its columns are where the plan
\* looks for them, each of its KPI has a recipe and none is taken for another one, so
\* that the selection answers all of its financial goals (assess_dimensional_readiness,
\* compile_kpi_catalog, build_materialization_plan).
THEOREM ApprovableIsLoaded == Spec => []ApprovableCanBeLoaded
<1>1. SInv => ApprovableCanBeLoaded
  <2> SUFFICES ASSUME SInv, NEW i \in Newest, NEW v, v = versions[i],
                      v.status = "ready_for_review",
                      \A d \in v.document.dimensions : d.source \in Reachable(v.document.fact, Tables)
               PROVE  CanBeLoaded(v.document, GoalsOf(AssessmentOf(v)))
    BY DEF ApprovableCanBeLoaded
  <2>1. VersionFits(v) /\ v.document # NoDocument
    BY DEF Newest, SInv, VersionsFit
  <2>2. CompiledFrom(v) /\ v.scope \in SUBSET Tables /\ v.issues = {}
    BY <2>1 DEF VersionFits
  <2> DEFINE doc == v.document
  <2>3. /\ doc.fact = v.blueprint.fact /\ doc.fact \in Tables
        /\ GoodKpis(doc.kpis) /\ \A m \in Range(doc.measures) : ReadsOne(m)
    BY <2>2, DocumentsAre DEF CompiledFrom
  <2>4. Issues(doc, AssessmentOf(v), v.scope) = {}
    BY <2>2 DEF CompiledFrom
  <2>5. /\ MeasureIssues(doc, v.scope) = {} /\ DimensionIssues(doc, v.scope) = {}
        /\ KpiIssues(doc) = {} /\ doc.kpis # <<>>
    BY <2>4 DEF Issues
  <2> HIDE DEF doc
  <2>6. Plannable(doc)
    BY <2>2, <2>3, <2>5, ValidIsPlannable DEF doc
  <2>7. DOMAIN MeasureMap(doc) = NamesOf(doc)
    BY DEF MeasureMap, NamesOf
  <2>8. Recipes!Compile(MeasureMap(doc), doc.kpis) = [recipes |-> doc.kpis, issues |-> {}]
    BY <2>3, <2>5, <2>7, AllHaveRecipes
  <2>9. Recipes!Executable(MeasureMap(doc), doc.kpis)
    BY <2>5, <2>8 DEF Recipes!Executable
  <2>10. Recipes!CompleteSelection(GoalsOf(AssessmentOf(v)), doc.kpis, Recipes!RecipeCodes(doc.kpis))
    BY DEF Recipes!CompleteSelection, Recipes!RequiredCodes
  <2>11. CanBeLoaded(doc, GoalsOf(AssessmentOf(v)))
    BY <2>6, <2>8, <2>9, <2>10 DEF CanBeLoaded
  <2>12. QED
    BY <2>11 DEF doc
<1>2. QED
  BY <1>1, SInvAlways, PTL
=============================================================================
