---------------------------- MODULE BillShareProofs ----------------------------
(***************************************************************************)
(* The charges of a month for any cohort, plans, closures and expenses:    *)
(* they add up to the expenses, each is within a cent of the exact share,  *)
(* and a student charged for fewer days never pays more.                   *)
(***************************************************************************)
EXTENDS BillShare, FiniteSetTheorems, FunctionTheorems, TLAPS

(* ---- sums over finite sets ---- *)

\* Among finite sets of a non-empty collection one has no strict subset in it.
LEMMA SmallestSet ==
    ASSUME NEW C, C # {}, \A T \in C : IsFiniteSet(T)
    PROVE  \E T \in C : \A U \in C : U \subseteq T => U = T
<1> DEFINE S == UNION C
<1>1. IsWellFoundedOn(StrictSubsetOrdering(S), FiniteSubsetsOf(S))
  BY FS_StrictSubsetOrderingWellFounded
<1>2. C \subseteq FiniteSubsetsOf(S)
  BY DEF FiniteSubsetsOf
<1>3. PICK T \in C : \A U \in C : <<U, T>> \notin StrictSubsetOrdering(S)
  BY <1>1, <1>2, WFMin
<1> QED BY <1>3 DEF StrictSubsetOrdering

\* Every non-empty set of naturals has a least member.
LEMMA LeastNatural ==
    ASSUME NEW T \in SUBSET Nat, T # {}
    PROVE  \E n \in T : \A m \in T : n <= m
<1> DEFINE C == {I \in SUBSET Nat : \E n \in T : I = 0..n}
<1>2. C # {}
  <2>1. PICK n \in T : TRUE
    OBVIOUS
  <2>2. 0..n \in C
    OBVIOUS
  <2> QED BY <2>2
<1>3. \A I \in C : IsFiniteSet(I)
  <2>1. \A n \in Nat : IsFiniteSet(0..n)
    BY FS_Interval
  <2> QED BY <2>1
<1>4. \E I \in C : \A J \in C : J \subseteq I => J = I
  <2> HIDE DEF C
  <2> QED BY <1>2, <1>3, SmallestSet
<1>5. PICK I \in C : \A J \in C : J \subseteq I => J = I
  BY <1>4
<1>6. PICK n \in T : I = 0..n
  OBVIOUS
<1>7. ASSUME NEW m \in T, m < n PROVE FALSE
  <2>1. 0..m \in C /\ 0..m \subseteq 0..n /\ n \in 0..n /\ n \notin 0..m
    BY <1>7
  <2> QED BY <2>1, <1>5, <1>6
<1> QED BY <1>7

\* The element a sum takes from a set, and what it leaves.
Pick(T) == CHOOSE x \in T : TRUE

Rest(T) == T \ {Pick(T)}

\* Induction over the subsets of a finite set.
LEMMA SubsetInduction ==
    ASSUME NEW S, IsFiniteSet(S), NEW Good \in SUBSET SUBSET S, {} \in Good,
           \A T \in SUBSET S : T # {} /\ Rest(T) \in Good => T \in Good
    PROVE  Good = SUBSET S
<1>1. SUFFICES ASSUME Good # SUBSET S PROVE FALSE
  OBVIOUS
<1> DEFINE Bad == (SUBSET S) \ Good
<1>2. \A T \in Bad : IsFiniteSet(T)
  BY FS_Subset
<1>3. \E T \in Bad : \A U \in Bad : U \subseteq T => U = T
  <2>1. Bad # {}
    BY <1>1
  <2> HIDE DEF Bad
  <2> QED BY <1>2, <2>1, SmallestSet
<1>4. PICK T \in Bad : \A U \in Bad : U \subseteq T => U = T
  BY <1>3
<1>5. T # {} /\ Rest(T) \in Bad
  BY DEF Rest
<1>6. Pick(T) \in T
  BY <1>5 DEF Pick
<1> QED BY <1>4, <1>5, <1>6 DEF Rest

Body(f, h, T) == IF T = {} THEN 0 ELSE f[Pick(T)] + h[Rest(T)]

Sums(f, S) == CHOOSE h : h = [T \in SUBSET S |-> Body(f, h, T)]

\* The library's sum over a function is the choice of a function on subsets.
LEMMA SumUnfold == ASSUME NEW f PROVE SumFunction(f) = Sums(f, DOMAIN f)[DOMAIN f]
  BY DEF SumFunction, SumFunctionOnSet, FoldFunctionOnSet, MapThenFoldSet, Sums, Body, Pick, Rest

\* That function exists, so the choice makes it.
LEMMA SumsExist ==
    ASSUME NEW S, IsFiniteSet(S), NEW f \in [S -> Int]
    PROVE  \E h \in [SUBSET S -> Int] : \A T \in SUBSET S : h[T] = Body(f, h, T)
<1> DEFINE Upto(h, n) == \A T \in SUBSET S : Cardinality(T) <= n => h[T] = Body(f, h, T)
           Missing == {n \in Nat : ~ \E h \in [SUBSET S -> Int] : Upto(h, n)}
<1>1. \A T \in SUBSET S : IsFiniteSet(T) /\ Cardinality(T) \in Nat
  BY FS_Subset, FS_CardinalityType
<1>2. \A T \in SUBSET S : T # {} =>
          /\ Pick(T) \in T
          /\ Rest(T) \in SUBSET S
          /\ Cardinality(Rest(T)) = Cardinality(T) - 1
  BY <1>1, FS_RemoveElement DEF Pick, Rest
<1>3. 0 \notin Missing
  <2> DEFINE h == [T \in SUBSET S |-> 0]
  <2>1. \A T \in SUBSET S : Cardinality(T) <= 0 => T = {}
    BY <1>1, FS_EmptySet
  <2>2. h \in [SUBSET S -> Int] /\ Upto(h, 0)
    BY <2>1 DEF Body
  <2> QED BY <2>2
<1>4. ASSUME NEW n \in Nat, n \notin Missing PROVE n + 1 \notin Missing
  <2>1. PICK h \in [SUBSET S -> Int] : Upto(h, n)
    BY <1>4
  <2> DEFINE g == [T \in SUBSET S |-> IF Cardinality(T) <= n THEN h[T] ELSE Body(f, h, T)]
  <2>2. ASSUME NEW T \in SUBSET S PROVE Body(f, h, T) \in Int
    BY <1>2 DEF Body
  <2>3. g \in [SUBSET S -> Int]
    BY <2>2
  <2>4. ASSUME NEW T \in SUBSET S, Cardinality(T) <= n + 1 PROVE g[T] = Body(f, g, T)
    <3>1. g[T] = Body(f, h, T)
      BY <2>1
    <3>2. T # {} => g[Rest(T)] = h[Rest(T)]
      BY <1>1, <1>2, <2>4
    <3> QED BY <3>1, <3>2 DEF Body, Rest
  <2> QED BY <2>3, <2>4
<1>5. Missing = {}
  <2>1. SUFFICES ASSUME Missing # {} PROVE FALSE
    OBVIOUS
  <2>2. PICK n \in Missing : \A m \in Missing : n <= m
    <3>1. Missing \in SUBSET Nat
      OBVIOUS
    <3> HIDE DEF Missing
    <3> QED BY <2>1, <3>1, LeastNatural
  <2>3. n # 0
    BY <1>3
  <2>4. n \in Nat /\ n - 1 \in Nat /\ n = (n - 1) + 1
    BY <2>3
  <2>5. n - 1 \notin Missing
    <3> HIDE DEF Missing
    <3> QED BY <2>2, <2>4
  <2> HIDE DEF Missing
  <2> QED BY <2>2, <2>4, <2>5, <1>4
<1>6. PICK h \in [SUBSET S -> Int] : Upto(h, Cardinality(S))
  BY <1>1, <1>5
<1>7. \A T \in SUBSET S : Cardinality(T) <= Cardinality(S)
  BY FS_Subset
<1> QED BY <1>6, <1>7

\* What the sums over the subsets of a finite set are.
LEMMA SumEquations ==
    ASSUME NEW S, IsFiniteSet(S), NEW f \in [S -> Int]
    PROVE  /\ Sums(f, S)[{}] = 0
           /\ \A T \in SUBSET S : T # {} =>
                 /\ Rest(T) \in SUBSET S
                 /\ Pick(T) \in S
                 /\ Sums(f, S)[T] = f[Pick(T)] + Sums(f, S)[Rest(T)]
           /\ \A T \in SUBSET S : Sums(f, S)[T] \in Int
           /\ SumFunction(f) = Sums(f, S)[S]
<1>1. PICK h \in [SUBSET S -> Int] : \A T \in SUBSET S : h[T] = Body(f, h, T)
  BY SumsExist
<1>2. Sums(f, S) = [T \in SUBSET S |-> Body(f, Sums(f, S), T)]
  BY <1>1 DEF Sums
<1> DEFINE g == Sums(f, S)
<1>3. \A T \in SUBSET S : g[T] = Body(f, g, T)
  BY <1>2
<1>4. g[{}] = 0
  BY <1>3 DEF Body
<1>5. ASSUME NEW T \in SUBSET S, T # {}
      PROVE  Rest(T) \in SUBSET S /\ Pick(T) \in S /\ g[T] = f[Pick(T)] + g[Rest(T)]
  <2>1. Pick(T) \in T
    BY <1>5 DEF Pick
  <2>2. g[T] = Body(f, g, T)
    BY <1>3
  <2> HIDE DEF g
  <2> QED BY <1>5, <2>1, <2>2 DEF Body, Rest
<1>6. \A T \in SUBSET S : g[T] \in Int
  <2> HIDE DEF g
  <2> DEFINE Good == {T \in SUBSET S : g[T] \in Int}
  <2>1. {} \in Good
    BY <1>4
  <2>2. ASSUME NEW T \in SUBSET S, T # {}, Rest(T) \in Good PROVE T \in Good
    BY <1>5, <2>2
  <2>3. Good \in SUBSET SUBSET S
    OBVIOUS
  <2>4. Good = SUBSET S
    <3> HIDE DEF Good
    <3> QED BY <2>1, <2>2, <2>3, SubsetInduction
  <2> QED BY <2>4
<1>7. SumFunction(f) = g[S]
  BY SumUnfold
<1> HIDE DEF g
<1>8. /\ g[{}] = 0
      /\ \A T \in SUBSET S : T # {} =>
            Rest(T) \in SUBSET S /\ Pick(T) \in S /\ g[T] = f[Pick(T)] + g[Rest(T)]
      /\ \A T \in SUBSET S : g[T] \in Int
      /\ SumFunction(f) = g[S]
  BY <1>4, <1>5, <1>6, <1>7
<1> USE DEF g
<1> QED BY <1>8

\* A sum of integers is one.
LEMMA SumType ==
    ASSUME NEW S, IsFiniteSet(S), NEW f \in [S -> Int] PROVE SumFunction(f) \in Int
  BY SumEquations

\* The sum of two functions.
LEMMA SumAdd ==
    ASSUME NEW S, IsFiniteSet(S), NEW f \in [S -> Int], NEW g \in [S -> Int], NEW h \in [S -> Int],
           \A s \in S : h[s] = f[s] + g[s]
    PROVE  SumFunction(h) = SumFunction(f) + SumFunction(g)
<1> DEFINE F == Sums(f, S)
           G == Sums(g, S)
           H == Sums(h, S)
           Good == {T \in SUBSET S : H[T] = F[T] + G[T]}
<1>1. F[{}] = 0 /\ G[{}] = 0 /\ H[{}] = 0
  BY SumEquations
<1>2. ASSUME NEW T \in SUBSET S, T # {}
      PROVE  /\ Rest(T) \in SUBSET S /\ Pick(T) \in S
             /\ F[T] = f[Pick(T)] + F[Rest(T)]
             /\ G[T] = g[Pick(T)] + G[Rest(T)]
             /\ H[T] = h[Pick(T)] + H[Rest(T)]
  BY <1>2, SumEquations
<1>3. \A T \in SUBSET S : F[T] \in Int /\ G[T] \in Int /\ H[T] \in Int
  BY SumEquations
<1>4. SumFunction(f) = F[S] /\ SumFunction(g) = G[S] /\ SumFunction(h) = H[S]
  BY SumEquations
<1> HIDE DEF F, G, H
<1>5. {} \in Good
  BY <1>1
<1>6. ASSUME NEW T \in SUBSET S, T # {}, Rest(T) \in Good PROVE T \in Good
  BY <1>2, <1>3, <1>6
<1>7. Good = SUBSET S
  <2>1. Good \in SUBSET SUBSET S
    OBVIOUS
  <2> HIDE DEF Good
  <2> QED BY <1>5, <1>6, <2>1, SubsetInduction
<1> QED BY <1>4, <1>7

\* The sum of multiples.
LEMMA SumScaled ==
    ASSUME NEW S, IsFiniteSet(S), NEW g \in [S -> Int], NEW h \in [S -> Int],
           NEW c \in Int, \A s \in S : h[s] = c * g[s]
    PROVE  SumFunction(h) = c * SumFunction(g)
<1> DEFINE G == Sums(g, S)
           H == Sums(h, S)
           Good == {T \in SUBSET S : H[T] = c * G[T]}
<1>1. G[{}] = 0 /\ H[{}] = 0
  BY SumEquations
<1>2. ASSUME NEW T \in SUBSET S, T # {}
      PROVE  /\ Rest(T) \in SUBSET S /\ Pick(T) \in S
             /\ G[T] = g[Pick(T)] + G[Rest(T)]
             /\ H[T] = h[Pick(T)] + H[Rest(T)]
  BY <1>2, SumEquations
<1>3. \A T \in SUBSET S : G[T] \in Int /\ H[T] \in Int
  BY SumEquations
<1>4. SumFunction(g) = G[S] /\ SumFunction(h) = H[S]
  BY SumEquations
<1> HIDE DEF G, H
<1>5. {} \in Good
  BY <1>1
<1>6. ASSUME NEW T \in SUBSET S, T # {}, Rest(T) \in Good PROVE T \in Good
  <2>1. \A a, b \in Int : c * a + c * b = c * (a + b)
    OBVIOUS
  <2>2. H[T] = c * g[Pick(T)] + c * G[Rest(T)]
    BY <1>2, <1>6
  <2>3. g[Pick(T)] \in Int /\ G[Rest(T)] \in Int
    BY <1>2, <1>3, <1>6
  <2>4. H[T] = c * G[T]
    BY <1>2, <1>6, <2>1, <2>2, <2>3
  <2> QED BY <2>4
<1>7. Good = SUBSET S
  <2>1. Good \in SUBSET SUBSET S
    OBVIOUS
  <2> HIDE DEF Good
  <2> QED BY <1>5, <1>6, <2>1, SubsetInduction
<1> QED BY <1>4, <1>7

\* Larger summands, larger sums.
LEMMA SumMonotone ==
    ASSUME NEW S, IsFiniteSet(S), NEW f \in [S -> Int], NEW g \in [S -> Int],
           \A s \in S : f[s] <= g[s]
    PROVE  SumFunction(f) <= SumFunction(g)
<1> DEFINE F == Sums(f, S)
           G == Sums(g, S)
           Good == {T \in SUBSET S : F[T] <= G[T]}
<1>1. F[{}] = 0 /\ G[{}] = 0
  BY SumEquations
<1>2. ASSUME NEW T \in SUBSET S, T # {}
      PROVE  /\ Rest(T) \in SUBSET S /\ Pick(T) \in S
             /\ F[T] = f[Pick(T)] + F[Rest(T)]
             /\ G[T] = g[Pick(T)] + G[Rest(T)]
  BY <1>2, SumEquations
<1>3. \A T \in SUBSET S : F[T] \in Int /\ G[T] \in Int
  BY SumEquations
<1>4. SumFunction(f) = F[S] /\ SumFunction(g) = G[S]
  BY SumEquations
<1> HIDE DEF F, G
<1>5. {} \in Good
  BY <1>1
<1>6. ASSUME NEW T \in SUBSET S, T # {}, Rest(T) \in Good PROVE T \in Good
  BY <1>2, <1>3, <1>6
<1>7. Good = SUBSET S
  <2>1. Good \in SUBSET SUBSET S
    OBVIOUS
  <2> HIDE DEF Good
  <2> QED BY <1>5, <1>6, <2>1, SubsetInduction
<1> QED BY <1>4, <1>7

\* The indicator of a set of summands.
Indicator(S, A) == [s \in S |-> IF s \in A THEN 1 ELSE 0]

\* Counting is a sum.
LEMMA SumCounts ==
    ASSUME NEW S, IsFiniteSet(S), NEW A \in SUBSET S
    PROVE  SumFunction(Indicator(S, A)) = Cardinality(A)
<1> DEFINE f == Indicator(S, A)
           F == Sums(f, S)
           Good == {T \in SUBSET S : F[T] = Cardinality(A \cap T)}
<1>1. f \in [S -> Int] /\ (\A s \in S : f[s] = IF s \in A THEN 1 ELSE 0)
  BY DEF Indicator
<1> HIDE DEF f
<1>2. F[{}] = 0
  BY <1>1, SumEquations
<1>3. ASSUME NEW T \in SUBSET S, T # {}
      PROVE  Rest(T) \in SUBSET S /\ Pick(T) \in S /\ F[T] = f[Pick(T)] + F[Rest(T)]
  BY <1>1, <1>3, SumEquations
<1>4. (\A T \in SUBSET S : F[T] \in Int) /\ SumFunction(f) = F[S]
  BY <1>1, SumEquations
<1> HIDE DEF F
<1>5. {} \in Good
  BY <1>2, FS_EmptySet
<1>6. ASSUME NEW T \in SUBSET S, T # {}, Rest(T) \in Good PROVE T \in Good
  <2>1. IsFiniteSet(A \cap T) /\ Cardinality(A \cap T) \in Nat
    BY FS_Subset, FS_CardinalityType
  <2>2. A \cap Rest(T) = (A \cap T) \ {Pick(T)} /\ (Pick(T) \in A <=> Pick(T) \in A \cap T)
    BY <1>6 DEF Pick, Rest
  <2>3. Cardinality(A \cap Rest(T)) =
            IF Pick(T) \in A THEN Cardinality(A \cap T) - 1 ELSE Cardinality(A \cap T)
    <3>1. \A x : Cardinality((A \cap T) \ {x}) =
                IF x \in A \cap T THEN Cardinality(A \cap T) - 1 ELSE Cardinality(A \cap T)
      BY <2>1, FS_RemoveElement
    <3> QED BY <2>2, <3>1
  <2>4. F[T] = f[Pick(T)] + Cardinality(A \cap Rest(T)) /\ Pick(T) \in S
    BY <1>3, <1>6
  <2> QED BY <1>1, <2>1, <2>3, <2>4
<1>7. Good = SUBSET S
  <2>1. Good \in SUBSET SUBSET S
    OBVIOUS
  <2> HIDE DEF Good
  <2> QED BY <1>5, <1>6, <2>1, SubsetInduction
<1>8. A \cap S = A /\ S \in SUBSET S
  OBVIOUS
<1>9. SumFunction(f) = Cardinality(A)
  BY <1>4, <1>7, <1>8
<1> QED BY <1>9 DEF f

\* A sum whose summands are at least a on a part and at least b elsewhere.
LEMMA SumAtLeast ==
    ASSUME NEW S, IsFiniteSet(S), NEW A \in SUBSET S, NEW f \in [S -> Int],
           NEW a \in Int, \A s \in A : a <= f[s], \A s \in S \ A : 0 <= f[s]
    PROVE  a * Cardinality(A) <= SumFunction(f)
<1> DEFINE i == Indicator(S, A)
           h == [s \in S |-> a * i[s]]
<1>1. i \in [S -> Int] /\ (\A s \in S : i[s] = IF s \in A THEN 1 ELSE 0)
  BY DEF Indicator
<1>2. SumFunction(i) = Cardinality(A)
  BY SumCounts
<1> HIDE DEF i
<1>3. h \in [S -> Int] /\ (\A s \in S : h[s] = a * i[s])
  BY <1>1
<1>4. \A s \in S : h[s] = IF s \in A THEN a ELSE 0
  BY <1>1, <1>3
<1> HIDE DEF h
<1>5. SumFunction(h) = a * Cardinality(A)
  BY <1>1, <1>2, <1>3, SumScaled
<1>6. \A s \in S : h[s] <= f[s]
  BY <1>4
<1> QED BY <1>3, <1>5, <1>6, SumMonotone

\* A sum whose summands are at most a on a part and at most b elsewhere.
LEMMA SumAtMost ==
    ASSUME NEW S, IsFiniteSet(S), NEW A \in SUBSET S, NEW f \in [S -> Int],
           NEW a \in Int, NEW b \in Int,
           \A s \in A : f[s] <= a, \A s \in S \ A : f[s] <= b
    PROVE  SumFunction(f) <= a * Cardinality(A) + b * (Cardinality(S) - Cardinality(A))
<1> DEFINE i == Indicator(S, A)
           j == Indicator(S, S \ A)
           k == [s \in S |-> a * i[s]]
           l == [s \in S |-> b * j[s]]
           h == [s \in S |-> k[s] + l[s]]
<1>1. i \in [S -> Int] /\ j \in [S -> Int]
  BY DEF Indicator
<1>2. \A s \in S : i[s] = (IF s \in A THEN 1 ELSE 0) /\ j[s] = (IF s \in A THEN 0 ELSE 1)
  BY DEF Indicator
<1>3. SumFunction(i) = Cardinality(A) /\ SumFunction(j) = Cardinality(S \ A)
  BY SumCounts
<1>4. Cardinality(S \ A) = Cardinality(S) - Cardinality(A)
  <2>1. S \cap A = A
    OBVIOUS
  <2> QED BY <2>1, FS_Difference
<1> HIDE DEF i, j
<1>5. k \in [S -> Int] /\ (\A s \in S : k[s] = a * i[s])
  BY <1>1
<1>6. \A s \in S : k[s] = IF s \in A THEN a ELSE 0
  BY <1>2, <1>5
<1>7. l \in [S -> Int] /\ (\A s \in S : l[s] = b * j[s])
  BY <1>1
<1> HIDE DEF k, l
<1>8. h \in [S -> Int] /\ (\A s \in S : h[s] = k[s] + l[s])
  BY <1>5, <1>7
<1> HIDE DEF h
<1>9. SumFunction(k) = a * Cardinality(A)
  BY <1>1, <1>3, <1>5, SumScaled
<1>10. SumFunction(l) = b * (Cardinality(S) - Cardinality(A))
  BY <1>1, <1>3, <1>4, <1>7, SumScaled
<1>11. SumFunction(h) = SumFunction(k) + SumFunction(l)
  BY <1>5, <1>7, <1>8, SumAdd
<1>12. \A s \in S : f[s] <= h[s]
  <2>1. \A s \in S : h[s] = IF s \in A THEN a ELSE b
    BY <1>2, <1>6, <1>7, <1>8
  <2> QED BY <2>1
<1>13. SumFunction(f) <= SumFunction(h)
  BY <1>8, <1>12, SumMonotone
<1> QED BY <1>9, <1>10, <1>11, <1>13

(* ---- ranks ---- *)

\* In a strict linear order on a finite set, k elements have a rank below k.
LEMMA RanksCount ==
    ASSUME NEW S, IsFiniteSet(S), NEW rank \in [S -> Nat],
           \A s \in S : rank[s] < Cardinality(S),
           \A s, t \in S : rank[s] = rank[t] => s = t,
           NEW k \in 0..Cardinality(S)
    PROVE  Cardinality({s \in S : rank[s] < k}) = k
<1> DEFINE n == Cardinality(S)
           A == {s \in S : rank[s] < k}
<1>1. n \in Nat
  BY FS_CardinalityType
<1>2. IsFiniteSet(0..(n - 1)) /\ Cardinality(0..(n - 1)) = n
  <2>1. n - 1 \in Int /\ (0 > n - 1 => n = 0)
    BY <1>1
  <2> HIDE DEF n
  <2> QED BY <1>1, <2>1, FS_Interval
<1>3. rank \in Injection(S, 0..(n - 1))
  BY <1>1 DEF Injection, IsInjective
<1>4. rank \in Surjection(S, 0..(n - 1))
  BY <1>2, <1>3, FS_Injection
<1>5. \A m \in 0..(n - 1) : \E s \in S : rank[s] = m
  BY <1>4 DEF Surjection
<1> DEFINE r == [s \in A |-> rank[s]]
<1>6. r \in Bijection(A, 0..(k - 1))
  <2>1. r \in [A -> 0..(k - 1)]
    OBVIOUS
  <2>2. \A s, t \in A : r[s] = r[t] => s = t
    OBVIOUS
  <2>3. \A m \in 0..(k - 1) : \E s \in A : r[s] = m
    BY <1>1, <1>5
  <2> QED BY <2>1, <2>2, <2>3, Fun_IsBij
<1>7. IsFiniteSet(A)
  BY FS_Subset
<1>8. Cardinality(0..(k - 1)) = k
  BY FS_Interval
<1>9. ExistsBijection(A, 0..(k - 1))
  BY <1>6 DEF ExistsBijection
<1> QED BY <1>7, <1>8, <1>9, FS_Bijection

(* ---- the parts of a share ---- *)

\* What a calculation starts from.
Figures ==
    /\ joined \in [Cohort -> JoinDay]
    /\ expenses \in Nat

\* The cohort is finite and has N students.
LEMMA CohortFinite == IsFiniteSet(Cohort) /\ Cardinality(Cohort) = N
<1>1. N \in Nat
  BY SizeAssumption
<1> QED BY <1>1, FS_Interval DEF Cohort

\* Nobody is charged for more days than the month has.
LEMMA DaysBounded ==
    ASSUME Figures, NEW s \in Cohort
    PROVE  /\ IsFiniteSet(OptedIn(s))
           /\ EffectiveDays(s) \in 0..LastDay
<1>1. joined[s] \in 1..LastDay
  BY JoinDayAssumption DEF Figures
<1>2. OptedIn(s) \in SUBSET (1..LastDay)
  BY <1>1, SizeAssumption DEF OptedIn
<1>3. IsFiniteSet(1..LastDay) /\ Cardinality(1..LastDay) = LastDay
  BY SizeAssumption, FS_Interval
<1>4. IsFiniteSet(OptedIn(s)) /\ Cardinality(OptedIn(s)) <= LastDay
  BY <1>2, <1>3, FS_Subset
<1>5. Cardinality(OptedIn(s)) \in Nat
  BY <1>4, FS_CardinalityType
<1> QED BY <1>4, <1>5, SizeAssumption DEF EffectiveDays

\* All charged days together are at most N * LastDay.
LEMMA AllDaysBounded ==
    ASSUME Figures PROVE ChargeableDays \in 0..(N * LastDay)
<1> DEFINE f == [s \in Cohort |-> EffectiveDays(s)]
<1>1. f \in [Cohort -> Int] /\ (\A s \in Cohort : 0 <= f[s] /\ f[s] <= LastDay)
  BY DaysBounded, SizeAssumption
<1>2. ChargeableDays = SumFunction(f)
  BY DEF ChargeableDays
<1> HIDE DEF f
<1>3. 0 * Cardinality(Cohort) <= SumFunction(f)
  BY <1>1, CohortFinite, SumAtLeast
<1>4. SumFunction(f) <= LastDay * Cardinality(Cohort)
  <2>1. LastDay \in Int /\ Cohort \in SUBSET Cohort /\ Cohort \ Cohort = {}
    BY SizeAssumption
  <2>2. SumFunction(f) <= LastDay * Cardinality(Cohort)
                            + LastDay * (Cardinality(Cohort) - Cardinality(Cohort))
    BY <1>1, <2>1, CohortFinite, SumAtMost
  <2> QED BY <2>1, <2>2, CohortFinite, SizeAssumption
<1>5. SumFunction(f) \in Int
  BY <1>1, CohortFinite, SumType
<1> QED BY <1>2, <1>3, <1>4, <1>5, CohortFinite, SizeAssumption

\* The rate is off by at most half of its last digit.
LEMMA RateRounded ==
    ASSUME Figures, ChargeableDays > 0
    PROVE  /\ Rate \in Nat
           /\ -ChargeableDays <= 2 * (Rate * ChargeableDays - expenses * Scale)
           /\ 2 * (Rate * ChargeableDays - expenses * Scale) <= ChargeableDays
<1> DEFINE D == ChargeableDays
           total == expenses * Scale
           q == total \div D
           r == total % D
<1>1. D \in Nat \ {0} /\ total \in Nat
  BY AllDaysBounded, SizeAssumption DEF Figures
<1>2. Rate = IF 2 * r > D \/ (2 * r = D /\ q % 2 = 1) THEN q + 1 ELSE q
  BY DEF Rate
<1> HIDE DEF D, total
<1>3. q \in Nat /\ r \in 0..(D - 1) /\ total = D * q + r
  BY <1>1
<1> HIDE DEF q, r
<1>4. CASE Rate = q
  <2>1. q * D - total = -r /\ 2 * r <= D
    BY <1>1, <1>2, <1>3, <1>4
  <2> QED BY <1>1, <1>3, <1>4, <2>1 DEF D, total
<1>5. CASE Rate = q + 1 /\ 2 * r >= D
  <2>1. (q + 1) * D - total = D - r
    BY <1>1, <1>3
  <2> QED BY <1>1, <1>3, <1>5, <2>1 DEF D, total
<1> QED BY <1>1, <1>2, <1>3, <1>4, <1>5

\* A share is whole cents and a remainder of less than a cent.
LEMMA ShareParts ==
    ASSUME Figures, ChargeableDays > 0, NEW s \in Cohort
    PROVE  /\ Share(s) = Rate * EffectiveDays(s)
           /\ Share(s) \in Nat
           /\ Allocated(s) \in Nat
           /\ Remainder(s) \in 0..(Scale - 1)
           /\ Share(s) = Allocated(s) * Scale + Remainder(s)
<1>1. Scale \in Nat /\ Scale > 0
  BY SizeAssumption, PrecisionAssumption
<1>2. Share(s) = Rate * EffectiveDays(s) /\ Share(s) \in Nat
  BY RateRounded, DaysBounded, SizeAssumption DEF Share
<1> DEFINE v == Share(s)
<1>3. v \in Nat /\ Allocated(s) = v \div Scale /\ Remainder(s) = v - (v \div Scale) * Scale
  BY <1>2 DEF Allocated, Remainder
<1> HIDE DEF v
<1>4. /\ v \div Scale \in Nat
      /\ v % Scale \in 0..(Scale - 1)
      /\ v = Scale * (v \div Scale) + (v % Scale)
  BY <1>1, <1>3
<1>5. Allocated(s) \in Nat /\ Remainder(s) \in 0..(Scale - 1) /\ v = Allocated(s) * Scale + Remainder(s)
  BY <1>1, <1>3, <1>4
<1> QED BY <1>2, <1>5 DEF v

(* ---- the cents left over ---- *)

\* What is left is what the rounding of the rate and of the shares took.
LEMMA CentsLeftEquation ==
    ASSUME Figures, ChargeableDays > 0
    PROVE  /\ SumFunction([s \in Cohort |-> Remainder(s)]) \in Int
           /\ SumFunction([s \in Cohort |-> Allocated(s)]) \in Int
           /\ Scale * CentsLeft = expenses * Scale - Rate * ChargeableDays
                                    + SumFunction([s \in Cohort |-> Remainder(s)])
<1> DEFINE d == [s \in Cohort |-> EffectiveDays(s)]
           v == [s \in Cohort |-> Share(s)]
           a == [s \in Cohort |-> Allocated(s)]
           b == [s \in Cohort |-> Scale * a[s]]
           r == [s \in Cohort |-> Remainder(s)]
<1>1. /\ d \in [Cohort -> Int] /\ v \in [Cohort -> Int] /\ a \in [Cohort -> Int] /\ r \in [Cohort -> Int]
      /\ \A s \in Cohort : v[s] = Rate * d[s]
      /\ \A s \in Cohort : v[s] = Scale * a[s] + r[s]
  <2>1. \A s \in Cohort : EffectiveDays(s) \in Int
    BY DaysBounded
  <2>2. \A s \in Cohort : /\ Share(s) \in Int /\ Allocated(s) \in Int /\ Remainder(s) \in Int
                          /\ Share(s) = Rate * EffectiveDays(s)
                          /\ Share(s) = Scale * Allocated(s) + Remainder(s)
    BY ShareParts, SizeAssumption
  <2> QED BY <2>1, <2>2
<1>2. SumFunction(d) = ChargeableDays
  BY DEF ChargeableDays
<1>3. CentsLeft = expenses - SumFunction(a)
  BY DEF CentsLeft
<1> HIDE DEF d, v, a, r
<1>4. b \in [Cohort -> Int] /\ (\A s \in Cohort : b[s] = Scale * a[s])
  BY <1>1, SizeAssumption
<1> HIDE DEF b
<1>5. SumFunction(v) = Rate * ChargeableDays
  BY <1>1, <1>2, RateRounded, CohortFinite, SumScaled
<1>6. SumFunction(b) = Scale * SumFunction(a)
  <2>1. Scale \in Int
    BY SizeAssumption
  <2> QED BY <1>1, <1>4, <2>1, CohortFinite, SumScaled
<1>7. SumFunction(v) = SumFunction(b) + SumFunction(r)
  BY <1>1, <1>4, CohortFinite, SumAdd
<1>8. SumFunction(a) \in Int /\ SumFunction(r) \in Int
  BY <1>1, CohortFinite, SumType
<1> DEFINE A == SumFunction(a)
           R == SumFunction(r)
           V == Rate * ChargeableDays
<1>9. V = Scale * A + R /\ V \in Int /\ expenses \in Nat
  BY <1>5, <1>6, <1>7, RateRounded, AllDaysBounded, SizeAssumption DEF Figures
<1>10. Scale * (expenses - A) = expenses * Scale - V + R
  <2> HIDE DEF A, R, V
  <2>1. Scale * (expenses - A) = expenses * Scale - Scale * A
    BY <1>8, <1>9, SizeAssumption DEF A
  <2>2. Scale * A \in Int
    BY <1>8, SizeAssumption DEF A
  <2> QED BY <1>8, <1>9, <2>1, <2>2, SizeAssumption DEF A, R
<1> QED BY <1>3, <1>8, <1>10 DEF a, r

\* The month is small against the precision of the rate.
LEMMA MonthIsSmall ==
    ASSUME Figures, ChargeableDays > 0
    PROVE  /\ N * LastDay \in Nat
           /\ N > 0 /\ LastDay > 0
           /\ N * LastDay < Scale
           /\ LastDay <= N * LastDay
<1>1. N * LastDay \in Nat /\ N * LastDay > 0
  BY AllDaysBounded, SizeAssumption
<1>2. N > 0 /\ LastDay > 0
  BY <1>1, SizeAssumption
<1>3. \A x \in Nat : x > 0 => x <= x * x
  OBVIOUS
<1>4. N * LastDay <= (N * LastDay) * (N * LastDay)
  BY <1>1, <1>3
<1>5. (N * LastDay) * (N * LastDay) = N * LastDay * N * LastDay
  BY SizeAssumption
<1>6. N * LastDay < Scale
  BY <1>1, <1>4, <1>5, PrecisionAssumption, SizeAssumption
<1>7. LastDay <= N * LastDay
  BY <1>2, SizeAssumption
<1> QED BY <1>1, <1>2, <1>6, <1>7

\* There is at most a cent left for every student, and none is missing.
LEMMA CentsLeftBounded ==
    ASSUME Figures, ChargeableDays > 0
    PROVE  /\ CentsLeft \in 0..N
           /\ 2 * (Scale * CentsLeft) <= 2 * SumFunction([s \in Cohort |-> Remainder(s)]) + N * LastDay
           /\ 2 * SumFunction([s \in Cohort |-> Remainder(s)]) <= 2 * (Scale * CentsLeft) + N * LastDay
<1> DEFINE r == [s \in Cohort |-> Remainder(s)]
           R == SumFunction(r)
           L == CentsLeft
           M == N * LastDay
           delta == Rate * ChargeableDays - expenses * Scale
<1>1. r \in [Cohort -> Int] /\ (\A s \in Cohort : 0 <= r[s] /\ r[s] <= Scale - 1)
  <2>1. \A s \in Cohort : Remainder(s) \in 0..(Scale - 1)
    BY ShareParts
  <2> QED BY <2>1, SizeAssumption
<1>2. Scale * L = R - delta /\ R \in Int /\ L \in Int
  <2>1. Rate * ChargeableDays \in Int /\ expenses * Scale \in Int
    BY RateRounded, AllDaysBounded, SizeAssumption DEF Figures
  <2>2. L \in Int
    BY CentsLeftEquation DEF CentsLeft, Figures
  <2> HIDE DEF L
  <2> QED BY CentsLeftEquation, <2>1, <2>2 DEF L
<1>3. delta \in Int /\ -M <= 2 * delta /\ 2 * delta <= M
  <2>1. delta \in Int
    BY RateRounded, AllDaysBounded, SizeAssumption DEF Figures
  <2> HIDE DEF delta
  <2> QED BY RateRounded, AllDaysBounded, MonthIsSmall, <2>1 DEF delta
<1> HIDE DEF r, L, M, delta
<1>4. 0 <= R /\ R <= (Scale - 1) * N
  <2>1. Scale - 1 \in Int /\ Cohort \in SUBSET Cohort /\ Cohort \ Cohort = {}
    BY SizeAssumption
  <2>2. 0 * Cardinality(Cohort) <= R
    BY <1>1, <2>1, CohortFinite, SumAtLeast
  <2>3. R <= (Scale - 1) * Cardinality(Cohort) + (Scale - 1) * (Cardinality(Cohort) - Cardinality(Cohort))
    BY <1>1, <2>1, CohortFinite, SumAtMost
  <2> QED BY <1>2, <2>1, <2>2, <2>3, CohortFinite, SizeAssumption
<1> HIDE DEF R
<1>5. M \in Nat /\ M < Scale /\ Scale \in Nat /\ N \in Nat /\ N > 0
  BY MonthIsSmall, SizeAssumption DEF M
<1>6. L >= 0
  <2>1. SUFFICES ASSUME L <= -1 PROVE FALSE
    BY <1>2
  <2>2. Scale * L <= -Scale
    BY <1>2, <1>5, <2>1
  <2> QED BY <1>2, <1>3, <1>4, <1>5, <2>2
<1>7. L <= N
  <2>1. SUFFICES ASSUME L >= N + 1 PROVE FALSE
    BY <1>2, <1>5
  <2>2. Scale * L >= Scale * (N + 1)
    BY <1>2, <1>5, <2>1
  <2>3. Scale * (N + 1) = Scale * N + Scale /\ (Scale - 1) * N = Scale * N - N /\ Scale * N \in Int
    BY <1>5
  <2> QED BY <1>2, <1>3, <1>4, <1>5, <2>2, <2>3
<1>8. 2 * (Scale * L) <= 2 * R + M /\ 2 * R <= 2 * (Scale * L) + M
  BY <1>2, <1>3, <1>5
<1> QED BY <1>2, <1>5, <1>6, <1>7, <1>8 DEF L, R, M, r

(* ---- who gets a cent ---- *)

\* A student's place in the order in which left-over cents are given out.
Rank(s) == Cardinality({t \in Cohort : Precedes(t, s)})

Winners == {s \in Cohort : GetsCent(s)}

\* The order of remainders is linear, registration order breaking ties.
LEMMA PrecedesLinear ==
    ASSUME Figures, ChargeableDays > 0, NEW s \in Cohort, NEW t \in Cohort, NEW u \in Cohort
    PROVE  /\ ~ Precedes(s, s)
           /\ Precedes(s, t) /\ Precedes(t, u) => Precedes(s, u)
           /\ s # t => Precedes(s, t) \/ Precedes(t, s)
           /\ Precedes(s, t) => Remainder(t) <= Remainder(s)
           /\ Remainder(t) < Remainder(s) => Precedes(s, t)
<1>1. Remainder(s) \in Int /\ Remainder(t) \in Int /\ Remainder(u) \in Int
  BY ShareParts, SizeAssumption
<1>2. s \in Int /\ t \in Int /\ u \in Int
  BY SizeAssumption DEF Cohort
<1> QED BY <1>1, <1>2 DEF Precedes

\* Ranks are ordered as the students are.
LEMMA RanksOrdered ==
    ASSUME Figures, ChargeableDays > 0
    PROVE  /\ \A s \in Cohort : Rank(s) \in Nat /\ Rank(s) < N
           /\ \A s, t \in Cohort : Precedes(s, t) => Rank(s) < Rank(t)
<1> DEFINE Before(s) == {t \in Cohort : Precedes(t, s)}
<1>1. \A s \in Cohort : IsFiniteSet(Before(s)) /\ Cardinality(Before(s)) \in Nat
  BY CohortFinite, FS_Subset, FS_CardinalityType
<1>2. ASSUME NEW s \in Cohort PROVE Cardinality(Before(s)) < N
  <2>1. Before(s) \in SUBSET Cohort /\ Before(s) # Cohort
    BY PrecedesLinear
  <2>2. Cardinality(Before(s)) <= Cardinality(Cohort) /\ Cardinality(Cohort) # Cardinality(Before(s))
    BY <2>1, CohortFinite, FS_Subset
  <2> QED BY <1>1, <2>2, CohortFinite, SizeAssumption
<1>3. ASSUME NEW s \in Cohort, NEW t \in Cohort, Precedes(s, t)
      PROVE  Cardinality(Before(s)) < Cardinality(Before(t))
  <2>1. Before(s) \in SUBSET Before(t)
    BY <1>3, PrecedesLinear
  <2>2. s \in Before(t) /\ s \notin Before(s)
    BY <1>3, PrecedesLinear
  <2>3. Before(s) # Before(t)
    BY <2>2
  <2>4. Cardinality(Before(s)) <= Cardinality(Before(t)) /\ Cardinality(Before(t)) # Cardinality(Before(s))
    BY <1>1, <2>1, <2>3, FS_Subset
  <2> QED BY <1>1, <2>4
<1>4. \A s : Rank(s) = Cardinality(Before(s))
  BY DEF Rank
<1> HIDE DEF Before
<1> QED BY <1>1, <1>2, <1>3, <1>4

\* Exactly as many students get a cent as there are cents left, and those who
\* do come before those who do not.
LEMMA WinnersAreFirst ==
    ASSUME Figures, ChargeableDays > 0
    PROVE  /\ IsFiniteSet(Winners)
           /\ Cardinality(Winners) = CentsLeft
           /\ \A s, t \in Cohort : GetsCent(t) /\ Precedes(s, t) => GetsCent(s)
           /\ \A s \in Winners, t \in Cohort \ Winners : Remainder(t) <= Remainder(s)
<1>1. \A s \in Cohort : GetsCent(s) <=> Rank(s) < CentsLeft
  BY CentsLeftBounded, SizeAssumption DEF GetsCent, Rank
<1>2. CentsLeft \in 0..N /\ N \in Nat
  BY CentsLeftBounded, SizeAssumption
<1>3. \A s, t \in Cohort : GetsCent(t) /\ Precedes(s, t) => GetsCent(s)
  BY <1>1, <1>2, RanksOrdered
<1>4. ASSUME NEW s \in Winners, NEW t \in Cohort \ Winners PROVE Remainder(t) <= Remainder(s)
  <2>1. s \in Cohort /\ t \in Cohort /\ s # t /\ GetsCent(s) /\ ~ GetsCent(t)
    BY DEF Winners
  <2>2. Precedes(s, t)
    BY <1>3, <2>1, PrecedesLinear
  <2> QED BY <2>1, <2>2, PrecedesLinear
<1>5. IsFiniteSet(Winners) /\ Cardinality(Winners) = CentsLeft
  <2> DEFINE rank == [s \in Cohort |-> Rank(s)]
             First == {s \in Cohort : rank[s] < CentsLeft}
  <2>1. rank \in [Cohort -> Nat] /\ (\A s \in Cohort : rank[s] < Cardinality(Cohort))
    BY RanksOrdered, CohortFinite
  <2>2. ASSUME NEW s \in Cohort, NEW t \in Cohort, rank[s] = rank[t] PROVE s = t
    <3>1. Rank(s) = Rank(t) /\ Rank(s) \in Nat
      BY <2>2, RanksOrdered
    <3>2. ~ Precedes(s, t) /\ ~ Precedes(t, s)
      BY <3>1, RanksOrdered
    <3> QED BY <3>2, PrecedesLinear
  <2>3. Winners = First
    BY <1>1 DEF Winners
  <2> HIDE DEF rank
  <2>4. Cardinality({s \in Cohort : rank[s] < CentsLeft}) = CentsLeft
    BY <1>2, <2>1, <2>2, CohortFinite, RanksCount
  <2>5. IsFiniteSet(Winners)
    BY CohortFinite, FS_Subset DEF Winners
  <2> QED BY <2>3, <2>4, <2>5
<1> QED BY <1>3, <1>4, <1>5

\* Nobody with almost a cent of remainder is left without one.
LEMMA AlmostACent ==
    ASSUME Figures, ChargeableDays > 0, NEW s \in Cohort, ~ GetsCent(s)
    PROVE  2 * Remainder(s) + LastDay < 2 * Scale
<1> DEFINE r == [t \in Cohort |-> Remainder(t)]
           A == Winners \cup {s}
           x == Remainder(s)
           R == SumFunction(r)
           L == CentsLeft
           M == N * LastDay
<1>1. r \in [Cohort -> Int] /\ (\A t \in Cohort : 0 <= r[t] /\ r[t] = Remainder(t))
  BY ShareParts, SizeAssumption
<1>2. x \in Nat
  BY ShareParts, SizeAssumption
<1>3. A \in SUBSET Cohort /\ s \notin Winners
  BY DEF Winners
<1>4. \A t \in A : x <= r[t]
  <2>1. \A t \in Winners : x <= Remainder(t)
    BY <1>3, WinnersAreFirst
  <2> QED BY <1>1, <1>2, <1>3, <2>1
<1>5. Cardinality(A) = L + 1
  BY <1>3, WinnersAreFirst, FS_AddElement
<1>6. L \in Nat /\ L + 1 <= N
  BY <1>3, <1>5, CohortFinite, FS_Subset, CentsLeftBounded, SizeAssumption
<1>7. R \in Int /\ 2 * (Scale * L) + M >= 2 * R
  BY CentsLeftBounded, CentsLeftEquation
<1> HIDE DEF r, A, x, R, L
<1>8. x * (L + 1) <= R
  <2>1. x \in Int /\ (\A t \in Cohort \ A : 0 <= r[t])
    BY <1>1, <1>2
  <2>2. x * Cardinality(A) <= R
    BY <1>1, <1>3, <1>4, <2>1, CohortFinite, SumAtLeast DEF R
  <2> QED BY <1>5, <2>2
<1>9. M \in Nat /\ M < Scale /\ Scale \in Nat /\ LastDay \in Nat /\ N \in Nat
  BY MonthIsSmall, SizeAssumption
<1>10. SUFFICES ASSUME 2 * x >= 2 * Scale - LastDay PROVE FALSE
  BY <1>2, <1>9 DEF x
<1>11. (2 * x) * (L + 1) >= (2 * Scale - LastDay) * (L + 1)
  BY <1>2, <1>6, <1>9, <1>10
<1>12. (2 * Scale - LastDay) * (L + 1) = 2 * (Scale * L) + 2 * Scale - LastDay * (L + 1)
  BY <1>6, <1>9
<1>13. LastDay * (L + 1) <= M
  BY <1>6, <1>9
<1>14. (2 * x) * (L + 1) = 2 * (x * (L + 1))
  BY <1>2, <1>6
<1> HIDE DEF M
<1> QED
  <2> DEFINE p == Scale * L
             q == x * (L + 1)
             z == LastDay * (L + 1)
  <2>1. p \in Int /\ q \in Int /\ z \in Int
    BY <1>2, <1>6, <1>9
  <2>2. 2 * p + M >= 2 * R /\ q <= R /\ 2 * q >= 2 * p + 2 * Scale - z /\ z <= M
    BY <1>7, <1>8, <1>11, <1>12, <1>13, <1>14
  <2> HIDE DEF p, q, z
  <2> QED BY <1>7, <1>9, <2>1, <2>2

\* Nobody with almost no remainder is given a cent.
LEMMA AlmostNothing ==
    ASSUME Figures, ChargeableDays > 0, NEW s \in Cohort, GetsCent(s)
    PROVE  LastDay < 2 * Remainder(s)
<1> DEFINE r == [t \in Cohort |-> Remainder(t)]
           A == Winners \ {s}
           x == Remainder(s)
           R == SumFunction(r)
           L == CentsLeft
           M == N * LastDay
<1>1. r \in [Cohort -> Int] /\ (\A t \in Cohort : r[t] <= Scale - 1 /\ r[t] = Remainder(t))
  BY ShareParts, SizeAssumption
<1>2. x \in Nat
  BY ShareParts, SizeAssumption
<1>3. A \in SUBSET Cohort /\ s \in Winners
  BY DEF Winners
<1>4. \A t \in Cohort \ A : r[t] <= x
  <2>1. \A t \in Cohort \ Winners : Remainder(t) <= x
    BY <1>3, WinnersAreFirst
  <2> QED BY <1>1, <1>2, <1>3, <2>1
<1>5. Cardinality(A) = L - 1
  BY <1>3, WinnersAreFirst, FS_RemoveElement
<1>6. L \in Nat /\ 1 <= L /\ L <= N
  <2>1. Cardinality(A) \in Nat
    BY <1>3, CohortFinite, FS_Subset, FS_CardinalityType
  <2> QED BY <1>5, <2>1, CentsLeftBounded, SizeAssumption
<1>7. R \in Int /\ 2 * (Scale * L) <= 2 * R + M
  BY CentsLeftBounded, CentsLeftEquation
<1> HIDE DEF r, A, x, R, L
<1>8. M \in Nat /\ M < Scale /\ Scale \in Nat /\ LastDay \in Nat /\ N \in Nat
  BY MonthIsSmall, SizeAssumption
<1>9. R <= (Scale - 1) * (L - 1) + x * (N - (L - 1))
  <2>1. x \in Int /\ Scale - 1 \in Int /\ (\A t \in A : r[t] <= Scale - 1)
    BY <1>1, <1>2, <1>3, <1>8
  <2>2. R <= (Scale - 1) * Cardinality(A) + x * (Cardinality(Cohort) - Cardinality(A))
    BY <1>1, <1>3, <1>4, <2>1, CohortFinite, SumAtMost DEF R
  <2> QED BY <1>5, <2>2, CohortFinite
<1>10. SUFFICES ASSUME 2 * x <= LastDay PROVE FALSE
  BY <1>2, <1>8 DEF x
<1>11. (2 * x) * (N - (L - 1)) <= LastDay * (N - (L - 1))
  BY <1>2, <1>6, <1>8, <1>10
<1>12. LastDay * (N - (L - 1)) <= M
  BY <1>6, <1>8
<1>13. (2 * x) * (N - (L - 1)) = 2 * (x * (N - (L - 1)))
  BY <1>2, <1>6, <1>8
<1>14. (Scale - 1) * (L - 1) = Scale * L - Scale - (L - 1)
  BY <1>6, <1>8
<1> HIDE DEF M
<1> QED
  <2> DEFINE p == Scale * L
             q == x * (N - (L - 1))
             z == LastDay * (N - (L - 1))
  <2>1. p \in Int /\ q \in Int /\ z \in Int
    BY <1>2, <1>6, <1>8
  <2>2. 2 * p <= 2 * R + M /\ R <= p - Scale - (L - 1) + q /\ 2 * q <= z /\ z <= M
    BY <1>7, <1>9, <1>11, <1>12, <1>13, <1>14
  <2> HIDE DEF p, q, z
  <2> QED BY <1>6, <1>7, <1>8, <2>1, <2>2

(* ---- the charges ---- *)

Charges == [s \in Cohort |-> Charge(s)]

\* A charge is the whole cents of a share and at most one more.
LEMMA ChargeParts ==
    ASSUME Figures, ChargeableDays > 0, NEW s \in Cohort
    PROVE  /\ Charge(s) = Allocated(s) + (IF s \in Winners THEN 1 ELSE 0)
           /\ Charge(s) \in Nat
<1>1. ChargeableDays # 0
  BY AllDaysBounded
<1>2. Charge(s) = Allocated(s) + (IF GetsCent(s) THEN 1 ELSE 0)
  BY <1>1 DEF Charge
<1> QED BY <1>2, ShareParts DEF Winners

\* The charges add up to the expenses.
LEMMA ChargesAddUp ==
    ASSUME Figures, ChargeableDays > 0
    PROVE  SumFunction(Charges) = expenses
<1> DEFINE a == [s \in Cohort |-> Allocated(s)]
           w == Indicator(Cohort, Winners)
           c == Charges
<1>1. /\ a \in [Cohort -> Int] /\ w \in [Cohort -> Int] /\ c \in [Cohort -> Int]
      /\ \A s \in Cohort : c[s] = a[s] + w[s]
  BY ChargeParts, ShareParts DEF Charges, Indicator
<1>2. CentsLeft = expenses - SumFunction(a)
  BY DEF CentsLeft
<1>3. SumFunction(w) = CentsLeft
  <2>1. Winners \in SUBSET Cohort
    BY DEF Winners
  <2> QED BY <2>1, CohortFinite, SumCounts, WinnersAreFirst
<1> HIDE DEF a, w, c
<1>4. SumFunction(c) = SumFunction(a) + SumFunction(w)
  BY <1>1, CohortFinite, SumAdd
<1>5. SumFunction(a) \in Int
  BY <1>1, CohortFinite, SumType
<1>6. SumFunction(c) = expenses
  BY <1>2, <1>3, <1>4, <1>5 DEF Figures
<1> QED BY <1>6 DEF c

\* No charge is more than all expenses.
LEMMA ChargeBounded ==
    ASSUME Figures, NEW s \in Cohort PROVE Charge(s) \in 0..expenses
<1>1. CASE ChargeableDays > 0
  <2> DEFINE c == Charges
  <2>1. c \in [Cohort -> Int] /\ (\A t \in Cohort : 0 <= c[t]) /\ c[s] = Charge(s)
    BY <1>1, ChargeParts DEF Charges
  <2>2. SumFunction(c) = expenses
    BY <1>1, ChargesAddUp
  <2> HIDE DEF c
  <2>3. {s} \in SUBSET Cohort /\ c[s] \in Int /\ (\A t \in {s} : c[s] <= c[t])
    BY <2>1
  <2>4. Cardinality({s}) = 1
    BY FS_Singleton
  <2>5. c[s] * Cardinality({s}) <= SumFunction(c)
    BY <2>1, <2>3, CohortFinite, SumAtLeast
  <2> QED BY <2>1, <2>2, <2>3, <2>4, <2>5 DEF Figures
<1>2. CASE ChargeableDays = 0
  BY <1>2 DEF Charge, Figures
<1> QED BY <1>1, <1>2, AllDaysBounded, SizeAssumption

\* The error of a charge, in parts of the exact share's denominator, is that of
\* the rate and that of rounding to cents.
LEMMA ErrorParts ==
    ASSUME NEW D \in Nat, NEW S \in Nat, NEW E \in Nat, NEW e \in Nat, NEW a \in Nat, NEW r \in Nat,
           NEW g \in Int, NEW rate \in Nat, rate * e = a * S + r
    PROVE  ((a + g) * D - E * e) * S = e * (rate * D - E * S) + (g * S - r) * D
<1>1. ((a + g) * D - E * e) * S = (a * S) * D + (g * S) * D - e * (E * S)
  OBVIOUS
<1>2. e * (rate * D - E * S) = (rate * e) * D - e * (E * S)
  OBVIOUS
<1>3. (rate * e) * D = (a * S) * D + r * D
  OBVIOUS
<1>4. (g * S - r) * D = (g * S) * D - r * D
  OBVIOUS
<1> DEFINE v == (a * S) * D
           w == (g * S) * D
           x == e * (E * S)
           y == r * D
<1>5. v \in Int /\ w \in Int /\ x \in Int /\ y \in Int
  OBVIOUS
<1> HIDE DEF v, w, x, y
<1>6. e * (rate * D - E * S) + (g * S - r) * D = v + w - x
  BY <1>2, <1>3, <1>4, <1>5 DEF v, w, x, y
<1> QED BY <1>1, <1>6 DEF v, w, x

\* The error of a charge stays below a cent.
LEMMA ErrorBounded ==
    ASSUME NEW D \in Nat, D > 0, NEW S \in Nat, NEW delta \in Int, -D <= 2 * delta, 2 * delta <= D,
           NEW e \in Nat, NEW last \in Nat, e <= last, last < S,
           NEW r \in Nat, r < S, NEW g \in {0, 1},
           g = 0 => 2 * r + last < 2 * S,
           g = 1 => last < 2 * r,
           NEW error \in Int, error * S = e * delta + (g * S - r) * D
    PROVE  -D < error /\ error < D
<1>1. e * delta \in Int /\ -(e * D) <= 2 * (e * delta) /\ 2 * (e * delta) <= e * D
  <2>1. e * (2 * delta) = 2 * (e * delta) /\ e * (-D) = -(e * D)
    OBVIOUS
  <2>2. e * (-D) <= e * (2 * delta) /\ e * (2 * delta) <= e * D
    OBVIOUS
  <2> QED BY <2>1, <2>2
<1> DEFINE k == 2 * (g * S - r)
<1>2. k \in Int /\ (k - e) * D <= 2 * (error * S) /\ 2 * (error * S) <= (k + e) * D
  <2>1. 2 * (error * S) = 2 * (e * delta) + k * D
    <3>1. 2 * ((g * S - r) * D) = k * D
      OBVIOUS
    <3> QED BY <1>1, <3>1
  <2>2. (k - e) * D = k * D - e * D /\ (k + e) * D = k * D + e * D /\ k * D \in Int /\ e * D \in Int
    OBVIOUS
  <2>3. k \in Int /\ error * S \in Int
    OBVIOUS
  <2> HIDE DEF k
  <2> QED BY <1>1, <2>1, <2>2, <2>3
<1>3. -(2 * S) < k - e /\ k + e < 2 * S
  <2>1. CASE g = 0
    BY <2>1
  <2>2. CASE g = 1
    BY <2>2
  <2> QED BY <2>1, <2>2
<1> HIDE DEF k
<1>4. (k + e) * D < (2 * S) * D /\ -(2 * S) * D < (k - e) * D
  BY <1>2, <1>3
<1>5. error < D
  <2>1. SUFFICES ASSUME error >= D PROVE FALSE
    OBVIOUS
  <2>2. error * S >= D * S /\ (2 * S) * D = 2 * (D * S)
    BY <2>1
  <2> QED BY <1>2, <1>4, <2>2
<1>6. -D < error
  <2>1. SUFFICES ASSUME error <= -D PROVE FALSE
    OBVIOUS
  <2>2. error * S <= -(D * S) /\ -(2 * S) * D = -(2 * (D * S))
    BY <2>1
  <2> QED BY <1>2, <1>4, <2>2
<1> QED BY <1>5, <1>6

\* Every charge is within a cent of the exact share.
LEMMA ChargesAreClose ==
    ASSUME Figures, ChargeableDays > 0, NEW s \in Cohort
    PROVE  /\ -ChargeableDays < Charge(s) * ChargeableDays - expenses * EffectiveDays(s)
           /\ Charge(s) * ChargeableDays - expenses * EffectiveDays(s) < ChargeableDays
<1> DEFINE D == ChargeableDays
           e == EffectiveDays(s)
           a == Allocated(s)
           r == Remainder(s)
           g == IF s \in Winners THEN 1 ELSE 0
           delta == Rate * D - expenses * Scale
           error == Charge(s) * D - expenses * e
<1>1. D \in Nat /\ D > 0 /\ Scale \in Nat /\ expenses \in Nat /\ LastDay \in Nat
  BY AllDaysBounded, SizeAssumption DEF Figures
<1>2. e \in Nat /\ e <= LastDay
  BY DaysBounded, SizeAssumption
<1>3. a \in Nat /\ r \in Nat /\ r < Scale /\ Rate * e = a * Scale + r
  BY <1>1, ShareParts
<1>4. Rate \in Nat /\ -D <= 2 * delta /\ 2 * delta <= D
  BY RateRounded
<1>5. LastDay < Scale
  BY <1>1, MonthIsSmall
<1>6. g \in {0, 1} /\ Charge(s) = a + g
  BY ChargeParts
<1>7. (g = 0 => 2 * r + LastDay < 2 * Scale) /\ (g = 1 => LastDay < 2 * r)
  BY AlmostACent, AlmostNothing DEF Winners
<1> HIDE DEF D, e, a, r, g
<1>8. delta \in Int /\ error \in Int
  BY <1>1, <1>2, <1>3, <1>4, <1>6
<1>9. error * Scale = e * delta + (g * Scale - r) * D
  BY <1>1, <1>2, <1>3, <1>4, <1>6, ErrorParts
<1> HIDE DEF delta, error
<1>10. -D < error /\ error < D
  BY <1>1, <1>2, <1>3, <1>4, <1>5, <1>6, <1>7, <1>8, <1>9, ErrorBounded
<1> QED BY <1>10 DEF D, error, e

\* Whoever is charged for fewer days is not charged more.
LEMMA FewerDaysNotMore ==
    ASSUME Figures, ChargeableDays > 0, NEW s \in Cohort, NEW t \in Cohort,
           EffectiveDays(s) < EffectiveDays(t)
    PROVE  Charge(s) <= Charge(t)
<1> DEFINE a(u) == Allocated(u)
           r(u) == Remainder(u)
           e(u) == EffectiveDays(u)
<1>1. \A u \in Cohort : /\ a(u) \in Nat /\ r(u) \in Nat /\ r(u) < Scale /\ e(u) \in Nat
                        /\ Rate * e(u) = a(u) * Scale + r(u)
                        /\ Charge(u) = a(u) + (IF u \in Winners THEN 1 ELSE 0)
  BY ShareParts, DaysBounded, ChargeParts, SizeAssumption
<1>2. Rate \in Nat /\ Scale \in Nat
  BY RateRounded, SizeAssumption
<1>3. e(s) < e(t)
  OBVIOUS
<1>4. (s \in Winners => r(s) > 0) /\ (r(s) < r(t) /\ s \in Winners => t \in Winners)
  <2>1. s \in Winners => LastDay < 2 * Remainder(s)
    BY AlmostNothing DEF Winners
  <2>2. Remainder(s) < Remainder(t) /\ GetsCent(s) => GetsCent(t)
    BY PrecedesLinear, WinnersAreFirst
  <2> QED BY <1>1, <2>1, <2>2, SizeAssumption DEF Winners
<1> HIDE DEF a, r, e
<1>5. Rate * e(s) <= Rate * e(t)
  BY <1>1, <1>2, <1>3
<1>6. a(s) <= a(t)
  <2>1. SUFFICES ASSUME a(s) >= a(t) + 1 PROVE FALSE
    BY <1>1
  <2>2. a(s) * Scale >= (a(t) + 1) * Scale
    BY <1>1, <1>2, <2>1
  <2>3. (a(t) + 1) * Scale = a(t) * Scale + Scale /\ a(t) * Scale \in Int /\ a(s) * Scale \in Int
    BY <1>1, <1>2
  <2> QED BY <1>1, <1>2, <1>5, <2>2, <2>3
<1>7. CASE a(s) < a(t)
  BY <1>1, <1>7
<1>8. CASE a(s) = a(t) /\ s \notin Winners
  BY <1>1, <1>8
<1>9. CASE a(s) = a(t) /\ s \in Winners
  <2>1. r(s) <= r(t)
    <3>1. a(s) * Scale \in Int /\ a(s) * Scale = a(t) * Scale
      BY <1>1, <1>2, <1>9
    <3> QED BY <1>1, <1>5, <3>1
  <2>2. r(s) # r(t)
    <3>1. SUFFICES ASSUME r(s) = r(t) PROVE FALSE
      OBVIOUS
    <3>2. Rate * e(s) = Rate * e(t)
      BY <1>1, <1>9, <3>1
    <3>3. Rate = 0
      BY <1>1, <1>2, <1>3, <3>2
    <3>4. Rate * e(s) = 0
      BY <1>1, <3>3
    <3>5. a(s) * Scale \in Nat
      BY <1>1, <1>2
    <3>6. r(s) = 0
      BY <1>1, <3>4, <3>5
    <3> QED BY <1>4, <1>9, <3>6
  <2>3. t \in Winners
    BY <1>1, <1>4, <1>9, <2>1, <2>2
  <2> QED BY <1>1, <1>9, <2>3
<1> QED BY <1>1, <1>6, <1>7, <1>8, <1>9

\* A student has no charged day exactly when every day is closed or cut.
LEMMA NoDays ==
    ASSUME Figures, NEW s \in Cohort
    PROVE  (\A d \in joined[s]..LastDay : {d} \X Meal \subseteq closed \cup away[s])
              <=> EffectiveDays(s) = 0
<1>1. EffectiveDays(s) = 0 <=> OptedIn(s) = {}
  BY DaysBounded, FS_EmptySet DEF EffectiveDays
<1>2. OptedIn(s) = {} <=>
        \A d \in joined[s]..LastDay : \A m \in Meal : <<d, m>> \in closed \cup away[s]
  BY DEF OptedIn
<1>3. \A d : {d} \X Meal \subseteq closed \cup away[s]
                <=> \A m \in Meal : <<d, m>> \in closed \cup away[s]
  OBVIOUS
<1> QED BY <1>1, <1>2, <1>3

(* ---- the specification ---- *)

\* The charges are not calculated yet, or are those of the figures.
ShareInv ==
    /\ joined \in [Cohort -> JoinDay]
    /\ away \in [Cohort -> Plan]
    /\ closed \in Closure
    /\ expenses \in Expense
    /\ charge \in {None, Charges}

\* The invariant is inductive: a calculation changes nothing it depends on.
LEMMA ShareInvariance == Spec => []ShareInv
<1>1. Init => ShareInv
  BY DEF Init, ShareInv
<1>2. ShareInv /\ [Calculate]_vars => ShareInv'
  <2> SUFFICES ASSUME ShareInv, [Calculate]_vars PROVE ShareInv'
    OBVIOUS
  <2>1. UNCHANGED <<joined, away, closed, expenses>>
    BY DEF Calculate, vars
  <2>2. Charges' = Charges
    BY <2>1 DEF Charges, Charge, ChargeableDays, EffectiveDays, OptedIn, Allocated, Share, Rate,
                GetsCent, Precedes, Remainder, CentsLeft
  <2>3. charge' \in {None, Charges}
    BY DEF Calculate, vars, ShareInv, Charges
  <2> QED BY <2>1, <2>2, <2>3 DEF ShareInv
<1> QED BY <1>1, <1>2, PTL DEF Spec

\* Under the invariant a calculation is under way with usable figures.
LEMMA InvariantFigures == ASSUME ShareInv PROVE Figures
  BY ExpenseAssumption DEF ShareInv, Figures

\* Every charge is a whole number of cents, at most all expenses.
THEOREM TypeCorrect == Spec => []TypeOK
<1>1. ASSUME ShareInv PROVE TypeOK
  <2>1. \A s \in Cohort : Charge(s) \in 0..expenses
    BY <1>1, InvariantFigures, ChargeBounded
  <2>2. Charges \in [Cohort -> 0..expenses]
    BY <2>1 DEF Charges
  <2> QED BY <1>1, <2>2 DEF ShareInv, TypeOK
<1> QED BY <1>1, ShareInvariance, PTL

\* However the shares are rounded, the charges are the expenses to the cent.
THEOREM ExpensesAreCovered == Spec => []ChargesCoverExpenses
<1>1. ASSUME ShareInv PROVE ChargesCoverExpenses
  BY <1>1, InvariantFigures, ChargesAddUp DEF ShareInv, ChargesCoverExpenses
<1> QED BY <1>1, ShareInvariance, PTL

\* Nobody pays a cent more or less than the exact share.
THEOREM ChargesAreExact == Spec => []ChargeWithinACent
<1>1. ASSUME ShareInv PROVE ChargeWithinACent
  <2> SUFFICES ASSUME charge # None, ChargeableDays > 0, NEW s \in Cohort
               PROVE  /\ -ChargeableDays < charge[s] * ChargeableDays - expenses * EffectiveDays(s)
                      /\ charge[s] * ChargeableDays - expenses * EffectiveDays(s) < ChargeableDays
    BY DEF ChargeWithinACent
  <2>1. charge[s] = Charge(s)
    BY <1>1 DEF ShareInv, Charges
  <2> QED BY <1>1, <2>1, InvariantFigures, ChargesAreClose
<1> QED BY <1>1, ShareInvariance, PTL

\* A cut or a closed day never makes the month dearer than it is for someone
\* charged for the same days and more.
THEOREM CutsNeverCost == Spec => []FewerDaysNeverDearer
<1>1. ASSUME ShareInv, charge # None, NEW s \in Cohort, NEW t \in Cohort
      PROVE  /\ OptedIn(s) \subseteq OptedIn(t) /\ OptedIn(s) # OptedIn(t) => charge[s] <= charge[t]
             /\ (\A d \in joined[s]..LastDay : {d} \X Meal \subseteq closed \cup away[s])
                   <=> EffectiveDays(s) = 0
             /\ EffectiveDays(s) = 0 => charge[s] = 0
  <2>1. Figures /\ charge[s] = Charge(s) /\ charge[t] = Charge(t)
    BY <1>1, InvariantFigures DEF ShareInv, Charges
  <2>2. CASE ChargeableDays = 0
    BY <2>1, <2>2, NoDays DEF Charge
  <2>3. CASE ChargeableDays > 0
    <3>1. ASSUME OptedIn(s) \subseteq OptedIn(t), OptedIn(s) # OptedIn(t)
          PROVE  EffectiveDays(s) < EffectiveDays(t)
      <4>1. IsFiniteSet(OptedIn(t)) /\ EffectiveDays(s) \in Int /\ EffectiveDays(t) \in Int
        BY <2>1, DaysBounded
      <4>2. Cardinality(OptedIn(s)) <= Cardinality(OptedIn(t))
            /\ Cardinality(OptedIn(t)) # Cardinality(OptedIn(s))
        BY <3>1, <4>1, FS_Subset
      <4> QED BY <4>1, <4>2 DEF EffectiveDays
    <3>2. ASSUME EffectiveDays(s) = 0 PROVE Charge(s) = 0
      <4>1. Charge(s) \in Nat /\ ChargeableDays \in Nat /\ expenses \in Nat
        BY <2>1, <2>3, ChargeParts, AllDaysBounded DEF Figures
      <4>2. Charge(s) * ChargeableDays - expenses * 0 < ChargeableDays
        BY <2>1, <2>3, <3>2, ChargesAreClose
      <4>3. Charge(s) >= 1 => Charge(s) * ChargeableDays >= ChargeableDays
        BY <4>1
      <4> QED BY <4>1, <4>2, <4>3
    <3> QED BY <2>1, <2>3, <3>1, <3>2, FewerDaysNotMore, NoDays
  <2> QED BY <2>1, <2>2, <2>3, AllDaysBounded, SizeAssumption
<1>2. ShareInv => FewerDaysNeverDearer
  BY <1>1 DEF FewerDaysNeverDearer
<1> QED BY <1>2, ShareInvariance, PTL
===============================================================================
