---------------------------- MODULE FoldTheorems ----------------------------
(***************************************************************************)
(* What the proofs need to know of recursion: the least element of a set,  *)
(* that a recursive function on an interval exists, and what a fold over a *)
(* finite set is. Induction is by the least counterexample. What a step    *)
(* does to a value is a function here, not an operator, so that the        *)
(* provers can instantiate it.                                             *)
(***************************************************************************)
EXTENDS Integers, Functions, FiniteSetTheorems, WellFoundedInduction, TLAPS

------------------------------------------------------------------------------
(* Least elements *)

\* A set of subsets of a finite set has one that contains no other.
LEMMA SmallestSubset ==
  ASSUME NEW S, IsFiniteSet(S), NEW Q \in SUBSET SUBSET S, Q # {}
  PROVE  \E T \in Q : \A U \in Q : U \subseteq T => U = T
<1>1. Q \subseteq FiniteSubsetsOf(S)
  BY FS_FiniteSubsetsOfFinite
<1>2. PICK T \in Q : \A U \in Q : <<U, T>> \notin StrictSubsetOrdering(S)
  BY <1>1, FS_StrictSubsetOrderingWellFounded, WFMin
<1>3. ASSUME NEW U \in Q, U \subseteq T PROVE U = T
  BY <1>2, <1>3, Zenon DEF StrictSubsetOrdering
<1> QED
  BY <1>3

\* A set of natural numbers has a least one.
LEMMA LeastNumber ==
  ASSUME NEW S \in SUBSET Nat, S # {}
  PROVE  \E m \in S : \A n \in S : m <= n
<1>1. PICK top \in S : TRUE
  OBVIOUS
<1> DEFINE I == 0..(top - 1)
           Q == {0..(n - 1) : n \in {x \in S : x <= top}}
<1>2. IsFiniteSet(I)
  BY FS_Interval
<1>3. Q \in SUBSET SUBSET I /\ Q # {}
  OBVIOUS
<1>4. PICK T \in Q : \A U \in Q : U \subseteq T => U = T
  <2> HIDE DEF Q, I
  <2> QED
    BY <1>2, <1>3, SmallestSubset
<1>5. PICK m \in S : m <= top /\ T = 0..(m - 1)
  OBVIOUS
<1>6. ASSUME NEW n \in S, n < m PROVE FALSE
  <2>1. 0..(n - 1) \in Q /\ 0..(n - 1) \subseteq T
    BY <1>5, <1>6
  <2>2. n \in T /\ n \notin 0..(n - 1)
    BY <1>5, <1>6
  <2> HIDE DEF Q
  <2> QED
    BY <1>4, <2>1, <2>2
<1> QED
  BY <1>6

\* Induction on an interval, the property being the set of what has it.
LEMMA IntervalInduction ==
  ASSUME NEW n \in Nat, NEW S, 0 \in S, \A d \in 1..n : d - 1 \in S => d \in S
  PROVE  \A d \in 0..n : d \in S
<1> DEFINE bad == {d \in 0..n : d \notin S}
<1>1. ASSUME bad # {} PROVE FALSE
  <2>1. PICK m \in bad : \A k \in bad : m <= k
    <3>1. bad \in SUBSET Nat
      OBVIOUS
    <3> HIDE DEF bad
    <3> QED
      BY <1>1, <3>1, LeastNumber
  <2>2. m \in 1..n /\ m - 1 \in 0..n /\ ~(m <= m - 1)
    OBVIOUS
  <2> QED
    BY <2>1, <2>2
<1> QED
  BY <1>1

------------------------------------------------------------------------------
(* Recursive functions on an interval *)

\* f goes from b through G, one value after the other.
IsRecursion(f, n, V, b, G) ==
  f \in [0..n -> V] /\ f[0] = b /\ \A d \in 1..n : f[d] = G[<<d, f[d - 1]>>]

\* A function on 0..n is defined by its first value and the step to the next one.
LEMMA Recursion ==
  ASSUME NEW n \in Nat, NEW V, NEW b \in V, NEW G \in [(1..n) \X V -> V]
  PROVE  \E f : IsRecursion(f, n, V, b, G)
<1> DEFINE Upto(m, f) == IsRecursion(f, m, V, b, G)
           bad == {m \in 0..n : ~\E f : Upto(m, f)}
<1>1. ASSUME bad # {} PROVE FALSE
  <2>1. PICK m \in bad : \A k \in bad : m <= k
    <3>1. bad \in SUBSET Nat
      OBVIOUS
    <3> HIDE DEF bad
    <3> QED
      BY <1>1, <3>1, LeastNumber
  <2>2. m # 0
    <3> DEFINE f == [d \in 0..0 |-> b]
    <3>1. Upto(0, f)
      BY DEF IsRecursion
    <3> QED
      BY <3>1
  <2>3. PICK f : Upto(m - 1, f)
    <3>1. m - 1 \in 0..n /\ ~(m <= m - 1)
      BY <2>2
    <3> QED
      BY <2>1, <3>1
  <2> DEFINE g == [d \in 0..m |-> IF d = m THEN G[<<m, f[m - 1]>>] ELSE f[d]]
  <2>4. m \in 1..n /\ m - 1 \in 0..(m - 1)
    BY <2>2
  <2>5. f[m - 1] \in V /\ <<m, f[m - 1]>> \in (1..n) \X V
    BY <2>3, <2>4 DEF IsRecursion
  <2>6. g \in [0..m -> V]
    BY <2>3, <2>4, <2>5 DEF IsRecursion
  <2>7. g[0] = b
    BY <2>3, <2>4 DEF IsRecursion
  <2>8. ASSUME NEW d \in 1..m PROVE g[d] = G[<<d, g[d - 1]>>]
    <3>1. d - 1 \in 0..m /\ d - 1 # m /\ g[d - 1] = f[d - 1]
      BY <2>4
    <3>2. CASE d = m
      BY <3>1, <3>2
    <3>3. CASE d # m
      BY <2>3, <2>4, <3>1, <3>3 DEF IsRecursion
    <3> QED
      BY <3>2, <3>3
  <2>9. Upto(m, g)
    BY <2>6, <2>7, <2>8 DEF IsRecursion
  <2> QED
    BY <2>1, <2>9
<1>2. n \notin bad
  BY <1>1
<1> QED
  BY <1>2

------------------------------------------------------------------------------
(* Folds over a finite set *)

\* The element a fold takes first.
First(s) == CHOOSE x \in s : TRUE

\* h is, for every subset of S, the fold with the step G from b.
IsFold(h, G, b, S, V) ==
  /\ h \in [SUBSET S -> V]
  /\ h[{}] = b
  /\ \A s \in SUBSET S : s # {} => h[s] = G[<<First(s), h[s \ {First(s)}]>>]

LEMMA FirstIsIn ==
  ASSUME NEW s, s # {}
  PROVE  First(s) \in s /\ s \ {First(s)} \subseteq s /\ s \ {First(s)} # s
BY DEF First

\* Folds over two sets agree on the subsets of both.
LEMMA FoldUnique ==
  ASSUME NEW S, IsFiniteSet(S), NEW T \in SUBSET S, NEW V, NEW b, NEW G, NEW h, NEW k,
         IsFold(h, G, b, S, V), IsFold(k, G, b, T, V)
  PROVE  \A s \in SUBSET T : h[s] = k[s]
<1> DEFINE bad == {s \in SUBSET T : h[s] # k[s]}
<1>1. ASSUME bad # {} PROVE FALSE
  <2>1. PICK s \in bad : \A u \in bad : u \subseteq s => u = s
    <3>1. IsFiniteSet(T) /\ bad \in SUBSET SUBSET T
      BY FS_Subset
    <3> HIDE DEF bad
    <3> QED
      BY <1>1, <3>1, SmallestSubset
  <2>2. s # {}
    BY DEF IsFold
  <2> DEFINE u == s \ {First(s)}
  <2>3. u \in SUBSET T /\ u \subseteq s /\ u # s
    BY <2>2, FirstIsIn
  <2>4. h[u] = k[u]
    BY <2>1, <2>3
  <2>5. h[s] = G[<<First(s), h[u]>>] /\ k[s] = G[<<First(s), k[u]>>]
    BY <2>2 DEF IsFold
  <2> QED
    BY <2>4, <2>5
<1> QED
  BY <1>1

\* A fold is defined by its first value and its step.
LEMMA FoldExists ==
  ASSUME NEW S, IsFiniteSet(S), NEW V, NEW b \in V, NEW G \in [S \X V -> V]
  PROVE  \E h : IsFold(h, G, b, S, V)
<1> DEFINE bad == {T \in SUBSET S : ~\E h : IsFold(h, G, b, T, V)}
           fold(T) == CHOOSE h : IsFold(h, G, b, T, V)
<1>1. ASSUME bad # {} PROVE FALSE
  <2>1. PICK T \in bad : \A U \in bad : U \subseteq T => U = T
    <3>1. bad \in SUBSET SUBSET S
      OBVIOUS
    <3> HIDE DEF bad
    <3> QED
      BY <1>1, <3>1, SmallestSubset
  <2>2. ASSUME NEW s \in SUBSET T, s # T PROVE IsFold(fold(s), G, b, s, V)
    BY <2>1, <2>2
  <2> HIDE DEF fold
  <2> DEFINE value(s) == fold(s)[s]
             last == value(T \ {First(T)})
             h == [s \in SUBSET T |-> IF s # T THEN value(s)
                                     ELSE IF T = {} THEN b ELSE G[<<First(T), last>>]]
  <2>3. ASSUME NEW s \in SUBSET T, s # T PROVE value(s) \in V
    BY <2>2, <2>3 DEF IsFold
  <2>4. T # {} => T \ {First(T)} \in SUBSET T /\ T \ {First(T)} # T /\ last \in V /\ First(T) \in S
    BY <2>3, FirstIsIn
  <2>5. h \in [SUBSET T -> V]
    <3>1. T # {} => G[<<First(T), last>>] \in V
      BY <2>4
    <3> HIDE DEF value, last
    <3> QED
      BY <2>3, <3>1
  <2>6. h[{}] = b
    <3>1. CASE T = {}
      BY <3>1
    <3>2. CASE T # {}
      BY <2>2, <3>2 DEF IsFold
    <3> QED
      BY <3>1, <3>2
  <2>7. ASSUME NEW s \in SUBSET T, s # {} PROVE h[s] = G[<<First(s), h[s \ {First(s)}]>>]
    <3> DEFINE u == s \ {First(s)}
    <3>1. u \in SUBSET T /\ u \in SUBSET s /\ u # s /\ u # T /\ h[u] = value(u)
      BY <2>7, FirstIsIn
    <3>2. CASE s = T
      BY <3>1, <3>2, <2>7
    <3>3. CASE s # T
      <4>1. IsFold(fold(s), G, b, s, V) /\ IsFold(fold(u), G, b, u, V)
        BY <2>2, <3>1, <3>3
      <4>2. fold(s)[u] = fold(u)[u]
        <5>1. IsFiniteSet(s)
          BY FS_Subset
        <5> HIDE DEF u
        <5> QED
          BY <3>1, <4>1, <5>1, FoldUnique
      <4>3. fold(s)[s] = G[<<First(s), fold(s)[u]>>]
        BY <4>1, <2>7 DEF IsFold
      <4> QED
        BY <3>1, <3>3, <4>2, <4>3
    <3> QED
      BY <3>2, <3>3
  <2>8. IsFold(h, G, b, T, V)
    <3> HIDE DEF h
    <3> QED
      BY <2>5, <2>6, <2>7 DEF IsFold
  <2> QED
    BY <2>1, <2>8
<1> QED
  BY <1>1

Commutes(G, S, V) ==
  \A x, y \in S : \A v \in V : G[<<x, G[<<y, v>>]>>] = G[<<y, G[<<x, v>>]>>]

\* When the order does not matter, any element may be the first.
LEMMA FoldRemove ==
  ASSUME NEW S, IsFiniteSet(S), NEW V, NEW b, NEW G, NEW h,
         IsFold(h, G, b, S, V), Commutes(G, S, V)
  PROVE  \A s \in SUBSET S : \A x \in s : h[s] = G[<<x, h[s \ {x}]>>]
<1> DEFINE bad == {s \in SUBSET S : \E x \in s : h[s] # G[<<x, h[s \ {x}]>>]}
<1>1. ASSUME bad # {} PROVE FALSE
  <2>1. PICK s \in bad : \A u \in bad : u \subseteq s => u = s
    <3>1. bad \in SUBSET SUBSET S
      OBVIOUS
    <3> HIDE DEF bad
    <3> QED
      BY <1>1, <3>1, SmallestSubset
  <2>2. PICK x \in s : h[s] # G[<<x, h[s \ {x}]>>]
    OBVIOUS
  <2> DEFINE y == First(s)
  <2>3. y \in s /\ h[s] = G[<<y, h[s \ {y}]>>]
    BY <2>2, FirstIsIn DEF IsFold
  <2>4. x # y
    BY <2>2, <2>3
  <2> HIDE DEF y
  <2> DEFINE r == s \ {x, y}
  <2>5. /\ s \ {y} \in SUBSET S /\ s \ {y} \subseteq s /\ s \ {y} # s
        /\ s \ {x} \in SUBSET S /\ s \ {x} \subseteq s /\ s \ {x} # s
        /\ x \in s \ {y} /\ (s \ {y}) \ {x} = r
        /\ y \in s \ {x} /\ (s \ {x}) \ {y} = r
        /\ r \in SUBSET S
    BY <2>3, <2>4
  <2> HIDE DEF r
  <2>6. h[s \ {y}] = G[<<x, h[r]>>]
    BY <2>1, <2>5
  <2>7. h[s \ {x}] = G[<<y, h[r]>>]
    BY <2>1, <2>5
  <2>8. h[r] \in V
    BY <2>5 DEF IsFold
  <2>9. G[<<y, G[<<x, h[r]>>]>>] = G[<<x, G[<<y, h[r]>>]>>]
    BY <2>3, <2>8 DEF Commutes
  <2> QED
    BY <2>2, <2>3, <2>6, <2>7, <2>9
<1> QED
  BY <1>1

------------------------------------------------------------------------------
(* Sums and products *)

ProductOnSet(f, S) == FoldFunctionOnSet(LAMBDA x, y : x * y, 1, f, S)

\* A sum is a fold.
LEMMA SumIsFold ==
  ASSUME NEW D, NEW f \in [D -> Int], NEW S \in SUBSET D, IsFiniteSet(S)
  PROVE  \E h : /\ IsFold(h, [p \in S \X Int |-> f[p[1]] + p[2]], 0, S, Int)
               /\ SumFunctionOnSet(f, S) = h[S]
<1> DEFINE G == [p \in S \X Int |-> f[p[1]] + p[2]]
           IsSolution(g) == g = [s \in SUBSET S |-> IF s = {} THEN 0
                                                   ELSE f[First(s)] + g[s \ {First(s)}]]
           solution == CHOOSE g : IsSolution(g)
<1>1. PICK h : IsFold(h, G, 0, S, Int)
  <2>1. G \in [S \X Int -> Int]
    OBVIOUS
  <2> HIDE DEF G
  <2> QED
    BY <2>1, FoldExists
<1>2. ASSUME NEW s \in SUBSET S, s # {}
      PROVE  h[s] = f[First(s)] + h[s \ {First(s)}]
  <2>1. /\ First(s) \in S /\ s \ {First(s)} \in SUBSET S
        /\ h[s] = G[<<First(s), h[s \ {First(s)}]>>]
    BY <1>1, <1>2, FirstIsIn DEF IsFold
  <2>2. h[s \ {First(s)}] \in Int
    BY <1>1, <2>1 DEF IsFold
  <2> QED
    BY <2>1, <2>2
<1>3. IsSolution(solution)
  <2>1. h = [s \in SUBSET S |-> h[s]] /\ h[{}] = 0
    BY <1>1 DEF IsFold
  <2>2. IsSolution(h)
    BY <1>2, <2>1
  <2> HIDE DEF IsSolution
  <2> QED
    BY <2>2
<1>4. solution[S] = h[S]
  <2> HIDE DEF solution
  <2> DEFINE bad == {s \in SUBSET S : solution[s] # h[s]}
  <2>1. ASSUME bad # {} PROVE FALSE
    <3>1. PICK s \in bad : \A u \in bad : u \subseteq s => u = s
      <4>1. bad \in SUBSET SUBSET S
        OBVIOUS
      <4> HIDE DEF bad
      <4> QED
        BY <2>1, <4>1, SmallestSubset
    <3>2. s # {}
      BY <1>1, <1>3 DEF IsFold
    <3>3. h[s \ {First(s)}] = solution[s \ {First(s)}]
      BY <3>1, <3>2, FirstIsIn
    <3>4. solution[s] = f[First(s)] + solution[s \ {First(s)}]
      BY <1>3, <3>2
    <3> QED
      BY <1>2, <3>1, <3>2, <3>3, <3>4
  <2> QED
    BY <2>1
<1>5. SumFunctionOnSet(f, S) = solution[S]
  BY DEF SumFunctionOnSet, FoldFunctionOnSet, MapThenFoldSet, First
<1> QED
  BY <1>1, <1>4, <1>5

LEMMA SumFacts ==
  ASSUME NEW D, NEW f \in [D -> Int], NEW S \in SUBSET D, IsFiniteSet(S)
  PROVE  /\ SumFunctionOnSet(f, S) \in Int
         /\ S = {} => SumFunctionOnSet(f, S) = 0
         /\ \A x \in S : SumFunctionOnSet(f, S) = f[x] + SumFunctionOnSet(f, S \ {x})
<1> DEFINE G(T) == [p \in T \X Int |-> f[p[1]] + p[2]]
<1>1. PICK h : IsFold(h, G(S), 0, S, Int) /\ SumFunctionOnSet(f, S) = h[S]
  BY SumIsFold
<1>2. SumFunctionOnSet(f, S) \in Int /\ (S = {} => SumFunctionOnSet(f, S) = 0)
  BY <1>1 DEF IsFold
<1>3. ASSUME NEW x \in S PROVE SumFunctionOnSet(f, S) = f[x] + SumFunctionOnSet(f, S \ {x})
  <2> DEFINE T == S \ {x}
  <2>1. IsFiniteSet(T) /\ T \in SUBSET D /\ T \in SUBSET S
    BY FS_Subset
  <2>2. PICK k : IsFold(k, G(T), 0, T, Int) /\ SumFunctionOnSet(f, T) = k[T]
    BY <2>1, SumIsFold
  <2>3. IsFold(k, G(S), 0, T, Int)
    <3>1. ASSUME NEW s \in SUBSET T, s # {}
          PROVE  k[s] = G(S)[<<First(s), k[s \ {First(s)}]>>]
      <4>1. First(s) \in T /\ First(s) \in S /\ s \ {First(s)} \in SUBSET T
        BY <2>1, <3>1, FirstIsIn
      <4>2. k[s \ {First(s)}] \in Int /\ k[s] = G(T)[<<First(s), k[s \ {First(s)}]>>]
        BY <2>2, <3>1, <4>1 DEF IsFold
      <4> QED
        BY <4>1, <4>2
    <3> QED
      BY <2>2, <3>1 DEF IsFold
  <2>4. h[T] = k[T]
    <3> HIDE DEF G, T
    <3> QED
      BY <1>1, <2>1, <2>3, FoldUnique
  <2>5. h[S] = G(S)[<<x, h[T]>>]
    <3>1. Commutes(G(S), S, Int)
      <4> SUFFICES ASSUME NEW y \in S, NEW z \in S, NEW v \in Int
                   PROVE  G(S)[<<y, G(S)[<<z, v>>]>>] = G(S)[<<z, G(S)[<<y, v>>]>>]
        BY DEF Commutes
      <4>1. f[y] \in Int /\ f[z] \in Int
        OBVIOUS
      <4>2. f[y] + v \in Int /\ f[z] + v \in Int
        BY <4>1
      <4>3. G(S)[<<y, f[z] + v>>] = f[y] + (f[z] + v) /\ G(S)[<<z, f[y] + v>>] = f[z] + (f[y] + v)
        BY <4>2
      <4>4. G(S)[<<z, v>>] = f[z] + v /\ G(S)[<<y, v>>] = f[y] + v
        OBVIOUS
      <4>5. f[y] + (f[z] + v) = f[z] + (f[y] + v)
        BY <4>1
      <4> HIDE DEF G
      <4> QED
        BY <4>3, <4>4, <4>5
    <3> HIDE DEF G
    <3> QED
      BY <1>1, <3>1, FoldRemove
  <2>6. h[T] \in Int
    BY <1>1, <2>1 DEF IsFold
  <2> QED
    BY <1>1, <2>2, <2>4, <2>5, <2>6
<1> QED
  BY <1>2, <1>3

\* The facts in the form the provers instantiate.
LEMMA SumRemove ==
  ASSUME NEW f, f \in [DOMAIN f -> Int], NEW S \in SUBSET DOMAIN f, IsFiniteSet(S), NEW x \in S
  PROVE  SumFunctionOnSet(f, S) = f[x] + SumFunctionOnSet(f, S \ {x})
BY SumFacts

\* Only the values on the set count.
LEMMA SumEqual ==
  ASSUME NEW D, NEW f \in [D -> Int], NEW E, NEW g \in [E -> Int],
         NEW S \in SUBSET (D \cap E), IsFiniteSet(S), \A x \in S : f[x] = g[x]
  PROVE  SumFunctionOnSet(f, S) = SumFunctionOnSet(g, S)
<1> DEFINE bad == {s \in SUBSET S : SumFunctionOnSet(f, s) # SumFunctionOnSet(g, s)}
<1>1. ASSUME bad # {} PROVE FALSE
  <2>1. PICK s \in bad : \A u \in bad : u \subseteq s => u = s
    <3>1. bad \in SUBSET SUBSET S
      OBVIOUS
    <3> HIDE DEF bad
    <3> QED
      BY <1>1, <3>1, SmallestSubset
  <2>2. IsFiniteSet(s) /\ s \in SUBSET D /\ s \in SUBSET E
    BY FS_Subset
  <2>3. PICK x \in s : TRUE
    BY <2>2, SumFacts
  <2>4. /\ SumFunctionOnSet(f, s) = f[x] + SumFunctionOnSet(f, s \ {x})
        /\ SumFunctionOnSet(g, s) = g[x] + SumFunctionOnSet(g, s \ {x})
    BY <2>2, SumFacts
  <2>5. SumFunctionOnSet(f, s \ {x}) = SumFunctionOnSet(g, s \ {x})
    BY <2>1
  <2> QED
    BY <2>4, <2>5
<1> QED
  BY <1>1

\* A product is a fold.
LEMMA ProductIsFold ==
  ASSUME NEW D, NEW f \in [D -> Int], NEW S \in SUBSET D, IsFiniteSet(S)
  PROVE  \E h : /\ IsFold(h, [p \in S \X Int |-> f[p[1]] * p[2]], 1, S, Int)
               /\ ProductOnSet(f, S) = h[S]
<1> DEFINE G == [p \in S \X Int |-> f[p[1]] * p[2]]
           IsSolution(g) == g = [s \in SUBSET S |-> IF s = {} THEN 1
                                                   ELSE f[First(s)] * g[s \ {First(s)}]]
           solution == CHOOSE g : IsSolution(g)
<1>1. PICK h : IsFold(h, G, 1, S, Int)
  <2>1. G \in [S \X Int -> Int]
    OBVIOUS
  <2> HIDE DEF G
  <2> QED
    BY <2>1, FoldExists
<1>2. ASSUME NEW s \in SUBSET S, s # {}
      PROVE  h[s] = f[First(s)] * h[s \ {First(s)}]
  <2>1. /\ First(s) \in S /\ s \ {First(s)} \in SUBSET S
        /\ h[s] = G[<<First(s), h[s \ {First(s)}]>>]
    BY <1>1, <1>2, FirstIsIn DEF IsFold
  <2>2. h[s \ {First(s)}] \in Int
    BY <1>1, <2>1 DEF IsFold
  <2> QED
    BY <2>1, <2>2
<1>3. IsSolution(solution)
  <2>1. h = [s \in SUBSET S |-> h[s]] /\ h[{}] = 1
    BY <1>1 DEF IsFold
  <2>2. IsSolution(h)
    BY <1>2, <2>1
  <2> HIDE DEF IsSolution
  <2> QED
    BY <2>2
<1>4. solution[S] = h[S]
  <2> HIDE DEF solution
  <2> DEFINE bad == {s \in SUBSET S : solution[s] # h[s]}
  <2>1. ASSUME bad # {} PROVE FALSE
    <3>1. PICK s \in bad : \A u \in bad : u \subseteq s => u = s
      <4>1. bad \in SUBSET SUBSET S
        OBVIOUS
      <4> HIDE DEF bad
      <4> QED
        BY <2>1, <4>1, SmallestSubset
    <3>2. s # {}
      BY <1>1, <1>3 DEF IsFold
    <3>3. h[s \ {First(s)}] = solution[s \ {First(s)}]
      BY <3>1, <3>2, FirstIsIn
    <3>4. solution[s] = f[First(s)] * solution[s \ {First(s)}]
      BY <1>3, <3>2
    <3> QED
      BY <1>2, <3>1, <3>2, <3>3, <3>4
  <2> QED
    BY <2>1
<1>5. ProductOnSet(f, S) = solution[S]
  BY DEF ProductOnSet, FoldFunctionOnSet, MapThenFoldSet, First
<1> QED
  BY <1>1, <1>4, <1>5

LEMMA ProductFacts ==
  ASSUME NEW D, NEW f \in [D -> Int], NEW S \in SUBSET D, IsFiniteSet(S)
  PROVE  /\ ProductOnSet(f, S) \in Int
         /\ S = {} => ProductOnSet(f, S) = 1
         /\ \A x \in S : ProductOnSet(f, S) = f[x] * ProductOnSet(f, S \ {x})
<1> DEFINE G(T) == [p \in T \X Int |-> f[p[1]] * p[2]]
<1>1. PICK h : IsFold(h, G(S), 1, S, Int) /\ ProductOnSet(f, S) = h[S]
  BY ProductIsFold
<1>2. ProductOnSet(f, S) \in Int /\ (S = {} => ProductOnSet(f, S) = 1)
  BY <1>1 DEF IsFold
<1>3. ASSUME NEW x \in S PROVE ProductOnSet(f, S) = f[x] * ProductOnSet(f, S \ {x})
  <2> DEFINE T == S \ {x}
  <2>1. IsFiniteSet(T) /\ T \in SUBSET D /\ T \in SUBSET S
    BY FS_Subset
  <2>2. PICK k : IsFold(k, G(T), 1, T, Int) /\ ProductOnSet(f, T) = k[T]
    BY <2>1, ProductIsFold
  <2>3. IsFold(k, G(S), 1, T, Int)
    <3>1. ASSUME NEW s \in SUBSET T, s # {}
          PROVE  k[s] = G(S)[<<First(s), k[s \ {First(s)}]>>]
      <4>1. First(s) \in T /\ First(s) \in S /\ s \ {First(s)} \in SUBSET T
        BY <2>1, <3>1, FirstIsIn
      <4>2. k[s \ {First(s)}] \in Int /\ k[s] = G(T)[<<First(s), k[s \ {First(s)}]>>]
        BY <2>2, <3>1, <4>1 DEF IsFold
      <4> QED
        BY <4>1, <4>2
    <3> QED
      BY <2>2, <3>1 DEF IsFold
  <2>4. h[T] = k[T]
    <3> HIDE DEF G, T
    <3> QED
      BY <1>1, <2>1, <2>3, FoldUnique
  <2>5. h[S] = G(S)[<<x, h[T]>>]
    <3>1. Commutes(G(S), S, Int)
      <4> SUFFICES ASSUME NEW y \in S, NEW z \in S, NEW v \in Int
                   PROVE  G(S)[<<y, G(S)[<<z, v>>]>>] = G(S)[<<z, G(S)[<<y, v>>]>>]
        BY DEF Commutes
      <4>1. f[y] \in Int /\ f[z] \in Int
        OBVIOUS
      <4>2. f[y] * v \in Int /\ f[z] * v \in Int
        BY <4>1
      <4>3. G(S)[<<y, f[z] * v>>] = f[y] * (f[z] * v) /\ G(S)[<<z, f[y] * v>>] = f[z] * (f[y] * v)
        BY <4>2
      <4>4. G(S)[<<z, v>>] = f[z] * v /\ G(S)[<<y, v>>] = f[y] * v
        OBVIOUS
      <4>5. f[y] * (f[z] * v) = f[z] * (f[y] * v)
        BY <4>1
      <4> HIDE DEF G
      <4> QED
        BY <4>3, <4>4, <4>5
    <3> HIDE DEF G
    <3> QED
      BY <1>1, <3>1, FoldRemove
  <2>6. h[T] \in Int
    BY <1>1, <2>1 DEF IsFold
  <2> QED
    BY <1>1, <2>2, <2>4, <2>5, <2>6
<1> QED
  BY <1>2, <1>3

\* The facts in the form the provers instantiate.
LEMMA ProductRemove ==
  ASSUME NEW f, f \in [DOMAIN f -> Int], NEW S \in SUBSET DOMAIN f, IsFiniteSet(S), NEW x \in S
  PROVE  ProductOnSet(f, S) = f[x] * ProductOnSet(f, S \ {x})
BY ProductFacts

\* Only the values on the set count.
LEMMA ProductEqual ==
  ASSUME NEW D, NEW f \in [D -> Int], NEW E, NEW g \in [E -> Int],
         NEW S \in SUBSET (D \cap E), IsFiniteSet(S), \A x \in S : f[x] = g[x]
  PROVE  ProductOnSet(f, S) = ProductOnSet(g, S)
<1> DEFINE bad == {s \in SUBSET S : ProductOnSet(f, s) # ProductOnSet(g, s)}
<1>1. ASSUME bad # {} PROVE FALSE
  <2>1. PICK s \in bad : \A u \in bad : u \subseteq s => u = s
    <3>1. bad \in SUBSET SUBSET S
      OBVIOUS
    <3> HIDE DEF bad
    <3> QED
      BY <1>1, <3>1, SmallestSubset
  <2>2. IsFiniteSet(s) /\ s \in SUBSET D /\ s \in SUBSET E
    BY FS_Subset
  <2>3. PICK x \in s : TRUE
    BY <2>2, ProductFacts
  <2>4. /\ ProductOnSet(f, s) = f[x] * ProductOnSet(f, s \ {x})
        /\ ProductOnSet(g, s) = g[x] * ProductOnSet(g, s \ {x})
    BY <2>2, ProductFacts
  <2>5. ProductOnSet(f, s \ {x}) = ProductOnSet(g, s \ {x})
    BY <2>1
  <2> QED
    BY <2>4, <2>5
<1> QED
  BY <1>1

\* A sum over an interval, from its first number on or from its last one back.
LEMMA IntervalSums ==
  ASSUME NEW n \in Nat, NEW f \in [1..n -> Int]
  PROVE  /\ SumFunctionOnSet(f, 1..0) = 0
         /\ SumFunctionOnSet(f, (n + 1)..n) = 0
         /\ SumFunction(f) = SumFunctionOnSet(f, 1..n)
         /\ \A d \in 1..n :
              /\ SumFunctionOnSet(f, 1..d) = f[d] + SumFunctionOnSet(f, 1..(d - 1))
              /\ SumFunctionOnSet(f, d..n) = f[d] + SumFunctionOnSet(f, (d + 1)..n)
              /\ SumFunctionOnSet(f, 1..(d - 1)) \in Int
              /\ SumFunctionOnSet(f, (d + 1)..n) \in Int
<1>1. f \in [DOMAIN f -> Int] /\ DOMAIN f = 1..n
  OBVIOUS
<1>2. IsFiniteSet({}) /\ {} \in SUBSET (1..n) /\ 1..0 = {} /\ (n + 1)..n = {}
  BY FS_EmptySet
<1>3. SumFunctionOnSet(f, 1..0) = 0 /\ SumFunctionOnSet(f, (n + 1)..n) = 0
  BY <1>1, <1>2, SumFacts
<1>4. SumFunction(f) = SumFunctionOnSet(f, 1..n)
  BY <1>1 DEF SumFunction, SumFunctionOnSet, FoldFunction
<1>5. ASSUME NEW d \in 1..n
      PROVE  /\ SumFunctionOnSet(f, 1..d) = f[d] + SumFunctionOnSet(f, 1..(d - 1))
             /\ SumFunctionOnSet(f, d..n) = f[d] + SumFunctionOnSet(f, (d + 1)..n)
             /\ SumFunctionOnSet(f, 1..(d - 1)) \in Int
             /\ SumFunctionOnSet(f, (d + 1)..n) \in Int
  <2>1. /\ 1..d \in SUBSET (1..n) /\ d \in 1..d /\ (1..d) \ {d} = 1..(d - 1)
        /\ d..n \in SUBSET (1..n) /\ d \in d..n /\ (d..n) \ {d} = (d + 1)..n
        /\ 1..(d - 1) \in SUBSET (1..n) /\ (d + 1)..n \in SUBSET (1..n)
    OBVIOUS
  <2>2. IsFiniteSet(1..d) /\ IsFiniteSet(d..n) /\ IsFiniteSet(1..(d - 1)) /\ IsFiniteSet((d + 1)..n)
    BY FS_Interval
  <2>3. ASSUME NEW S \in SUBSET (1..n), IsFiniteSet(S), NEW x \in S
        PROVE  SumFunctionOnSet(f, S) = f[x] + SumFunctionOnSet(f, S \ {x})
    BY <1>1, <2>3, SumRemove
  <2>4. /\ SumFunctionOnSet(f, 1..d) = f[d] + SumFunctionOnSet(f, (1..d) \ {d})
        /\ SumFunctionOnSet(f, d..n) = f[d] + SumFunctionOnSet(f, (d..n) \ {d})
    BY <2>1, <2>2, <2>3
  <2>5. SumFunctionOnSet(f, 1..(d - 1)) \in Int /\ SumFunctionOnSet(f, (d + 1)..n) \in Int
    BY <1>1, <2>1, <2>2, SumFacts
  <2> QED
    BY <2>1, <2>4, <2>5
<1> QED
  BY <1>3, <1>4, <1>5
=============================================================================
