------------------------------- MODULE Induction -------------------------------
(***************************************************************************)
(* Induction over data, in a form the provers can use: a least natural     *)
(* number, a minimal subset, the sum of a function over a finite set, and  *)
(* recursive functions.  The induction theorems of the library take an     *)
(* operator as their parameter; here the parameters are sets and           *)
(* functions.                                                              *)
(***************************************************************************)
EXTENDS Integers, FiniteSets, FiniteSetsExt, FiniteSetTheorems, TLAPS

\* Every nonempty set of naturals has a least element.
LEMMA LeastNatural ==
  ASSUME NEW F \in SUBSET Nat, F # {}
  PROVE  \E n \in F : \A m \in F : n <= m
<1> DEFINE R == {ss \in Nat \X Nat : ss[1] < ss[2]}
<1>1. IsWellFoundedOn(R, Nat)
  BY NatLessThanWellFounded DEF OpToRel
<1>2. \A m, n \in Nat : m < n => <<m, n>> \in R
  OBVIOUS
<1> HIDE DEF R
<1>3. PICK n \in F : \A m \in F : ~(<<m, n>> \in R)
  BY Zenon, <1>1, WFMin
<1>4. ASSUME NEW m \in F PROVE n <= m
  <2>1. m \in Nat /\ n \in Nat /\ ~(m < n)
    BY Zenon, <1>2, <1>3
  <2> QED BY <2>1
<1> QED BY <1>4

\* Every nonempty family of subsets of a finite set has a minimal member.
LEMMA MinimalSubset ==
  ASSUME NEW V, IsFiniteSet(V), NEW F \in SUBSET (SUBSET V), F # {}
  PROVE  \E A \in F : \A B \in F : B \subseteq A => B = A
<1>1. IsWellFoundedOn(StrictSubsetOrdering(V), SUBSET V)
  BY Zenon, FS_StrictSubsetOrderingWellFounded, FS_FiniteSubsetsOfFinite
<1>2. PICK A \in F : \A B \in F : ~(<<B, A>> \in StrictSubsetOrdering(V))
  <2> HIDE DEF StrictSubsetOrdering
  <2> QED BY <1>1, WFMin
<1>3. \A B \in F : B \subseteq A => B = A
  BY Zenon, <1>2 DEF StrictSubsetOrdering
<1> QED BY <1>3

\* F maps a function to the right-hand side of a recursive definition, whose value
\* at n depends on values at points of smaller rank only.
WellRanked(D, R, rank, F) ==
  /\ R # {} /\ rank \in [D -> Nat]
  /\ F \in [[D -> R] -> [D -> R]]
  /\ \A g, h \in [D -> R], n \in D :
        (\A m \in D : rank[m] < rank[n] => g[m] = h[m]) => F[g][n] = F[h][n]

\* A well-ranked recursive definition has a solution.
LEMMA RecursionExists ==
  ASSUME NEW D, NEW R, NEW rank, NEW F, WellRanked(D, R, rank, F)
  PROVE  \E f \in [D -> R] : f = F[f]
<1> USE DEF WellRanked
<1> DEFINE Approx(g, k) == \A n \in D : rank[n] < k => g[n] = F[g][n]
<1>1. ASSUME NEW k \in Nat, NEW g \in [D -> R], NEW h \in [D -> R],
             Approx(g, k), Approx(h, k), NEW n \in D, rank[n] < k
      PROVE  g[n] = h[n]
  <2> DEFINE Bad == {rank[x] : x \in {x \in D : rank[x] < k /\ g[x] # h[x]}}
  <2> SUFFICES ASSUME g[n] # h[n] PROVE FALSE
    OBVIOUS
  <2>1. rank[n] \in Bad
    BY <1>1
  <2>2. Bad \in SUBSET Nat
    OBVIOUS
  <2> HIDE DEF Bad
  <2>3. PICK r \in Bad : \A q \in Bad : r <= q
    BY <2>1, <2>2, LeastNatural
  <2>4. PICK x \in D : rank[x] = r /\ rank[x] < k /\ g[x] # h[x]
    BY <2>3 DEF Bad
  <2>5. ASSUME NEW m \in D, rank[m] < rank[x] PROVE g[m] = h[m]
    <3>1. rank[m] \in Nat /\ rank[x] \in Nat /\ rank[m] < k /\ ~(r <= rank[m])
      BY <2>4, <2>5
    <3> QED BY <2>3, <3>1 DEF Bad
  <2>6. g[x] = F[g][x] /\ h[x] = F[h][x]
    BY <1>1, <2>4
  <2> QED BY <2>4, <2>5, <2>6
<1>2. ASSUME NEW k \in Nat PROVE \E g \in [D -> R] : Approx(g, k)
  <2> DEFINE Bad == {j \in Nat : ~\E g \in [D -> R] : Approx(g, j)}
  <2>1. SUFFICES ASSUME Bad # {} PROVE FALSE
    BY Zenon
  <2>2. PICK j \in Bad : \A i \in Bad : j <= i
    <3>1. Bad \in SUBSET Nat
      OBVIOUS
    <3> HIDE DEF Bad
    <3> QED BY <2>1, <3>1, LeastNatural
  <2>3. j # 0
    <3>1. PICK g : g \in [D -> R]
      <4>1. PICK v : v \in R
        OBVIOUS
      <4> QED BY Zenon, <4>1, [n \in D |-> v] \in [D -> R]
    <3>2. Approx(g, 0)
      OBVIOUS
    <3> HIDE DEF Approx
    <3> QED BY <3>1, <3>2
  <2>4. j - 1 \in Nat /\ ~(j <= j - 1)
    BY <2>2, <2>3
  <2>5. PICK g \in [D -> R] : Approx(g, j - 1)
    <3> HIDE DEF Approx
    <3>1. j - 1 \notin Bad
      BY <2>2, <2>4
    <3> QED BY <2>4, <3>1
  <2>6. F[g] \in [D -> R]
    OBVIOUS
  <2>7. ASSUME NEW n \in D, rank[n] < j PROVE F[g][n] = F[F[g]][n]
    <3>1. ASSUME NEW m \in D, rank[m] < rank[n] PROVE g[m] = F[g][m]
      <4>1. rank[m] \in Nat /\ rank[n] \in Nat /\ j \in Nat
        OBVIOUS
      <4>2. rank[m] < j - 1
        BY <2>7, <3>1, <4>1
      <4> QED BY <2>5, <4>2
    <3> QED BY <2>6, <3>1
  <2>8. Approx(F[g], j)
    BY <2>7
  <2> HIDE DEF Approx
  <2> QED BY <2>2, <2>6, <2>8
<1> DEFINE G(k) == CHOOSE g \in [D -> R] : Approx(g, k)
           f == [n \in D |-> G(rank[n] + 1)[n]]
<1>3. ASSUME NEW k \in Nat PROVE G(k) \in [D -> R] /\ Approx(G(k), k)
  <2> HIDE DEF Approx
  <2> QED BY <1>2
<1> HIDE DEF G
<1>4. f \in [D -> R]
  <2>1. ASSUME NEW n \in D PROVE G(rank[n] + 1)[n] \in R
    <3>1. rank[n] + 1 \in Nat
      OBVIOUS
    <3> QED BY <1>3, <3>1
  <2> QED BY <2>1
<1>5. ASSUME NEW n \in D PROVE f[n] = F[f][n]
  <2> DEFINE g == G(rank[n] + 1)
  <2>1. rank[n] \in Nat /\ rank[n] + 1 \in Nat /\ rank[n] < rank[n] + 1
    OBVIOUS
  <2>2. g \in [D -> R] /\ Approx(g, rank[n] + 1)
    BY <1>3, <2>1
  <2>3. ASSUME NEW m \in D, rank[m] < rank[n] PROVE f[m] = g[m]
    <3>1. rank[m] \in Nat /\ rank[m] + 1 \in Nat /\ rank[m] < rank[m] + 1
      OBVIOUS
    <3>2. G(rank[m] + 1) \in [D -> R] /\ Approx(G(rank[m] + 1), rank[m] + 1)
      BY <1>3, <3>1
    <3>3. Approx(g, rank[m] + 1)
      <4>1. ASSUME NEW x \in D, rank[x] < rank[m] + 1 PROVE rank[x] < rank[n] + 1
        <5>1. rank[x] \in Nat
          OBVIOUS
        <5> QED BY <2>1, <2>3, <3>1, <4>1, <5>1
      <4> QED BY <2>2, <4>1
    <3> HIDE DEF g, Approx
    <3>4. G(rank[m] + 1)[m] = g[m]
      BY <1>1, <2>2, <3>1, <3>2, <3>3
    <3> QED BY <3>4
  <2>4. F[f][n] = F[g][n]
    BY Zenon, <1>4, <2>2, <2>3
  <2>5. f[n] = g[n] /\ g[n] = F[g][n]
    BY <2>1, <2>2
  <2> QED BY <2>4, <2>5
<1>6. f = F[f]
  <2>1. F[f] \in [D -> R]
    BY <1>4
  <2> HIDE DEF f
  <2> QED BY <1>4, <1>5, <2>1
<1> QED BY <1>4, <1>6

--------------------------------------------------------------------------------

\* The sum of f over a set, as the stakes of the models are written.
Total(f, S) == MapThenSumSet(LAMBDA v : f[v], S)

\* The chosen element of a nonempty set, which the fold takes first.
Pick(S) == CHOOSE x \in S : TRUE

\* What a fold that sums f computes at every subset of S.
SumsOver(f, S, sum) ==
  sum = [T \in SUBSET S |-> IF T = {} THEN 0 ELSE f[Pick(T)] + sum[T \ {Pick(T)}]]

\* The recursive function of the fold exists over a finite set.
LEMMA SumsExist ==
  ASSUME NEW V, IsFiniteSet(V), NEW f \in [V -> Int], NEW S \in SUBSET V
  PROVE  \E sum \in [SUBSET S -> Int] : SumsOver(f, S, sum)
<1> DEFINE D == SUBSET S
           rank == [T \in D |-> Cardinality(T)]
           Step(g, T) == IF T = {} THEN 0 ELSE f[Pick(T)] + g[T \ {Pick(T)}]
           F == [g \in [D -> Int] |-> [T \in D |-> Step(g, T)]]
<1>1. ASSUME NEW T \in D, T # {}
      PROVE  /\ Pick(T) \in T /\ T \ {Pick(T)} \in D
             /\ rank[T \ {Pick(T)}] < rank[T]
  <2>1. Pick(T) \in T
    BY <1>1 DEF Pick
  <2>2. IsFiniteSet(T)
    BY FS_Subset
  <2>3. Cardinality(T) \in Nat /\ Cardinality(T \ {Pick(T)}) = Cardinality(T) - 1
    BY <2>1, <2>2, FS_CardinalityType, FS_RemoveElement
  <2> QED BY <2>1, <2>3
<1>2. rank \in [D -> Nat]
  <2>1. \A T \in D : Cardinality(T) \in Nat
    BY FS_Subset, FS_CardinalityType
  <2> QED BY <2>1
<1>3. ASSUME NEW g \in [D -> Int], NEW T \in D PROVE Step(g, T) \in Int
  <2>1. CASE T = {}
    BY <2>1
  <2>2. CASE T # {}
    <3>1. f[Pick(T)] \in Int /\ g[T \ {Pick(T)}] \in Int
      BY Zenon, <1>1, <2>2
    <3> QED BY <2>2, <3>1
  <2> QED BY <2>1, <2>2
<1>4. F \in [[D -> Int] -> [D -> Int]]
  <2> HIDE DEF Step
  <2> QED BY Zenon, <1>3
<1>5. ASSUME NEW g \in [D -> Int], NEW h \in [D -> Int], NEW T \in D,
             \A X \in D : rank[X] < rank[T] => g[X] = h[X]
      PROVE  F[g][T] = F[h][T]
  <2>1. Step(g, T) = Step(h, T)
    BY Zenon, <1>1, <1>5
  <2> HIDE DEF Step
  <2> QED BY <2>1
<1>6. PICK sum \in [D -> Int] : sum = F[sum]
  <2>1. \A g, h \in [D -> Int], T \in D :
           (\A X \in D : rank[X] < rank[T] => g[X] = h[X]) => F[g][T] = F[h][T]
    BY Zenon, <1>5
  <2>2. Int # {}
    OBVIOUS
  <2>3. WellRanked(D, Int, rank, F)
    <3> HIDE DEF F, rank, D
    <3> QED BY <1>2, <1>4, <2>1, <2>2 DEF WellRanked
  <2> HIDE DEF F, rank, D
  <2> QED BY <2>3, RecursionExists
<1> QED BY Zenon, <1>6 DEF SumsOver

\* The fold computes a function that satisfies the equation of the sum.
LEMMA TotalOverSubset ==
  ASSUME NEW V, IsFiniteSet(V), NEW f \in [V -> Int], NEW S \in SUBSET V
  PROVE  \E sum : SumsOver(f, S, sum) /\ Total(f, S) = sum[S]
<1> DEFINE sum == CHOOSE g : SumsOver(f, S, g)
<1>1. SumsOver(f, S, sum)
  <2>1. \E g : SumsOver(f, S, g)
    BY Zenon, SumsExist
  <2> HIDE DEF SumsOver
  <2> QED BY <2>1
<1>2. Total(f, S) = sum[S]
  BY DEF Total, MapThenSumSet, MapThenFoldSet, SumsOver, Pick
<1> QED BY Zenon, <1>1, <1>2


\* The function the fold computes has one value at each subset, whichever set the
\* fold was started from.
LEMMA SumsAgree ==
  ASSUME NEW S, IsFiniteSet(S), NEW f, NEW A \in SUBSET S, NEW B \in SUBSET S,
         NEW g, NEW h, SumsOver(f, A, g), SumsOver(f, B, h),
         NEW T \in (SUBSET A) \cap (SUBSET B)
  PROVE  g[T] = h[T]
<1> DEFINE Bad == {X \in (SUBSET A) \cap (SUBSET B) : g[X] # h[X]}
<1>1. SUFFICES ASSUME Bad # {} PROVE FALSE
  OBVIOUS
<1>2. Bad \in SUBSET (SUBSET S)
  OBVIOUS
<1>3. PICK X \in Bad : \A Y \in Bad : Y \subseteq X => Y = X
  <2> HIDE DEF Bad
  <2> QED BY <1>1, <1>2, MinimalSubset
<1>4. CASE X = {}
  <2>1. g[X] = 0 /\ h[X] = 0
    BY <1>4 DEF SumsOver
  <2> QED BY <1>3, <2>1
<1>5. CASE X # {}
  <2> DEFINE Y == X \ {Pick(X)}
  <2>1. Pick(X) \in X
    BY <1>5 DEF Pick
  <2>2. g[X] = f[Pick(X)] + g[Y] /\ h[X] = f[Pick(X)] + h[Y]
    BY Zenon, <1>3, <1>5 DEF SumsOver
  <2>3. Y \notin Bad
    BY <1>3, <2>1
  <2>4. g[Y] = h[Y]
    BY <1>3, <2>3
  <2> QED BY <1>3, <2>2, <2>4
<1> QED BY <1>4, <1>5

\* The sum over the empty set, and over a set whose chosen element is taken out.
LEMMA TotalEquation ==
  ASSUME NEW V, IsFiniteSet(V), NEW f \in [V -> Int], NEW S \in SUBSET V
  PROVE  /\ S = {} => Total(f, S) = 0
         /\ S # {} => Total(f, S) = f[Pick(S)] + Total(f, S \ {Pick(S)})
<1>0. IsFiniteSet(S)
  BY FS_Subset
<1>1. PICK g : SumsOver(f, S, g) /\ Total(f, S) = g[S]
  BY <1>0, TotalOverSubset
<1>2. CASE S = {}
  BY <1>1, <1>2 DEF SumsOver
<1>3. CASE S # {}
  <2> DEFINE T == S \ {Pick(S)}
  <2>1. PICK h : SumsOver(f, T, h) /\ Total(f, T) = h[T]
    BY <1>0, TotalOverSubset
  <2>2. g[S] = f[Pick(S)] + g[T]
    BY Zenon, <1>1, <1>3 DEF SumsOver
  <2>3. g[T] = h[T]
    <3>1. T \in SUBSET S /\ S \in SUBSET S /\ T \in (SUBSET S) \cap (SUBSET T)
      OBVIOUS
    <3> HIDE DEF T
    <3> QED BY <1>0, <1>1, <2>1, <3>1, SumsAgree
  <2> QED BY <1>1, <1>3, <2>1, <2>2, <2>3
<1> QED BY <1>2, <1>3

\* A sum of integers is an integer, and of naturals a natural.
LEMMA TotalType ==
  ASSUME NEW V, IsFiniteSet(V), NEW f \in [V -> Int], NEW S \in SUBSET V
  PROVE  /\ Total(f, S) \in Int
         /\ f \in [V -> Nat] => Total(f, S) \in Nat
<1> DEFINE Good(X) == Total(f, X) \in Int /\ (f \in [V -> Nat] => Total(f, X) \in Nat)
           Bad == {X \in SUBSET V : ~Good(X)}
<1>1. SUFFICES ASSUME Bad # {} PROVE FALSE
  OBVIOUS
<1>2. PICK X \in Bad : \A Y \in Bad : Y \subseteq X => Y = X
  <2>1. Bad \in SUBSET (SUBSET V)
    OBVIOUS
  <2> HIDE DEF Bad
  <2> QED BY <1>1, <2>1, MinimalSubset
<1>3. CASE X = {}
  <2>1. X \in SUBSET V /\ Total(f, X) = 0
    BY Zenon, <1>2, <1>3, TotalEquation
  <2> QED BY <2>1
<1>4. CASE X # {}
  <2> DEFINE Y == X \ {Pick(X)}
  <2>1. Pick(X) \in X /\ Pick(X) \in V
    BY <1>4 DEF Pick
  <2>2. Total(f, X) = f[Pick(X)] + Total(f, Y)
    BY <1>2, <1>4, TotalEquation
  <2>3. Good(Y)
    BY <1>2, <2>1
  <2>4. f[Pick(X)] \in Int /\ (f \in [V -> Nat] => f[Pick(X)] \in Nat)
    BY <2>1
  <2> HIDE DEF Y
  <2>5. Good(X)
    BY <2>2, <2>3, <2>4
  <2> QED BY <1>2, <2>5
<1> QED BY <1>3, <1>4

\* Any element may be taken out of a sum first.
LEMMA TotalRemove ==
  ASSUME NEW V, IsFiniteSet(V), NEW f \in [V -> Int], NEW S \in SUBSET V, NEW y \in S
  PROVE  Total(f, S) = f[y] + Total(f, S \ {y})
<1> DEFINE Good(X) == \A z \in X : Total(f, X) = f[z] + Total(f, X \ {z})
           Bad == {X \in SUBSET V : ~Good(X)}
<1>1. SUFFICES ASSUME Bad # {} PROVE FALSE
  OBVIOUS
<1>2. PICK X \in Bad : \A Y \in Bad : Y \subseteq X => Y = X
  <2>1. Bad \in SUBSET (SUBSET V)
    OBVIOUS
  <2> HIDE DEF Bad
  <2> QED BY <1>1, <2>1, MinimalSubset
<1>3. PICK z \in X : Total(f, X) # f[z] + Total(f, X \ {z})
  BY Zenon, <1>2
<1> DEFINE x == Pick(X)
           Z == X \ {x, z}
<1>4. x \in X
  BY <1>3 DEF Pick
<1>5. Total(f, X) = f[x] + Total(f, X \ {x})
  BY <1>2, <1>3, TotalEquation
<1>6. x # z
  BY Zenon, <1>3, <1>5
<1>7. Total(f, X \ {x}) = f[z] + Total(f, Z)
  <2>1. Good(X \ {x})
    BY <1>2, <1>4
  <2>2. z \in X \ {x} /\ (X \ {x}) \ {z} = Z
    BY <1>6
  <2> QED BY Zenon, <2>1, <2>2
<1>8. Total(f, X \ {z}) = f[x] + Total(f, Z)
  <2>1. Good(X \ {z})
    BY <1>2
  <2>2. x \in X \ {z} /\ (X \ {z}) \ {x} = Z
    BY <1>4, <1>6
  <2> QED BY <2>1, <2>2
<1>9. f[x] \in Int /\ f[z] \in Int /\ Total(f, Z) \in Int
  BY <1>2, <1>4, TotalType
<1> HIDE DEF x, Z
<1> QED BY <1>3, <1>5, <1>7, <1>8, <1>9

\* The sum over a disjoint union.
LEMMA TotalDisjoint ==
  ASSUME NEW V, IsFiniteSet(V), NEW f \in [V -> Int], NEW A \in SUBSET V,
         NEW B \in SUBSET V, A \cap B = {}
  PROVE  Total(f, A \cup B) = Total(f, A) + Total(f, B)
<1> DEFINE Good(X) == A \cap X = {} => Total(f, A \cup X) = Total(f, A) + Total(f, X)
           Bad == {X \in SUBSET V : ~Good(X)}
<1>1. SUFFICES ASSUME Bad # {} PROVE FALSE
  BY Zenon
<1>2. PICK X \in Bad : \A Y \in Bad : Y \subseteq X => Y = X
  <2>1. Bad \in SUBSET (SUBSET V)
    OBVIOUS
  <2> HIDE DEF Bad
  <2> QED BY <1>1, <2>1, MinimalSubset
<1>3. A \cap X = {} /\ Total(f, A \cup X) # Total(f, A) + Total(f, X)
  BY <1>2
<1>4. X # {}
  <2> SUFFICES ASSUME X = {} PROVE FALSE
    OBVIOUS
  <2>1. Total(f, X) = 0 /\ A \cup X = A
    BY Zenon, TotalEquation
  <2>2. Total(f, A) \in Int
    BY TotalType
  <2> QED BY <1>3, <2>1, <2>2
<1>5. PICK x : x \in X
  BY <1>4
<1> DEFINE Y == X \ {x}
<1>6. Total(f, A \cup Y) = Total(f, A) + Total(f, Y)
  <2>1. Good(Y)
    BY <1>2, <1>5
  <2> QED BY <1>3, <2>1
<1>7. Total(f, X) = f[x] + Total(f, Y)
  BY <1>2, <1>5, TotalRemove
<1>8. Total(f, A \cup X) = f[x] + Total(f, A \cup Y)
  <2>1. (A \cup X) \ {x} = A \cup Y /\ x \in A \cup X /\ A \cup X \in SUBSET V
    BY <1>2, <1>3, <1>5
  <2> QED BY <2>1, TotalRemove
<1>9. f[x] \in Int /\ Total(f, A) \in Int /\ Total(f, Y) \in Int
  BY <1>2, <1>5, TotalType
<1> HIDE DEF Y
<1> QED BY <1>3, <1>6, <1>7, <1>8, <1>9

\* A larger set has a larger sum of naturals.
LEMMA TotalMonotone ==
  ASSUME NEW V, IsFiniteSet(V), NEW f \in [V -> Nat], NEW A \in SUBSET V, NEW B \in SUBSET A
  PROVE  Total(f, B) <= Total(f, A)
<1>1. f \in [V -> Int] /\ A \ B \in SUBSET V /\ B \in SUBSET V /\ B \cap (A \ B) = {}
      /\ B \cup (A \ B) = A
  OBVIOUS
<1>2. Total(f, A) = Total(f, B) + Total(f, A \ B)
  BY <1>1, TotalDisjoint
<1>3. Total(f, B) \in Nat /\ Total(f, A \ B) \in Nat
  BY <1>1, TotalType
<1> QED BY <1>2, <1>3

\* The modular law: what two sets share is counted twice.
LEMMA TotalModular ==
  ASSUME NEW V, IsFiniteSet(V), NEW f \in [V -> Int], NEW A \in SUBSET V, NEW B \in SUBSET V
  PROVE  Total(f, A \cup B) + Total(f, A \cap B) = Total(f, A) + Total(f, B)
<1> DEFINE D == B \ A
           C == A \cap B
<1>1. D \in SUBSET V /\ C \in SUBSET V /\ A \cap D = {} /\ C \cap D = {}
      /\ A \cup B = A \cup D /\ B = C \cup D
  OBVIOUS
<1>2. Total(f, A \cup D) = Total(f, A) + Total(f, D)
  BY <1>1, TotalDisjoint
<1>3. Total(f, C \cup D) = Total(f, C) + Total(f, D)
  BY <1>1, TotalDisjoint
<1>4. Total(f, A) \in Int /\ Total(f, C) \in Int /\ Total(f, D) \in Int
  BY <1>1, TotalType
<1>5. Total(f, A \cup B) = Total(f, A \cup D) /\ Total(f, B) = Total(f, C \cup D)
  BY <1>1
<1> HIDE DEF D, C
<1>6. Total(f, A \cup B) + Total(f, C) = Total(f, A) + Total(f, B)
  BY <1>2, <1>3, <1>4, <1>5
<1> QED BY <1>6 DEF C

================================================================================
