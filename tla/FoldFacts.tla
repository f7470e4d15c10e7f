------------------------------- MODULE FoldFacts -------------------------------
(***************************************************************************)
(* Induction over a fold of a sequence.  The step of the fold and the      *)
(* invariant are operators, which the provers cannot take as the           *)
(* parameters of a lemma; as constants of a module they are replaced by    *)
(* INSTANCE.                                                               *)
(***************************************************************************)
EXTENDS Integers

CONSTANTS
  Op(_, _, _, _),   \* Op(p, e, acc, x): the step, for the parameters p and e
  Inv(_, _, _, _)   \* Inv(p, e, k, acc): what holds after k steps

\* The last of a set of positions.
LastOf(s) == CHOOSE x \in s : \A y \in s : x >= y

\* What FoldLeft of Lists stands for.
Fold(p, e, base, seq) ==
  LET iter[s \in SUBSET DOMAIN seq] ==
        IF s = {} THEN base
        ELSE LET x == LastOf(s) IN Op(p, e, iter[s \ {x}], seq[x])
  IN iter[DOMAIN seq]

\* An invariant of the steps holds of the fold.  (The first assumption is LeastNatural
\* of module Induction.)
THEOREM FoldInvariant ==
  ASSUME \A F \in SUBSET Nat : F # {} => \E n \in F : \A m \in F : n <= m,
         NEW p, NEW e, NEW base, NEW seq, NEW n \in Nat, DOMAIN seq = 1 .. n,
         Inv(p, e, 0, base),
         \A k \in 1 .. n : \A acc : Inv(p, e, k - 1, acc) => Inv(p, e, k, Op(p, e, acc, seq[k]))
  PROVE  Inv(p, e, n, Fold(p, e, base, seq))
<1> DEFINE Iterates(f, m) ==
             f = [s \in SUBSET (1 .. m) |->
                    IF s = {} THEN base ELSE Op(p, e, f[s \ {LastOf(s)}], seq[LastOf(s)])]
\* A nonempty set of positions has a last one.
<1>1. ASSUME NEW m \in Nat, NEW s \in SUBSET (1 .. m), s # {}
      PROVE  LastOf(s) \in s /\ \A y \in s : y <= LastOf(s)
  <2> DEFINE F == {m - x : x \in s}
  <2>1. F \in SUBSET Nat /\ F # {}
    <3>1. \A x \in s : x \in Int /\ 1 <= x /\ x <= m
      OBVIOUS
    <3>2. \A x \in s : m - x \in Nat
      BY <3>1
    <3>3. PICK x : x \in s
      BY <1>1
    <3>4. m - x \in F
      BY <3>3
    <3> QED BY <3>2, <3>4
  <2>2. PICK d \in F : \A c \in F : d <= c
    <3> HIDE DEF F
    <3> QED BY <2>1
  <2>3. PICK z \in s : d = m - z
    BY <2>2
  <2>4. \A y \in s : z >= y
    <3> TAKE y \in s
    <3>1. d <= m - y
      BY <2>2
    <3> QED BY <2>3, <3>1
  <2>5. \E x \in s : \A y \in s : x >= y
    BY <2>4
  <2>6. LastOf(s) \in s /\ \A y \in s : LastOf(s) >= y
    BY <2>5 DEF LastOf
  <2> QED BY <2>6
\* The fold is computed by a function that iterates the step.
<1>2. ASSUME NEW r \in Nat PROVE \E f : Iterates(f, r)
  <2> DEFINE Bad == {m \in Nat : ~\E f : Iterates(f, m)}
  <2> SUFFICES ASSUME Bad # {} PROVE FALSE
    OBVIOUS
  <2>1. PICK m \in Bad : \A k \in Bad : m <= k
    <3>1. Bad \in SUBSET Nat
      OBVIOUS
    <3> HIDE DEF Bad
    <3> QED BY <3>1
  <2>2. m # 0
    <3> DEFINE z == [s \in SUBSET (1 .. 0) |-> base]
    <3>1. \A s \in SUBSET (1 .. 0) : s = {}
      OBVIOUS
    <3>2. Iterates(z, 0)
      BY <3>1
    <3> QED BY <3>2
  <2>3. m - 1 \in Nat /\ m \in Nat
    BY <2>2
  <2>4. PICK g : Iterates(g, m - 1)
    <3> HIDE DEF Iterates
    <3> QED BY <2>1, <2>3
  <2> DEFINE f == [s \in SUBSET (1 .. m) |->
                    IF m \in s THEN Op(p, e, g[s \ {m}], seq[m]) ELSE g[s]]
  <2>5. ASSUME NEW s \in SUBSET (1 .. m), m \in s
        PROVE  /\ LastOf(s) = m /\ s \ {m} \in SUBSET (1 .. (m - 1))
               /\ s \ {m} \in SUBSET (1 .. m) /\ m \notin s \ {m} /\ s # {}
    <3>1. LastOf(s) \in s /\ \A y \in s : y <= LastOf(s)
      BY <1>1, <2>3, <2>5
    <3>2. LastOf(s) = m
      <4>1. LastOf(s) \in 1 .. m /\ m <= LastOf(s)
        BY <2>5, <3>1
      <4> QED BY <2>3, <4>1
    <3> QED BY <2>3, <2>5, <3>2
  <2>6. ASSUME NEW s \in SUBSET (1 .. m), m \notin s, s # {}
        PROVE  /\ s \in SUBSET (1 .. (m - 1)) /\ LastOf(s) \in s
               /\ s \ {LastOf(s)} \in SUBSET (1 .. m) /\ m \notin s \ {LastOf(s)}
    <3>1. s \in SUBSET (1 .. (m - 1))
      BY <2>3, <2>6
    <3> QED BY <1>1, <2>3, <2>6, <3>1
  <2>7. {} \in SUBSET (1 .. (m - 1)) /\ g[{}] = base
    <3>1. {} \in SUBSET (1 .. (m - 1))
      OBVIOUS
    <3> QED BY <2>4, <3>1
  <2>8. ASSUME NEW s \in SUBSET (1 .. m)
        PROVE  f[s] = IF s = {} THEN base ELSE Op(p, e, f[s \ {LastOf(s)}], seq[LastOf(s)])
    <3>1. CASE s = {}
      BY <2>7, <3>1
    <3>2. CASE m \in s
      <4>1. f[s \ {m}] = g[s \ {m}]
        BY <2>5, <3>2
      <4>2. f[s] = Op(p, e, g[s \ {m}], seq[m])
        BY <3>2
      <4> QED BY <2>5, <3>2, <4>1, <4>2
    <3>3. CASE m \notin s /\ s # {}
      <4>1. f[s] = g[s] /\ f[s \ {LastOf(s)}] = g[s \ {LastOf(s)}]
        BY <2>6, <3>3
      <4>2. g[s] = Op(p, e, g[s \ {LastOf(s)}], seq[LastOf(s)])
        BY <2>4, <2>6, <3>3
      <4> QED BY <3>3, <4>1, <4>2
    <3> QED BY <3>1, <3>2, <3>3
  <2>9. Iterates(f, m)
    <3>1. f = [s \in SUBSET (1 .. m) |-> f[s]]
      OBVIOUS
    <3> HIDE DEF f
    <3> QED BY <2>8, <3>1
  <2> QED BY <2>1, <2>9
<1> DEFINE Is(g) == Iterates(g, n)
           f == CHOOSE g : Is(g)
<1>3. Fold(p, e, base, seq) = f[1 .. n]
  BY DEF Fold, LastOf
<1>4. Is(f)
  <2>1. \E g : Is(g)
    BY <1>2
  <2> HIDE DEF Is
  <2> QED BY <2>1
<1> HIDE DEF f
<1> DEFINE Bad == {k \in 0 .. n : ~Inv(p, e, k, f[1 .. k])}
<1>5. SUFFICES ASSUME Bad # {} PROVE FALSE
  <2>1. Bad = {} => Inv(p, e, n, f[1 .. n])
    OBVIOUS
  <2> HIDE DEF Bad
  <2> QED BY <1>3, <2>1
<1>6. PICK m \in Bad : \A k \in Bad : m <= k
  <2>1. Bad \in SUBSET Nat
    OBVIOUS
  <2> HIDE DEF Bad
  <2> QED BY <1>5, <2>1
<1>7. m # 0
  <2>1. 1 .. 0 = {} /\ {} \in SUBSET (1 .. n)
    OBVIOUS
  <2>2. f[{}] = base
    BY <1>4, <2>1
  <2> QED BY <2>1, <2>2
<1>8. m \in 1 .. n /\ m - 1 \in 0 .. n
  BY <1>6, <1>7
<1>9. Inv(p, e, m - 1, f[1 .. (m - 1)])
  BY <1>6, <1>8
<1>10. f[1 .. m] = Op(p, e, f[1 .. (m - 1)], seq[m])
  <2>1. 1 .. m \in SUBSET (1 .. n) /\ 1 .. m # {} /\ m \in 1 .. m
    <3>1. m \in Nat /\ m <= n /\ 1 <= m
      BY <1>8
    <3>2. \A x \in 1 .. m : x \in 1 .. n
      BY <3>1
    <3>3. m \in 1 .. m
      BY <3>1
    <3> QED BY <3>2, <3>3
  <2>2. LastOf(1 .. m) = m
    <3>1. LastOf(1 .. m) \in 1 .. m /\ \A y \in 1 .. m : y <= LastOf(1 .. m)
      BY <1>1, <2>1
    <3> QED BY <1>8, <2>1, <3>1
  <2>3. (1 .. m) \ {m} = 1 .. (m - 1)
    BY <1>8
  <2>4. f[1 .. m] = Op(p, e, f[(1 .. m) \ {LastOf(1 .. m)}], seq[LastOf(1 .. m)])
    BY <1>4, <2>1
  <2> QED BY <2>2, <2>3, <2>4
<1> QED BY <1>6, <1>8, <1>9, <1>10
================================================================================
