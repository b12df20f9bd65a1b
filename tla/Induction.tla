------------------------------- MODULE Induction ------------------------------
(* Induction over the natural numbers, stated with a set in place of a formula, *)
(* so that every prover can use it; and the functions that step along a         *)
(* sequence, which is how the models write their recursions.                    *)
EXTENDS Integers, Sequences, FiniteSetsExt, WellFoundedInduction, TLAPS

(* A set of natural numbers has a least element.                                *)
LEMMA LeastNatural ==
  ASSUME NEW T, T \subseteq Nat, T # {}
  PROVE  \E x \in T : \A y \in T : x <= y
<1> DEFINE R == OpToRel(<, Nat)
<1>1. IsWellFoundedOn(R, Nat)
  BY NatLessThanWellFounded
<1>2. \A x, y \in Nat : (<<y, x>> \in R) <=> y < x
  BY DEF OpToRel
<1> HIDE DEF R
<1>3. \E x \in T : \A y \in T : ~ (<<y, x>> \in R)
  BY <1>1, WFMin
<1>4. PICK x \in T : \A y \in T : ~ (<<y, x>> \in R)
  BY <1>3
<1>5. \A y \in T : ~ (y < x)
  BY <1>2, <1>4
<1>6. \A y \in T : x <= y
  BY <1>5
<1> QED
  BY <1>6

(* A set that holds 0 and is closed under successor holds every number.         *)
LEMMA SetInduction ==
  ASSUME NEW T, 0 \in T, \A n \in Nat : n \in T => n + 1 \in T
  PROVE  Nat \subseteq T
<1> SUFFICES ASSUME Nat \ T # {} PROVE FALSE
  OBVIOUS
<1>1. PICK x \in Nat \ T : \A y \in Nat \ T : x <= y
  BY LeastNatural
<1>2. x # 0 /\ x - 1 \in Nat
  BY <1>1
<1>3. x - 1 \in T
  BY <1>1, <1>2
<1> QED
  BY <1>1, <1>2, <1>3

(* f is what a step makes of base, over and over, along 1..n.                   *)
Iteration(f, base, n, step) == f[0] = base /\ \A i \in 1..n : f[i] = step[i][f[i - 1]]

(* There is such a function, with values where the steps stay.                  *)
LEMMA Iterates ==
  ASSUME NEW S, NEW base, base \in S, NEW n, n \in Nat, NEW step, step \in [1..n -> [S -> S]]
  PROVE  \E f \in [0..n -> S] : Iteration(f, base, n, step)
<1> DEFINE Upto(m) == \E f \in [0..m -> S] : Iteration(f, base, m, step)
           T == {m \in Nat : m <= n => Upto(m)}
<1>1. 0 \in T
  <2> DEFINE f == [i \in 0..0 |-> base]
  <2>1. f \in [0..0 -> S] /\ f[0] = base /\ 1..0 = {}
    OBVIOUS
  <2> QED
    BY <2>1 DEF Iteration
<1>2. ASSUME NEW m \in Nat, m \in T PROVE m + 1 \in T
  <2> SUFFICES ASSUME m + 1 <= n PROVE Upto(m + 1)
    OBVIOUS
  <2>1. PICK f \in [0..m -> S] : Iteration(f, base, m, step)
    BY <1>2
  <2> DEFINE g == [i \in 0..(m+1) |-> IF i = m + 1 THEN step[m+1][f[m]] ELSE f[i]]
  <2>2. step[m+1] \in [S -> S] /\ f[m] \in S
    BY <2>1
  <2>3. g \in [0..(m+1) -> S] /\ g[0] = base
    BY <2>1, <2>2 DEF Iteration
  <2>4. ASSUME NEW i \in 1..(m+1) PROVE g[i] = step[i][g[i-1]]
    <3>1. CASE i = m + 1
      <4>1. g[m+1] = step[m+1][f[m]] /\ g[m] = f[m] /\ i - 1 = m
        BY <3>1
      <4> HIDE DEF g
      <4> QED
        BY <3>1, <4>1
    <3>2. CASE i # m + 1
      BY <2>1, <3>2 DEF Iteration
    <3> QED
      BY <3>1, <3>2
  <2> HIDE DEF g
  <2>5. Iteration(g, base, m + 1, step)
    BY <2>3, <2>4 DEF Iteration
  <2> QED
    BY <2>3, <2>5
<1> HIDE DEF Upto
<1>3. Nat \subseteq T
  <2> HIDE DEF T
  <2> QED
    BY <1>1, <1>2, SetInduction
<1>4. Upto(n)
  BY <1>3
<1> QED
  BY <1>4 DEF Upto

(* What holds at the start and is kept by every step holds all along.           *)
LEMMA IterationStays ==
  ASSUME NEW f, NEW S, NEW n, n \in Nat, f[0] \in S,
         \A i \in 1..n : f[i - 1] \in S => f[i] \in S
  PROVE  \A i \in 0..n : f[i] \in S
<1> DEFINE T == {i \in Nat : i <= n => f[i] \in S}
<1>1. 0 \in T
  OBVIOUS
<1>2. ASSUME NEW i \in Nat, i \in T PROVE i + 1 \in T
  <2> SUFFICES ASSUME i + 1 <= n PROVE f[i + 1] \in S
    OBVIOUS
  <2>1. i + 1 \in 1..n /\ (i + 1) - 1 = i /\ f[i] \in S
    BY <1>2
  <2> QED
    BY <2>1
<1>3. Nat \subseteq T
  <2> HIDE DEF T
  <2> QED
    BY <1>1, <1>2, SetInduction
<1> QED
  BY <1>3

(* What FoldLeft computes of a sequence of length n is the function that takes   *)
(* the last index of a set of them away first; there is one, and along 1..i it   *)
(* steps from each index to the next.                                          *)
FoldsBy(g, base, n, step) ==
    /\ g[{}] = base
    /\ \A T \in SUBSET (1..n) : T # {} => g[T] = step[Max(T)][g[T \ {Max(T)}]]

LEMMA LastIndex ==
  ASSUME NEW n \in Nat, NEW T \in SUBSET (1..n), T # {}
  PROVE  Max(T) \in T /\ \A y \in T : Max(T) >= y
<1> DEFINE U == {n - x : x \in T}
<1>1. U \subseteq Nat /\ U # {} /\ \A x \in T : x \in Int
  <2>1. \A x \in T : x \in Int /\ n - x \in Nat
    <3>1. \A x \in T : x \in 1..n
      OBVIOUS
    <3> QED
      BY <3>1
  <2> QED
    BY <2>1
<1>2. PICK u \in U : \A v \in U : u <= v
  BY <1>1, LeastNatural
<1>3. PICK x \in T : u = n - x
  BY <1>2
<1>4. ASSUME NEW y \in T PROVE x >= y
  <2>1. n - y \in U
    OBVIOUS
  <2>2. n - x <= n - y /\ x \in Int /\ y \in Int
    BY <1>1, <1>2, <1>3, <2>1
  <2> QED
    BY <2>2
<1> QED
  BY <1>3, <1>4 DEF Max

LEMMA LastOf ==
  ASSUME NEW n \in Nat, NEW T \in SUBSET (1..n), n \in T
  PROVE  Max(T) = n
<1>1. Max(T) \in 1..n /\ Max(T) >= n
  BY LastIndex
<1> QED
  BY <1>1

LEMMA FoldsExist ==
  ASSUME NEW S, NEW base, base \in S, NEW n, n \in Nat, NEW step, step \in [1..n -> [S -> S]]
  PROVE  \E g \in [SUBSET (1..n) -> S] : FoldsBy(g, base, n, step)
<1> DEFINE Upto(m) == \E g \in [SUBSET (1..m) -> S] : FoldsBy(g, base, m, step)
           I == {m \in Nat : m <= n => Upto(m)}
<1>1. 0 \in I
  <2> DEFINE g == [T \in SUBSET (1..0) |-> base]
  <2>1. 1..0 = {} /\ g \in [SUBSET (1..0) -> S] /\ g[{}] = base
    OBVIOUS
  <2>2. \A T \in SUBSET (1..0) : T = {}
    BY <2>1
  <2> QED
    BY <2>1, <2>2 DEF FoldsBy
<1>2. ASSUME NEW m \in Nat, m \in I PROVE m + 1 \in I
  <2> HIDE DEF Upto
  <2> SUFFICES ASSUME m + 1 <= n PROVE Upto(m + 1)
    OBVIOUS
  <2>0. Upto(m)
    BY <1>2
  <2>1. PICK g \in [SUBSET (1..m) -> S] : FoldsBy(g, base, m, step)
    BY <2>0 DEF Upto
  <2> DEFINE h == [T \in SUBSET (1..(m + 1)) |->
                      IF m + 1 \in T THEN step[m + 1][g[T \ {m + 1}]] ELSE g[T]]
  <2>2. step[m + 1] \in [S -> S]
    OBVIOUS
  <2>3. \A T \in SUBSET (1..(m + 1)) : /\ T \ {m + 1} \in SUBSET (1..m)
                                       /\ m + 1 \notin T => T \in SUBSET (1..m)
    OBVIOUS
  <2>4. h \in [SUBSET (1..(m + 1)) -> S]
    BY <2>1, <2>2, <2>3
  <2>5. h[{}] = base
    BY <2>1 DEF FoldsBy
  <2>6. ASSUME NEW T \in SUBSET (1..(m + 1)), T # {}
        PROVE  h[T] = step[Max(T)][h[T \ {Max(T)}]]
    <3>1. CASE m + 1 \in T
      <4>1. Max(T) = m + 1
        BY <3>1, LastOf
      <4>2. h[T] = step[m + 1][g[T \ {m + 1}]]
        BY <3>1
      <4>3. h[T \ {m + 1}] = g[T \ {m + 1}]
        BY <2>3
      <4> HIDE DEF h
      <4> QED
        BY <4>1, <4>2, <4>3
    <3>2. CASE m + 1 \notin T
      <4>1. T \in SUBSET (1..m)
        BY <3>2, <2>3
      <4>2. g[T] = step[Max(T)][g[T \ {Max(T)}]]
        BY <4>1, <2>1, <2>6 DEF FoldsBy
      <4>3. h[T] = g[T] /\ h[T \ {Max(T)}] = g[T \ {Max(T)}]
        BY <3>2, <4>1
      <4> HIDE DEF h
      <4> QED
        BY <4>2, <4>3
    <3> QED
      BY <3>1, <3>2
  <2> HIDE DEF h
  <2>7. FoldsBy(h, base, m + 1, step)
    BY <2>5, <2>6 DEF FoldsBy
  <2> QED
    BY <2>4, <2>7 DEF Upto
<1> HIDE DEF Upto
<1>3. Nat \subseteq I
  <2> HIDE DEF I
  <2> QED
    BY <1>1, <1>2, SetInduction
<1>4. Upto(n)
  BY <1>3
<1> QED
  BY <1>4 DEF Upto

(* The indices up to i, as the folds take them apart.                          *)
LEMMA Prefix ==
  ASSUME NEW n \in Nat, NEW i \in 1..n
  PROVE  /\ 1..i \in SUBSET (1..n) /\ 1..i # {} /\ Max(1..i) = i
         /\ i \in 0..n /\ i - 1 \in 0..n /\ (1..i) \ {i} = 1..(i - 1)
<1>1. i \in Nat /\ i \in 1..i /\ i \in 0..n /\ i - 1 \in 0..n
  OBVIOUS
<1>2. (1..i) \ {i} = 1..(i - 1)
  OBVIOUS
<1>3. 1..i \in SUBSET (1..n)
  OBVIOUS
<1>4. Max(1..i) = i
  BY <1>1, LastOf
<1> QED
  BY <1>1, <1>2, <1>3, <1>4
=============================================================================
