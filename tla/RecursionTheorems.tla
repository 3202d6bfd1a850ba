------------------------- MODULE RecursionTheorems --------------------------
(***************************************************************************)
(* Induction over the natural numbers, and definition by recursion over    *)
(* them, with sets and functions in the place of operators: the theorems   *)
(* of NaturalsInduction take an operator, which these do without.          *)
(***************************************************************************)
EXTENDS Naturals, TLAPS, WellFoundedInduction

(* A set of natural numbers that is not empty has a least element.          *)
LEMMA LeastNat ==
    ASSUME NEW T, T \subseteq Nat, T # {}
    PROVE  \E n \in T : \A m \in T : n <= m
<1> DEFINE R == {ss \in Nat \X Nat : ss[1] < ss[2]}
<1>1. IsWellFoundedOn(R, Nat)
  BY NatLessThanWellFounded, Zenon DEF OpToRel
<1>2. PICK n \in T : \A m \in T : ~(<<m, n>> \in R)
  <2> HIDE DEF R
  <2> QED BY <1>1, WFMin
<1>3. ASSUME NEW m \in T PROVE n <= m
  <2>1. m \in Nat /\ n \in Nat
    OBVIOUS
  <2>2. ~(<<m, n>> \in R)
    BY <1>2
  <2>3. ~(m < n)
    BY <2>1, <2>2
  <2> QED
    BY <2>1, <2>3
<1> QED BY <1>3

(* Induction: a set with 0 that is closed under successor has them all.     *)
LEMMA SetInduction ==
    ASSUME NEW T, 0 \in T, \A n \in Nat : n \in T => n + 1 \in T
    PROVE  Nat \subseteq T
<1> SUFFICES ASSUME Nat \ T # {} PROVE FALSE
  OBVIOUS
<1>1. PICK n \in Nat \ T : \A m \in Nat \ T : n <= m
  <2> DEFINE U == Nat \ T
  <2>1. U \subseteq Nat /\ U # {}
    OBVIOUS
  <2> HIDE DEF U
  <2>2. \E n \in U : \A m \in U : n <= m
    BY <2>1, LeastNat
  <2> QED
    BY <2>2 DEF U
<1>2. n # 0 /\ n - 1 \in Nat
  BY <1>1
<1>3. n - 1 \in T
  BY <1>1, <1>2
<1>4. (n - 1) + 1 \in T
  BY <1>2, <1>3
<1> QED
  BY <1>1, <1>4

(* The same up to a bound.                                                  *)
LEMMA RangeInduction ==
    ASSUME NEW T, NEW N \in Nat, 0 \in T, \A n \in 0..(N - 1) : n \in T => n + 1 \in T
    PROVE  \A n \in 0..N : n \in T
<1> DEFINE U == {n \in Nat : n \in 0..N => n \in T}
<1>1. 0 \in U
  OBVIOUS
<1>2. ASSUME NEW n \in Nat, n \in U PROVE n + 1 \in U
  <2>1. CASE n + 1 \in 0..N
    <3>1. n \in 0..(N - 1)
      BY <2>1
    <3> QED
      BY <1>2, <3>1
  <2> QED
    BY <2>1
<1>3. Nat \subseteq U
  <2> HIDE DEF U
  <2> QED
    BY <1>1, <1>2, SetInduction
<1> QED
  BY <1>3

(* Functions that agree are equal.                                          *)
LEMMA Extensional ==
    ASSUME NEW A, NEW B, NEW f \in [A -> B], NEW g, DOMAIN g = A,
           g = [x \in A |-> g[x]], \A x \in A : f[x] = g[x]
    PROVE  f = g
<1>1. f = [x \in A |-> f[x]]
  OBVIOUS
<1>2. [x \in A |-> f[x]] = [x \in A |-> g[x]]
  OBVIOUS
<1> QED
  BY <1>1, <1>2

(* Each value of f is made by step of the one before it, from the first.     *)
Follows(f, first, step, n) ==
    f[0] = first /\ \A k \in 1..n : f[k] = step[<<f[k - 1], k>>]

(* There is such a function.                                                *)
LEMMA RecursiveFunction ==
    ASSUME NEW S, NEW first \in S, NEW step \in [S \X Nat -> S], NEW N \in Nat
    PROVE  \E f \in [0..N -> S] : Follows(f, first, step, N)
<1> DEFINE Ok(n, f) == Follows(f, first, step, n)
           T == {n \in Nat : \E f \in [0..n -> S] : Ok(n, f)}
<1> USE DEF Follows
<1>1. 0 \in T
  <2>1. [k \in 0..0 |-> first] \in [0..0 -> S] /\ Ok(0, [k \in 0..0 |-> first])
    OBVIOUS
  <2> QED
    BY <2>1
<1>2. ASSUME NEW n \in Nat, n \in T PROVE n + 1 \in T
  <2>1. PICK f \in [0..n -> S] : Ok(n, f)
    BY <1>2
  <2> DEFINE g == [k \in 0..(n + 1) |-> IF k = n + 1 THEN step[<<f[n], n + 1>>] ELSE f[k]]
  <2>2. step[<<f[n], n + 1>>] \in S
    OBVIOUS
  <2>3. g \in [0..(n + 1) -> S]
    BY <2>2
  <2>4. g[0] = first /\ g[n + 1] = step[<<f[n], n + 1>>] /\ \A k \in 0..n : g[k] = f[k]
    BY <2>1
  <2>5. ASSUME NEW k \in 1..(n + 1) PROVE g[k] = step[<<g[k - 1], k>>]
    <3> HIDE DEF g
    <3>1. CASE k = n + 1
      <4>1. k - 1 = n
        BY <3>1
      <4>2. g[k - 1] = f[n]
        BY <2>4, <4>1
      <4> QED
        BY <2>4, <3>1, <4>2
    <3>2. CASE k \in 1..n
      BY <2>1, <2>4, <3>2
    <3> QED
      BY <3>1, <3>2
  <2>6. Ok(n + 1, g)
    BY <2>4, <2>5
  <2> HIDE DEF g
  <2> QED
    BY <2>3, <2>6
<1>3. N \in T
  <2> HIDE DEF T
  <2>1. Nat \subseteq T
    BY <1>1, <1>2, SetInduction
  <2> QED
    BY <2>1
<1> QED
  BY <1>3
=============================================================================
