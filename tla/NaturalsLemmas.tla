--------------------------- MODULE NaturalsLemmas ---------------------------
(* Facts about the natural numbers that the proofs of several modules need. *)
EXTENDS Naturals, WellFoundedInduction, TLAPS

Less == {pair \in Nat \X Nat : pair[1] < pair[2]}

(* A set of natural numbers has a least one, unless it is empty. *)
LEMMA HasLeast ==
  ASSUME NEW S \in SUBSET Nat, S # {}
  PROVE  \E j \in S : \A m \in S : j <= m
<1>1. IsWellFoundedOn(Less, Nat)
  BY NatLessThanWellFounded DEF OpToRel, Less
<1>2. PICK x \in S : \A y \in S : <<y, x>> \notin Less
  BY <1>1, WFMin
<1>3. \A y \in S : ~(y < x)
  BY <1>2 DEF Less
<1>4. \A y \in S : x <= y
  BY <1>3
<1> QED
  BY <1>4

(* Induction, over a set in the place of a predicate. *)
LEMMA SetInduction ==
  ASSUME NEW S, 0 \in S, \A n \in Nat : n \in S => n + 1 \in S
  PROVE  Nat \subseteq S
<1> SUFFICES ASSUME Nat \ S # {} PROVE FALSE
  OBVIOUS
<1>1. PICK j \in Nat \ S : \A m \in Nat \ S : j <= m
  BY HasLeast
<1>2. j # 0 /\ j - 1 \in Nat /\ j - 1 + 1 = j
  BY <1>1
<1>3. j - 1 \in S
  BY <1>1, <1>2
<1> QED
  BY <1>1, <1>2, <1>3

(* A set of natural numbers up to a bound has a greatest one as well. *)
LEMMA HasGreatest ==
  ASSUME NEW n \in Nat, NEW S \in SUBSET (0..n), S # {}
  PROVE  \E j \in S : \A m \in S : m <= j
<1> DEFINE T == {n - m : m \in S}
<1>1. T \in SUBSET Nat /\ T # {}
  <2>1. \A m \in S : n - m \in Nat
    OBVIOUS
  <2>2. PICK m \in S : TRUE
    OBVIOUS
  <2>3. n - m \in T
    BY <2>2
  <2> QED
    BY <2>1, <2>3
<1>2. PICK t \in T : \A u \in T : t <= u
  BY <1>1, HasLeast
<1>3. PICK j \in S : t = n - j
  BY <1>2
<1>4. \A m \in S : n - j <= n - m
  BY <1>2, <1>3
<1> QED
  BY <1>4

(* Induction up to a bound, over what f has at each number. *)
LEMMA PrefixInduction ==
  ASSUME NEW T, NEW L \in Nat, NEW f, f[0] \in T,
         \A n \in 1..L : f[n - 1] \in T => f[n] \in T
  PROVE  \A n \in 0..L : f[n] \in T
<1> DEFINE S == {n \in Nat : n <= L => f[n] \in T}
<1>1. 0 \in S
  OBVIOUS
<1>2. ASSUME NEW n \in Nat, n \in S
      PROVE  n + 1 \in S
  <2>1. CASE n + 1 <= L
    <3>1. n + 1 \in 1..L /\ (n + 1) - 1 = n /\ f[n] \in T
      BY <1>2, <2>1
    <3>2. f[n + 1] \in T
      BY <3>1
    <3> QED
      BY <3>2
  <2> QED
    BY <2>1
<1>3. Nat \subseteq S
  BY <1>1, <1>2, SetInduction
<1> QED
  BY <1>3

(* The functions on 0..L that start from base and go on by step. *)
Recursions(T, L, base, step) ==
  {f \in [0..L -> T] : f[0] = base /\ \A n \in 1..L : f[n] = step[n][f[n - 1]]}

(* Recursion up to a bound: there is such a function. *)
LEMMA PrefixRecursion ==
  ASSUME NEW T, NEW L \in Nat, NEW base \in T, NEW step \in [1..L -> [T -> T]]
  PROVE  Recursions(T, L, base, step) # {}
<1> DEFINE Follows(f, m) ==
             f \in [0..m -> T] /\ f[0] = base /\ \A n \in 1..m : f[n] = step[n][f[n - 1]]
           S == {m \in Nat : m <= L => \E f : Follows(f, m)}
<1>1. 0 \in S
  <2>1. Follows([n \in 0..0 |-> base], 0)
    OBVIOUS
  <2> QED
    BY <2>1
<1>2. ASSUME NEW m \in Nat, m \in S
      PROVE  m + 1 \in S
  <2>1. CASE m + 1 <= L
    <3>1. PICK g : Follows(g, m)
      BY <1>2, <2>1
    <3>2. m + 1 \in 1..L /\ g[m] \in T
      BY <2>1, <3>1
    <3>3. step[m + 1][g[m]] \in T
      BY <3>2
    <3> DEFINE f == [n \in 0..(m + 1) |-> IF n <= m THEN g[n] ELSE step[m + 1][g[m]]]
    <3>4. f \in [0..(m + 1) -> T]
      BY <3>1, <3>3
    <3>5. f[0] = base
      BY <3>1
    <3>6. ASSUME NEW n \in 1..(m + 1)
          PROVE  f[n] = step[n][f[n - 1]]
      <4>1. n - 1 \in 0..m /\ f[n - 1] = g[n - 1]
        OBVIOUS
      <4>2. CASE n \in 1..m
        BY <3>1, <4>1, <4>2
      <4>3. CASE n = m + 1
        <5>1. f[n] = step[m + 1][g[m]] /\ n - 1 = m
          BY <4>3
        <5> QED
          BY <4>1, <4>3, <5>1
      <4> QED
        BY <4>2, <4>3
    <3>7. Follows(f, m + 1)
      BY <3>4, <3>5, <3>6
    <3> HIDE DEF Follows, f
    <3> QED
      BY <3>7
  <2> QED
    BY <2>1
<1>3. Nat \subseteq S
  <2> HIDE DEF S
  <2> QED
    BY <1>1, <1>2, SetInduction
<1>4. PICK f : Follows(f, L)
  BY <1>3
<1>5. f \in Recursions(T, L, base, step)
  BY <1>4 DEF Recursions
<1> QED
  BY <1>5
=============================================================================
