------------------------------- MODULE Recursion -------------------------------
(***************************************************************************)
(* The least number of a set, induction over the numbers up to a bound,    *)
(* and the existence of what a loop computes, for sets and functions       *)
(* instead of predicates and operators: what the proofs about the loops of *)
(* the code rest on.                                                       *)
(***************************************************************************)
EXTENDS Naturals, WellFoundedInduction, NaturalsInduction, TLAPS

\* A set of numbers that is not empty has a least one.
LEMMA LeastExists ==
  ASSUME NEW T, T \subseteq Nat, T # {}
  PROVE  \E x \in T : \A y \in T : x <= y
<1>1. IsWellFoundedOn(OpToRel(<, Nat), Nat)
  BY NatLessThanWellFounded
<1>2. PICK x \in T : \A y \in T : ~(<<y, x>> \in OpToRel(<, Nat))
  BY <1>1, WFMin
<1>3. \A y \in T : ~(y < x)
  <2> SUFFICES ASSUME NEW y \in T, y < x PROVE FALSE
    OBVIOUS
  <2>1. <<y, x>> \in Nat \X Nat /\ <<y, x>>[1] < <<y, x>>[2]
    OBVIOUS
  <2>2. <<y, x>> \in OpToRel(<, Nat)
    BY <2>1 DEF OpToRel
  <2> QED
    BY <1>2, <2>2
<1> QED
  BY <1>3

\* A set with 0 that has with each number below N the next one has them all.
LEMMA UpTo ==
  ASSUME NEW N \in Nat, NEW D, 0 \in D, \A n \in 0..(N - 1) : n \in D => n + 1 \in D
  PROVE  0..N \subseteq D
<1> SUFFICES ASSUME (0..N) \ D # {} PROVE FALSE
  OBVIOUS
<1>0. (0..N) \ D \subseteq Nat
  OBVIOUS
<1>1. PICK x \in (0..N) \ D : \A y \in (0..N) \ D : x <= y
  <2> DEFINE T == (0..N) \ D
  <2> HIDE DEF T
  <2>1. \E x \in T : \A y \in T : x <= y
    BY <1>0, LeastExists DEF T
  <2> QED BY <2>1 DEF T
<1>2. x \in Nat /\ x # 0 /\ x <= N /\ x \notin D
  OBVIOUS
<1>3. x - 1 \in 0..(N - 1) /\ x - 1 \in 0..N /\ ~(x <= x - 1) /\ x - 1 + 1 = x
  BY <1>2
<1>4. x - 1 \in D
  BY <1>1, <1>3
<1> QED
  BY <1>2, <1>3, <1>4

\* f lists what a loop of N rounds has after each of them, when round i takes s
\* to step[<<i, s>>].
IsLoop(f, N, S, b, step) == /\ f \in [0..N -> S]
                            /\ f[0] = b
                            /\ \A i \in 1..N : f[i] = step[<<i, f[i - 1]>>]

\* Every such loop has its results.
LEMMA LoopExists ==
  ASSUME NEW N \in Nat, NEW S, NEW b \in S, NEW step \in [(1..N) \X S -> S]
  PROVE  \E f : IsLoop(f, N, S, b, step)
<1> DEFINE Rounds(n, f) == /\ f[0] = b
                           /\ \A i \in 1..n : f[i] = step[<<i, f[i - 1]>>]
           D == {n \in 0..N : \E f \in [0..N -> S] : Rounds(n, f)}
<1>1. 0 \in D
  <2>1. [i \in 0..N |-> b] \in [0..N -> S] /\ Rounds(0, [i \in 0..N |-> b])
    OBVIOUS
  <2>2. 0 \in 0..N
    OBVIOUS
  <2> QED BY <2>1, <2>2
<1>2. ASSUME NEW n \in 0..(N - 1), n \in D PROVE n + 1 \in D
  <2>1. PICK f \in [0..N -> S] : Rounds(n, f)
    BY <1>2
  <2> DEFINE g == [f EXCEPT ![n + 1] = step[<<n + 1, f[n]>>]]
  <2>2. n + 1 \in 1..N /\ n \in 0..N /\ n + 1 \in 0..N
    OBVIOUS
  <2>3. step[<<n + 1, f[n]>>] \in S
    BY <2>2
  <2>4. g \in [0..N -> S]
    BY <2>2, <2>3
  <2>5. \A i \in 0..n : g[i] = f[i]
    BY <2>2
  <2>6. g[n + 1] = step[<<n + 1, g[n]>>]
    BY <2>2
  <2>7. Rounds(n + 1, g)
    <3> SUFFICES ASSUME NEW i \in 1..(n + 1) PROVE g[i] = step[<<i, g[i - 1]>>]
      BY <2>1, <2>5
    <3>1. CASE i = n + 1
      BY <3>1, <2>6
    <3>2. CASE i \in 1..n
      <4>1. i \in 0..n /\ i - 1 \in 0..n
        BY <3>2
      <4> HIDE DEF g
      <4> QED BY <2>1, <2>5, <3>2, <4>1
    <3> QED BY <3>1, <3>2
  <2> QED BY <2>2, <2>4, <2>7
<1>3. N \in D
  <2> HIDE DEF D
  <2>1. 0..N \subseteq D
    BY <1>1, <1>2, UpTo
  <2> QED BY <2>1
<1> QED
  BY <1>3 DEF IsLoop
=============================================================================
