---------------------------- MODULE SetInduction ----------------------------
(***************************************************************************)
(* Induction on the natural numbers, said of sets and functions in place   *)
(* of predicates: a set of numbers has a least element, a set closed under *)
(* the successor is all of Nat, a function can be iterated.  The other     *)
(* proof modules use it where the code loops or searches.                  *)
(***************************************************************************)
EXTENDS Naturals, FiniteSetTheorems, WellFoundedInduction, TLAPS

LEMMA LeastElement ==
  ASSUME NEW T \in SUBSET Nat, T # {}
  PROVE  \E x \in T : \A y \in T : x <= y
<1> DEFINE R == StrictSubsetOrdering(Nat)
           U == {0 .. n : n \in T}
<1>1. IsWellFoundedOn(R, FiniteSubsetsOf(Nat))
  BY FS_StrictSubsetOrderingWellFounded
<1>2. U \subseteq FiniteSubsetsOf(Nat)
  <2>1. ASSUME NEW n \in Nat PROVE IsFiniteSet(0 .. n) /\ 0 .. n \in SUBSET Nat
    BY FS_Interval
  <2> QED
    BY <2>1 DEF FiniteSubsetsOf
<1>3. U # {}
  OBVIOUS
<1> HIDE DEF R
<1>4. PICK u \in U : \A v \in U : <<v, u>> \notin R
  <2> HIDE DEF U
  <2> QED
    BY <1>1, <1>2, <1>3, WFMin, Zenon
<1>5. PICK x \in T : u = 0 .. x
  OBVIOUS
<1>6. ASSUME NEW y \in T PROVE x <= y
  <2> SUFFICES ASSUME y < x PROVE FALSE
    OBVIOUS
  <2>1. <<0 .. y, 0 .. x>> \notin R
    BY <1>4, <1>5
  <2>2. 0 .. y \in SUBSET Nat /\ 0 .. x \in SUBSET Nat /\ 0 .. y \subseteq 0 .. x
    OBVIOUS
  <2>3. x \in 0 .. x /\ x \notin 0 .. y
    OBVIOUS
  <2>4. 0 .. y # 0 .. x
    BY <2>3
  <2> QED
    BY <2>1, <2>2, <2>4 DEF R, StrictSubsetOrdering
<1> QED
  BY <1>6

LEMMA InductionOnSet ==
  ASSUME NEW T \in SUBSET Nat, 0 \in T, \A n \in T : n + 1 \in T
  PROVE  T = Nat
<1> SUFFICES ASSUME Nat \ T # {} PROVE FALSE
  OBVIOUS
<1>1. PICK x \in Nat \ T : \A y \in Nat \ T : x <= y
  BY LeastElement
<1>2. x # 0 /\ x - 1 \in Nat
  BY <1>1
<1>3. x - 1 \in T
  BY <1>1, <1>2
<1> QED
  BY <1>1, <1>3

\* A function can be iterated.
Iterates(S, next, s) ==
  \E d \in [Nat -> S] : d[0] = s /\ \A k \in Nat : d[k + 1] = next[d[k]]

LEMMA IterationExists ==
  ASSUME NEW S, NEW next \in [S -> S], NEW s \in S
  PROVE  Iterates(S, next, s)
<1> USE DEF Iterates
<1> DEFINE Run(n) == {f \in [0 .. n -> S] : f[0] = s /\ \A k \in 0 .. n - 1 : f[k + 1] = next[f[k]]}
           T == {n \in Nat : Run(n) # {}}
<1>1. 0 \in T
  <2>1. [k \in 0 .. 0 |-> s] \in Run(0)
    OBVIOUS
  <2> QED
    BY <2>1
<1>2. ASSUME NEW n \in T PROVE n + 1 \in T
  <2>1. PICK f \in Run(n) : TRUE
    OBVIOUS
  <2> DEFINE g == [k \in 0 .. n + 1 |-> IF k = n + 1 THEN next[f[n]] ELSE f[k]]
  <2>2. g \in [0 .. n + 1 -> S]
    OBVIOUS
  <2>3. g[0] = s
    OBVIOUS
  <2>4. ASSUME NEW k \in 0 .. n PROVE g[k + 1] = next[g[k]]
    <3>1. CASE k = n
      BY <3>1
    <3>2. CASE k # n
      <4>1. k \in 0 .. n - 1 /\ k + 1 \in 0 .. n
        BY <3>2
      <4> QED
        BY <4>1
    <3> QED
      BY <3>1, <3>2
  <2> HIDE DEF g
  <2>5. g \in Run(n + 1)
    BY <2>2, <2>3, <2>4
  <2> QED
    BY <2>5
<1>3. T = Nat
  <2> HIDE DEF T
  <2>1. T \in SUBSET Nat
    BY DEF T
  <2> QED
    BY <1>1, <1>2, <2>1, InductionOnSet
<1>4. ASSUME NEW n \in Nat, NEW f \in Run(n), NEW g \in Run(n + 1)
      PROVE  f[n] = g[n]
  <2> DEFINE U == {k \in Nat : k <= n => f[k] = g[k]}
  <2>1. 0 \in U
    OBVIOUS
  <2>2. ASSUME NEW k \in U PROVE k + 1 \in U
    <3> SUFFICES ASSUME k + 1 <= n PROVE f[k + 1] = g[k + 1]
      OBVIOUS
    <3>1. k \in 0 .. n - 1 /\ k \in 0 .. (n + 1) - 1 /\ f[k] = g[k]
      OBVIOUS
    <3>2. f[k + 1] = next[f[k]] /\ g[k + 1] = next[g[k]]
      BY <3>1
    <3> QED
      BY <3>1, <3>2
  <2>3. U = Nat
    <3> HIDE DEF U
    <3>1. U \in SUBSET Nat
      BY DEF U
    <3> QED
      BY <2>1, <2>2, <3>1, InductionOnSet
  <2> QED
    BY <2>3
<1> DEFINE run(n) == CHOOSE f \in Run(n) : TRUE
           d == [n \in Nat |-> run(n)[n]]
<1>5. ASSUME NEW n \in Nat PROVE run(n) \in Run(n)
  <2>1. Run(n) # {}
    BY <1>3
  <2> HIDE DEF Run
  <2> QED
    BY <2>1
<1> HIDE DEF run
<1>6. d \in [Nat -> S]
  <2>1. ASSUME NEW n \in Nat PROVE run(n)[n] \in S
    BY <1>5
  <2> QED
    BY <2>1
<1>7. d[0] = s
  BY <1>5
<1>8. ASSUME NEW k \in Nat PROVE d[k + 1] = next[d[k]]
  <2>1. run(k) \in Run(k) /\ run(k + 1) \in Run(k + 1)
    BY <1>5
  <2>2. run(k)[k] = run(k + 1)[k]
    BY <1>4, <2>1
  <2>3. run(k + 1)[k + 1] = next[run(k + 1)[k]]
    BY <2>1
  <2> QED
    BY <2>2, <2>3
<1> QED
  BY <1>6, <1>7, <1>8
=============================================================================
