---------------------------- MODULE LeastNumber -----------------------------
(***************************************************************************)
(* Every set of numbers has a least one: what the proofs about chains of   *)
(* environments and stacks of frames argue by induction with.              *)
(***************************************************************************)
EXTENDS Integers, FiniteSetTheorems, WellFoundedInduction, TLAPS

LEMMA LeastNumber ==
  ASSUME NEW T \in SUBSET Nat, T # {}
  PROVE  \E m \in T : \A n \in T : m <= n
<1> DEFINE Below == {1..n : n \in T}
           R     == StrictSubsetOrdering(Nat)
<1>1. Below # {}
  OBVIOUS
<1>2. Below \subseteq FiniteSubsetsOf(Nat)
  BY FS_Interval DEF FiniteSubsetsOf
<1>3. IsWellFoundedOn(R, FiniteSubsetsOf(Nat))
  BY FS_StrictSubsetOrderingWellFounded
<1> HIDE DEF R
<1>4. PICK x \in Below : \A y \in Below : ~(<<y, x>> \in R)
  <2> HIDE DEF Below
  <2> QED  BY <1>1, <1>2, <1>3, WFMin
<1> USE DEF R
<1>5. PICK m \in T : x = 1..m
  OBVIOUS
<1>6. \A n \in T : m <= n
  <2> SUFFICES ASSUME NEW n \in T, n < m PROVE FALSE
    OBVIOUS
  <2>1. 1..n \in Below /\ ~(<<1..n, 1..m>> \in R)
    BY <1>4, <1>5
  <2>2. 1..n \subseteq 1..m /\ 1..n # 1..m /\ 1..n \in SUBSET Nat /\ 1..m \in SUBSET Nat
    OBVIOUS
  <2> QED  BY <2>1, <2>2 DEF StrictSubsetOrdering
<1> QED  BY <1>6

\* f is computed from z in n steps, each a function of the one before.
Steps(n, V, h, z, f) ==
  f \in [0..n -> V] /\ f[0] = z /\ \A i \in 1..n : f[i] = h[i][f[i - 1]]

\* What is defined step by step is defined.
LEMMA StepsExist ==
  ASSUME NEW n \in Nat, NEW V, NEW h \in [1..n -> [V -> V]], NEW z \in V
  PROVE  \E f : Steps(n, V, h, z, f)
<1> DEFINE Done(m) == \E f \in [0..m -> V] : f[0] = z /\ \A i \in 1..m : f[i] = h[i][f[i - 1]]
           T == {m \in 0..n : ~Done(m)}
<1> SUFFICES ASSUME ~Done(n) PROVE FALSE
  BY DEF Steps
<1>1. T # {}
  <2>1. n \in T
    <3> HIDE DEF Done
    <3> QED  OBVIOUS
  <2> QED  BY <2>1
<1>2. PICK m \in T : \A k \in T : m <= k
  <2>1. T \in SUBSET Nat
    OBVIOUS
  <2> HIDE DEF T
  <2> QED  BY <1>1, <2>1, LeastNumber
<1>3. m \in 0..n /\ ~Done(m)
  OBVIOUS
<1>4. Done(0)
  <2> DEFINE f == [x \in 0..0 |-> z]
  <2>1. f \in [0..0 -> V] /\ f[0] = z /\ \A i \in 1..0 : f[i] = h[i][f[i - 1]]
    OBVIOUS
  <2> HIDE DEF f
  <2> QED  BY <2>1
<1>5. m - 1 \in 0..n /\ m \in 1..n /\ ~(m <= m - 1)
  <2>1. m # 0
    BY <1>3, <1>4
  <2> QED  BY <1>3, <2>1
<1>6. Done(m - 1)
  BY <1>2, <1>5
<1>7. PICK f \in [0..(m - 1) -> V] : f[0] = z /\ \A i \in 1..(m - 1) : f[i] = h[i][f[i - 1]]
  BY <1>6
<1> DEFINE last == h[m][f[m - 1]]
           g    == [x \in 0..m |-> IF x = m THEN last ELSE f[x]]
<1>8. \A x \in 0..m : x = m \/ x \in 0..(m - 1)
  BY <1>5
<1>9. last \in V
  BY <1>5, <1>7
<1>10. g \in [0..m -> V] /\ g[m] = last /\ \A x \in 0..(m - 1) : g[x] = f[x]
  <2> HIDE DEF last
  <2>1. m \in 0..m /\ \A x \in 0..(m - 1) : x \in 0..m /\ x # m
    BY <1>5
  <2>2. \A x \in 0..m : (IF x = m THEN last ELSE f[x]) \in V
    BY <1>7, <1>8, <1>9
  <2> QED  BY <2>1, <2>2
<1>11. \A i \in 1..m : i - 1 \in 0..(m - 1) /\ (i = m \/ (i \in 1..(m - 1) /\ i \in 0..(m - 1)))
  BY <1>5
<1>12. g[0] = z /\ \A i \in 1..m : g[i] = h[i][g[i - 1]]
  <2>1. 0 \in 0..(m - 1)
    BY <1>5
  <2> HIDE DEF g
  <2> QED  BY <1>7, <1>10, <1>11, <2>1
<1> HIDE DEF g
<1> QED  BY <1>3, <1>10, <1>12
=============================================================================
