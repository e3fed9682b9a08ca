--------------------------- MODULE FoldInduction ---------------------------
(***************************************************************************)
(* What holds of a fold over a sequence: it is defined, and it keeps what  *)
(* each of its steps keeps.  Visit is the step, in a context c; Kept says  *)
(* what holds of the value x after i of the steps from base over s.        *)
(***************************************************************************)
EXTENDS LeastNumber, Sequences

CONSTANTS Visit(_, _, _), Kept(_, _, _, _, _)

Folded(c, base, s) ==
  LET f[i \in 0..Len(s)] == IF i = 0 THEN base ELSE Visit(c, f[i - 1], s[i]) IN f[Len(s)]

\* f is the first n steps.
Stepped(c, base, s, n, f) ==
  f = [i \in 0..n |-> IF i = 0 THEN base ELSE Visit(c, f[i - 1], s[i])]

LEMMA FoldExists ==
  ASSUME NEW c, NEW base, NEW s, NEW n \in Nat
  PROVE  \E f : Stepped(c, base, s, n, f)
<1> DEFINE T == {m \in 0..n : ~ \E f : Stepped(c, base, s, m, f)}
<1> SUFFICES ASSUME T # {} PROVE FALSE
  <2>1. n \in 0..n
    OBVIOUS
  <2> QED  BY <2>1
<1>1. PICK m \in T : \A k \in T : m <= k
  <2>1. T \in SUBSET Nat
    OBVIOUS
  <2> HIDE DEF T
  <2> QED  BY <2>1, LeastNumber
<1>2. m \in 0..n /\ ~ \E f : Stepped(c, base, s, m, f)
  OBVIOUS
<1>3. \E f : Stepped(c, base, s, 0, f)
  <2>1. PICK f : f = [i \in 0..0 |-> base]
    OBVIOUS
  <2>2. Stepped(c, base, s, 0, f)
    BY <2>1 DEF Stepped
  <2> QED  BY <2>2
<1>4. m \in 1..n /\ m - 1 \in 0..n /\ ~(m <= m - 1) /\ m - 1 \in Nat
  <2>1. m # 0
    BY <1>2, <1>3
  <2> QED  BY <1>2, <2>1
<1>5. PICK f : Stepped(c, base, s, m - 1, f)
  BY <1>1, <1>4
<1> DEFINE last == Visit(c, f[m - 1], s[m])
<1>6. PICK g : g = [i \in 0..m |-> IF i = m THEN last ELSE f[i]]
  OBVIOUS
<1>7. /\ \A i \in 0..m : i = m \/ i \in 0..(m - 1)
      /\ \A i \in 0..(m - 1) :
           /\ i # m /\ i \in 0..m
           /\ i # 0 => i - 1 \in 0..(m - 1) /\ i - 1 \in 0..m /\ i - 1 # m
      /\ m - 1 \in 0..(m - 1) /\ m # 0 /\ m \in 0..m
  BY <1>4
<1> HIDE DEF T
<1>8. \A i \in 0..(m - 1) : f[i] = IF i = 0 THEN base ELSE Visit(c, f[i - 1], s[i])
  BY <1>5 DEF Stepped
<1>9. \A i \in 0..m : g[i] = IF i = 0 THEN base ELSE Visit(c, g[i - 1], s[i])
  <2> TAKE i \in 0..m
  <2>1. CASE i = m
    BY <1>6, <1>7, <2>1
  <2>2. CASE i \in 0..(m - 1)
    <3>1. g[i] = f[i] /\ (i # 0 => g[i - 1] = f[i - 1])
      BY <1>6, <1>7, <2>2
    <3> QED  BY <1>8, <2>2, <3>1
  <2> QED  BY <1>7, <2>1, <2>2
<1>10. g = [i \in 0..m |-> g[i]]
  BY <1>6
<1>11. Stepped(c, base, s, m, g)
  BY <1>9, <1>10 DEF Stepped
<1> QED  BY <1>2, <1>11

LEMMA FoldKeeps ==
  ASSUME NEW c, NEW base, NEW s, Len(s) \in Nat,
         Kept(c, base, s, 0, base),
         \A i \in 1..Len(s) : \A x :
           Kept(c, base, s, i - 1, x) => Kept(c, base, s, i, Visit(c, x, s[i]))
  PROVE  Kept(c, base, s, Len(s), Folded(c, base, s))
<1> DEFINE n == Len(s)
           w == CHOOSE f : Stepped(c, base, s, n, f)
           Bad == {m \in 0..n : ~Kept(c, base, s, m, w[m])}
<1>1. Stepped(c, base, s, n, w)
  BY FoldExists
<1>2. Folded(c, base, s) = w[n]
  BY DEF Folded, Stepped
<1>3. w[0] = base /\ \A i \in 1..n : w[i] = Visit(c, w[i - 1], s[i])
  <2> HIDE DEF w
  <2>1. \A i \in 0..n : w[i] = IF i = 0 THEN base ELSE Visit(c, w[i - 1], s[i])
    BY <1>1 DEF Stepped
  <2>2. 0 \in 0..n /\ \A i \in 1..n : i \in 0..n /\ i # 0
    OBVIOUS
  <2> QED  BY <2>1, <2>2
<1> HIDE DEF w
<1>4. Bad = {}
  <2> SUFFICES ASSUME Bad # {} PROVE FALSE
    OBVIOUS
  <2>1. PICK m \in Bad : \A k \in Bad : m <= k
    <3>1. Bad \in SUBSET Nat
      OBVIOUS
    <3> HIDE DEF Bad
    <3> QED  BY <3>1, LeastNumber
  <2>2. m \in 0..n /\ ~Kept(c, base, s, m, w[m])
    OBVIOUS
  <2>3. m # 0
    BY <1>3, <2>2
  <2>4. m \in 1..n /\ m - 1 \in 0..n /\ ~(m <= m - 1)
    BY <2>2, <2>3
  <2>5. Kept(c, base, s, m - 1, w[m - 1])
    BY <2>1, <2>4
  <2> QED  BY <1>3, <2>2, <2>4, <2>5
<1>5. n \in 0..n
  OBVIOUS
<1> QED  BY <1>2, <1>4, <1>5
=============================================================================
