------------------------------ MODULE GraphProofs ------------------------------
(***************************************************************************)
(* Proofs about graphs of nodes, for any number of nodes and inputs.       *)
(* First class Graph: the users a node lists are its users, whatever the   *)
(* order of edits.  What the edits do to a list, counted; then each edit;  *)
(* then the specification.  Next the passes: each is a fold of edits over  *)
(* the nodes, and keeps the graph closed because it keeps it free of       *)
(* circles.  Last the builder, whose graph the passes begin with.          *)
(***************************************************************************)
EXTENDS GraphEdits, Optimizer, GraphBuilder, LeastNumber, SequenceTheorems, FunctionTheorems

-----------------------------------------------------------------------------
(***************************************************************************)
(* How often a member is in a list                                         *)
(***************************************************************************)
At(s, x) == {p \in DOMAIN s : s[p] = x}

LEMMA TimesType ==
  ASSUME NEW T, NEW s \in Seq(T), NEW x
  PROVE  /\ IsFiniteSet(At(s, x))
         /\ Times(s, x) = Cardinality(At(s, x))
         /\ Times(s, x) \in Nat
         /\ Times(s, x) > 0 <=> \E p \in DOMAIN s : s[p] = x
<1>1. IsFiniteSet(1..Len(s)) /\ At(s, x) \in SUBSET (1..Len(s))
  BY FS_Interval DEF At
<1>2. IsFiniteSet(At(s, x))
  BY <1>1, FS_Subset
<1>3. Times(s, x) = Cardinality(At(s, x))
  BY DEF Times, At
<1>4. Cardinality(At(s, x)) \in Nat
  BY <1>2, FS_CardinalityType
<1>5. Cardinality(At(s, x)) = 0 <=> At(s, x) = {}
  BY <1>2, FS_EmptySet
<1>6. At(s, x) = {} <=> ~ \E p \in DOMAIN s : s[p] = x
  BY DEF At
<1> QED  BY <1>2, <1>3, <1>4, <1>5, <1>6

LEMMA TimesEmpty == \A x : Times(<<>>, x) = 0
<1> SUFFICES ASSUME NEW x PROVE Times(<<>>, x) = 0
  OBVIOUS
<1>1. {p \in DOMAIN <<>> : <<>>[p] = x} = {}
  OBVIOUS
<1> QED  BY <1>1, FS_EmptySet DEF Times

LEMMA TimesAppend ==
  ASSUME NEW T, NEW s \in Seq(T), NEW e \in T, NEW x
  PROVE  Times(Append(s, e), x) = Times(s, x) + (IF e = x THEN 1 ELSE 0)
<1> DEFINE n == Len(s) + 1
<1>1. /\ DOMAIN Append(s, e) = DOMAIN s \cup {n} /\ n \notin DOMAIN s
      /\ \A p \in DOMAIN s : Append(s, e)[p] = s[p]
      /\ Append(s, e)[n] = e
  BY AppendProperties
<1>2. Append(s, e) \in Seq(T)
  OBVIOUS
<1>3. Times(Append(s, e), x) = Cardinality(At(Append(s, e), x))
  BY <1>2, TimesType
<1>4. IsFiniteSet(At(s, x)) /\ Times(s, x) = Cardinality(At(s, x)) /\ Times(s, x) \in Nat
  BY TimesType
<1>5. n \notin At(s, x)
  BY <1>1 DEF At
<1> HIDE DEF n
<1>6. CASE e = x
  <2>1. At(Append(s, e), x) = At(s, x) \cup {n}
    BY <1>1, <1>6 DEF At
  <2> QED  BY <1>3, <1>4, <1>5, <1>6, <2>1, FS_AddElement
<1>7. CASE e # x
  <2>1. At(Append(s, e), x) = At(s, x)
    BY <1>1, <1>7 DEF At
  <2> QED  BY <1>3, <1>4, <1>7, <2>1
<1> QED  BY <1>6, <1>7

LEMMA TimesConcat ==
  ASSUME NEW T, NEW s \in Seq(T), NEW t \in Seq(T), NEW x
  PROVE  Times(s \o t, x) = Times(s, x) + Times(t, x)
<1> DEFINE n == Len(s)
           Moved == {n + q : q \in At(t, x)}
           f == [q \in At(t, x) |-> n + q]
<1>1. /\ s \o t \in Seq(T) /\ n \in Nat
      /\ DOMAIN s = 1..n /\ DOMAIN t = 1..Len(t) /\ DOMAIN (s \o t) = 1..(n + Len(t))
      /\ \A p \in 1..(n + Len(t)) : (s \o t)[p] = IF p <= n THEN s[p] ELSE t[p - n]
  OBVIOUS
<1>2. At(s \o t, x) = At(s, x) \cup Moved
  <2>1. ASSUME NEW p \in At(s \o t, x) PROVE p \in At(s, x) \cup Moved
    <3>1. p \in 1..(n + Len(t)) /\ (s \o t)[p] = x
      BY <1>1 DEF At
    <3>2. CASE p <= n
      BY <1>1, <3>1, <3>2 DEF At
    <3>3. CASE ~(p <= n)
      <4>1. p - n \in 1..Len(t) /\ t[p - n] = x /\ p = n + (p - n)
        BY <1>1, <3>1, <3>3
      <4> QED  BY <1>1, <4>1 DEF At
    <3> QED  BY <3>2, <3>3
  <2>2. ASSUME NEW p \in At(s, x) PROVE p \in At(s \o t, x)
    BY <1>1 DEF At
  <2>3. ASSUME NEW q \in At(t, x) PROVE n + q \in At(s \o t, x)
    <3>1. q \in 1..Len(t) /\ t[q] = x
      BY <1>1 DEF At
    <3>2. n + q \in 1..(n + Len(t)) /\ ~(n + q <= n) /\ (n + q) - n = q
      BY <1>1, <3>1
    <3> QED  BY <1>1, <3>1, <3>2 DEF At
  <2> QED  BY <2>1, <2>2, <2>3
<1>3. At(s, x) \cap Moved = {}
  <2>1. \A q \in At(t, x) : q \in Nat /\ q > 0
    BY <1>1 DEF At
  <2>2. \A p \in At(s, x) : p \in Nat /\ p <= n
    BY <1>1 DEF At
  <2> QED  BY <1>1, <2>1, <2>2
<1>4. /\ IsFiniteSet(At(s, x)) /\ IsFiniteSet(At(t, x))
      /\ Times(s, x) = Cardinality(At(s, x)) /\ Times(t, x) = Cardinality(At(t, x))
      /\ Times(s \o t, x) = Cardinality(At(s \o t, x))
      /\ Times(s, x) \in Nat /\ Times(t, x) \in Nat
  BY <1>1, TimesType
<1>5. IsFiniteSet(Moved) /\ Cardinality(Moved) = Cardinality(At(t, x))
  <2>1. \A q \in At(t, x) : q \in Nat
    BY <1>1 DEF At
  <2>2. f \in Bijection(At(t, x), Moved)
    BY <1>1, <2>1 DEF Bijection, Injection, Surjection, IsInjective
  <2>3. ExistsBijection(At(t, x), Moved)
    BY <2>2 DEF ExistsBijection
  <2> QED  BY <1>4, <2>3, FS_Bijection
<1> HIDE DEF Moved
<1>6. Cardinality(At(s, x) \cup Moved) = Cardinality(At(s, x)) + Cardinality(Moved)
  <2>1. Cardinality(At(s, x) \cap Moved) = 0
    BY <1>3, FS_EmptySet
  <2>2. Cardinality(At(s, x) \cup Moved)
          = Cardinality(At(s, x)) + Cardinality(Moved) - Cardinality(At(s, x) \cap Moved)
    BY <1>4, <1>5, FS_Union
  <2> QED  BY <1>4, <1>5, <2>1, <2>2
<1> QED  BY <1>2, <1>4, <1>5, <1>6

Repeated(c, e) == [j \in 1..c |-> e]

LEMMA TimesRepeated ==
  ASSUME NEW c \in Nat, NEW e, NEW x
  PROVE  Times(Repeated(c, e), x) = IF x = e THEN c ELSE 0
<1> DEFINE s == Repeated(c, e)
<1>1. CASE x = e
  <2>1. {p \in DOMAIN s : s[p] = x} = 1..c
    BY <1>1 DEF Repeated
  <2>2. Cardinality(1..c) = c
    BY FS_Interval
  <2> QED  BY <1>1, <2>1, <2>2 DEF Times
<1>2. CASE x # e
  <2>1. {p \in DOMAIN s : s[p] = x} = {}
    BY <1>2 DEF Repeated
  <2> QED  BY <1>2, <2>1, FS_EmptySet DEF Times
<1> QED  BY <1>1, <1>2

\* Every old in a list becomes new.
Redirected(s, old, new) == [p \in DOMAIN s |-> IF s[p] = old THEN new ELSE s[p]]

LEMMA TimesRedirected ==
  ASSUME NEW T, NEW s \in Seq(T), NEW old, NEW new \in T, old # new, NEW x
  PROVE  /\ Redirected(s, old, new) \in Seq(T)
         /\ Times(Redirected(s, old, new), x) =
              IF x = old THEN 0
              ELSE IF x = new THEN Times(s, new) + Times(s, old) ELSE Times(s, x)
<1> DEFINE r == Redirected(s, old, new)
<1>1. /\ r \in Seq(T) /\ DOMAIN r = DOMAIN s
      /\ \A p \in DOMAIN s : r[p] = IF s[p] = old THEN new ELSE s[p]
  <2>1. s \in [1..Len(s) -> T] /\ Len(s) \in Nat
    OBVIOUS
  <2>2. r \in [1..Len(s) -> T]
    BY <2>1 DEF Redirected
  <2> QED  BY <2>1, <2>2, IsASeq DEF Redirected
<1>2. /\ IsFiniteSet(At(s, x)) /\ IsFiniteSet(At(s, old)) /\ IsFiniteSet(At(s, new))
      /\ Times(s, x) = Cardinality(At(s, x))
      /\ Times(s, old) = Cardinality(At(s, old)) /\ Times(s, old) \in Nat
      /\ Times(s, new) = Cardinality(At(s, new)) /\ Times(s, new) \in Nat
  BY TimesType
<1>3. Times(r, x) = Cardinality(At(r, x))
  BY <1>1, TimesType
<1> HIDE DEF r
<1>4. CASE x = old
  <2>1. At(r, x) = {}
    BY <1>1, <1>4 DEF At
  <2> QED  BY <1>1, <1>3, <1>4, <2>1, FS_EmptySet DEF r
<1>5. CASE x = new
  <2>1. At(r, x) = At(s, new) \cup At(s, old) /\ At(s, new) \cap At(s, old) = {}
    BY <1>1, <1>5 DEF At
  <2>2. Cardinality(At(s, new) \cap At(s, old)) = 0
    BY <2>1, FS_EmptySet
  <2>3. Cardinality(At(s, new) \cup At(s, old))
          = Cardinality(At(s, new)) + Cardinality(At(s, old)) - Cardinality(At(s, new) \cap At(s, old))
    BY <1>2, FS_Union
  <2>4. Times(r, x) = Times(s, new) + Times(s, old)
    BY <1>2, <1>3, <2>1, <2>2, <2>3
  <2> QED  BY <1>1, <1>5, <2>4 DEF r
<1>6. CASE x # old /\ x # new
  <2>1. At(r, x) = At(s, x)
    BY <1>1, <1>6 DEF At
  <2> QED  BY <1>1, <1>2, <1>3, <1>6, <2>1 DEF r
<1> QED  BY <1>4, <1>5, <1>6

\* The list remove_node makes, and how often each member is in it.
LEMMA TimesWithout ==
  ASSUME NEW T, NEW s \in Seq(T), NEW x, NEW y
  PROVE  /\ Without(s, x) \in Seq(T)
         /\ Times(Without(s, x), y) = IF y = x THEN 0 ELSE Times(s, y)
<1> DEFINE n == Len(s)
           h == [i \in 1..n |-> [kept \in Seq(T) |->
                   IF s[i] = x THEN kept ELSE Append(kept, s[i])]]
           Kept(f) == f = [i \in 0..n |->
                        IF i = 0 THEN <<>>
                        ELSE IF s[i] = x THEN f[i - 1] ELSE Append(f[i - 1], s[i])]
           Defined == CHOOSE f : Kept(f)
           Before(i) == {p \in 1..i : s[p] = y}
<1>1. n \in Nat /\ DOMAIN s = 1..n /\ \A i \in 1..n : s[i] \in T
  OBVIOUS
<1>2. h \in [1..n -> [Seq(T) -> Seq(T)]]
  BY <1>1
<1>3. PICK f \in [0..n -> Seq(T)] : f[0] = <<>> /\ \A i \in 1..n : f[i] = h[i][f[i - 1]]
  <2> DEFINE V == Seq(T)
             z == <<>>
  <2>1. n \in Nat /\ z \in V /\ h \in [1..n -> [V -> V]]
    BY <1>1, <1>2
  <2> HIDE DEF h, n, V, z
  <2>2. \E f : Steps(n, V, h, z, f)
    BY <2>1, StepsExist
  <2> QED  BY <2>2 DEF Steps, V, z
<1>4. \A i \in 1..n : i - 1 \in 0..n /\ i \in 0..n /\ i # 0
  BY <1>1
<1>5. \A i \in 1..n : f[i] = IF s[i] = x THEN f[i - 1] ELSE Append(f[i - 1], s[i])
  BY <1>3, <1>4
<1>6. Kept(f)
  <2>1. \A i \in 0..n : i = 0 \/ i \in 1..n
    BY <1>1
  <2>2. \A i \in 0..n : f[i] = IF i = 0 THEN <<>>
                               ELSE IF s[i] = x THEN f[i - 1] ELSE Append(f[i - 1], s[i])
    BY <1>3, <1>4, <1>5, <2>1
  <2> QED  BY <2>2
<1>7. Without(s, x) = Defined[n]
  BY DEF Without, Fold
<1>8. Kept(Defined)
  <2> HIDE DEF Kept
  <2> QED  BY <1>6
<1> DEFINE w == Defined
<1>9. /\ w[0] = <<>>
      /\ \A i \in 1..n : w[i] = IF s[i] = x THEN w[i - 1] ELSE Append(w[i - 1], s[i])
  <2>1. 0 \in 0..n
    BY <1>1
  <2> HIDE DEF Defined
  <2>2. \A i \in 0..n : w[i] = IF i = 0 THEN <<>>
                               ELSE IF s[i] = x THEN w[i - 1] ELSE Append(w[i - 1], s[i])
    BY <1>8
  <2> QED  BY <1>4, <2>1, <2>2
<1> HIDE DEF Defined, w, h, Kept
<1>10. \A i \in 0..n : /\ w[i] \in Seq(T)
                       /\ Times(w[i], y) = IF y = x THEN 0 ELSE Cardinality(Before(i))
  <2> DEFINE Counts(i) == /\ w[i] \in Seq(T)
                          /\ Times(w[i], y) = IF y = x THEN 0 ELSE Cardinality(Before(i))
             Bad == {i \in 0..n : ~Counts(i)}
  <2> SUFFICES ASSUME Bad # {} PROVE FALSE
    OBVIOUS
  <2>1. PICK m \in Bad : \A i \in Bad : m <= i
    <3>1. Bad \in SUBSET Nat
      BY <1>1
    <3> HIDE DEF Bad
    <3> QED  BY <3>1, LeastNumber
  <2>2. m \in 0..n /\ ~Counts(m)
    OBVIOUS
  <2>3. Counts(0)
    <3>1. Before(0) = {}
      OBVIOUS
    <3> QED  BY <1>9, <3>1, TimesEmpty, FS_EmptySet
  <2>4. m \in 1..n /\ m - 1 \in 0..n /\ ~(m <= m - 1)
    <3>1. m # 0
      BY <2>2, <2>3
    <3> QED  BY <1>1, <2>2, <3>1
  <2>5. Counts(m - 1)
    BY <2>1, <2>4
  <2>6. IsFiniteSet(Before(m - 1)) /\ m \notin Before(m - 1)
        /\ Before(m) = IF s[m] = y THEN Before(m - 1) \cup {m} ELSE Before(m - 1)
    <3>1. IsFiniteSet(1..(m - 1)) /\ Before(m - 1) \in SUBSET (1..(m - 1))
      <4>1. m - 1 \in Int /\ 1 \in Int
        BY <1>1, <2>4
      <4> QED  BY <4>1, FS_Interval
    <3>2. 1..m = 1..(m - 1) \cup {m} /\ m \notin 1..(m - 1)
      BY <1>1, <2>4
    <3> QED  BY <3>1, <3>2, FS_Subset
  <2> HIDE DEF Before
  <2>7. CASE s[m] = x
    <3>1. w[m] = w[m - 1]
      BY <1>9, <2>4, <2>7
    <3>2. y # x => Before(m) = Before(m - 1)
      BY <2>6, <2>7
    <3> QED  BY <2>2, <2>5, <3>1, <3>2
  <2>8. CASE s[m] # x
    <3>1. w[m] = Append(w[m - 1], s[m]) /\ s[m] \in T
      BY <1>1, <1>9, <2>4, <2>8
    <3>2. Times(w[m], y) = Times(w[m - 1], y) + (IF s[m] = y THEN 1 ELSE 0)
      BY <2>5, <3>1, TimesAppend
    <3>3. Times(w[m - 1], y) \in Nat
      BY <2>5, TimesType
    <3>4. w[m] \in Seq(T)
      BY <2>5, <3>1
    <3>5. CASE s[m] = y
      <4>1. Cardinality(Before(m)) = Cardinality(Before(m - 1)) + 1
        BY <2>6, <3>5, FS_AddElement
      <4>2. y # x
        BY <2>8, <3>5
      <4>3. Times(w[m], y) = Cardinality(Before(m))
        BY <2>5, <3>2, <3>5, <4>1, <4>2
      <4> QED  BY <2>2, <3>4, <4>2, <4>3
    <3>6. CASE s[m] # y
      BY <2>2, <2>5, <2>6, <2>8, <3>2, <3>3, <3>4, <3>6
    <3> QED  BY <3>5, <3>6
  <2> QED  BY <2>7, <2>8
<1>11. Before(n) = {p \in DOMAIN s : s[p] = y} /\ n \in 0..n /\ Without(s, x) = w[n]
  BY <1>1, <1>7 DEF w
<1> QED  BY <1>10, <1>11 DEF Times

-----------------------------------------------------------------------------
(***************************************************************************)
(* The edits                                                               *)
(***************************************************************************)

\* A node, of whatever kind, name and value.
IsNode(n) ==
  /\ n = [kind |-> n.kind, ins |-> n.ins, outs |-> n.outs, k |-> n.k, const |-> n.const]
  /\ n.ins \in Seq(Int) /\ n.outs \in Seq(Nat)

\* Two nodes that differ in their inputs and outputs at most.
SameContent(m, n) == m.kind = n.kind /\ m.k = n.k /\ m.const = n.const

\* EditsTypeOK, of any graph, that of the constructor before it has a start
\* among them.
GraphOK(g) ==
  /\ g = [node |-> g.node, next |-> g.next, room |-> g.room]
  /\ g.node = [i \in Ids(g) |-> g.node[i]]
  /\ g.next \in Nat /\ g.room \in Nat \ {0}
  /\ Ids(g) \subseteq 0..(g.next - 1)
  /\ \A i \in Ids(g) : IsNode(g.node[i])
  /\ Cardinality(Ids(g)) <= g.room

\* Closed, of such a graph.
Mirrored(g) ==
  /\ \A i, j \in Ids(g) : Times(g.node[i].ins, j) = Times(g.node[j].outs, i)
  /\ \A i \in Ids(g) :
       /\ \A p \in DOMAIN g.node[i].ins : g.node[i].ins[p] \in Ids(g) \cup {Null}
       /\ \A p \in DOMAIN g.node[i].outs : g.node[i].outs[p] \in Ids(g)

LEMMA GraphLists ==
  ASSUME NEW g, GraphOK(g), Mirrored(g), NEW i \in Ids(g)
  PROVE  /\ g.node[i].ins \in Seq(Ids(g) \cup {Null})
         /\ g.node[i].outs \in Seq(Ids(g))
<1>2. g.node[i].ins \in Seq(Int) /\ g.node[i].outs \in Seq(Nat)
  BY DEF GraphOK, IsNode
<1> DEFINE ins == g.node[i].ins
           outs == g.node[i].outs
<1>4. ins \in Seq(Int) /\ outs \in Seq(Nat)
      /\ (\A p \in DOMAIN ins : ins[p] \in Ids(g) \cup {Null})
      /\ (\A p \in DOMAIN outs : outs[p] \in Ids(g))
  BY <1>2 DEF Mirrored
<1> HIDE DEF ins, outs
<1>3. /\ Len(ins) \in Nat /\ ins = [p \in 1..Len(ins) |-> ins[p]]
      /\ Len(outs) \in Nat /\ outs = [p \in 1..Len(outs) |-> outs[p]]
  BY <1>4
<1>5. ins \in [1..Len(ins) -> Ids(g) \cup {Null}] /\ outs \in [1..Len(outs) -> Ids(g)]
  BY <1>3, <1>4
<1>6. ins \in Seq(Ids(g) \cup {Null}) /\ outs \in Seq(Ids(g))
  BY <1>3, <1>5, IsASeq
<1> QED  BY <1>6 DEF ins, outs

\* A node that was just made.
Made(kind, inputs, k, const) ==
  [kind |-> kind, ins |-> inputs, outs |-> <<>>, k |-> k, const |-> const]

\* h is g with one more node.
NodeAdded(g, h, kind, inputs, k, const) ==
  /\ h.next = g.next + 1 /\ Ids(h) = Ids(g) \cup {g.next} /\ g.next \notin Ids(g)
  /\ h.node[g.next] = Made(kind, inputs, k, const)
  /\ \A i \in Ids(g) : h.node[i].ins = g.node[i].ins /\ SameContent(h.node[i], g.node[i])

LEMMA OutsEdited ==
  ASSUME NEW n, IsNode(n), NEW outs \in Seq(Nat), NEW m, m = [n EXCEPT !.outs = outs]
  PROVE  IsNode(m) /\ m.ins = n.ins /\ m.outs = outs /\ SameContent(m, n)
<1>1. n = [kind |-> n.kind, ins |-> n.ins, outs |-> n.outs, k |-> n.k, const |-> n.const]
  BY DEF IsNode
<1>2. m = [kind |-> n.kind, ins |-> n.ins, outs |-> outs, k |-> n.k, const |-> n.const]
  BY <1>1
<1>3. m.kind = n.kind /\ m.ins = n.ins /\ m.outs = outs /\ m.k = n.k /\ m.const = n.const
  BY <1>2
<1>4. m = [kind |-> m.kind, ins |-> m.ins, outs |-> m.outs, k |-> m.k, const |-> m.const]
  BY <1>2, <1>3
<1> QED  BY <1>3, <1>4 DEF IsNode, SameContent

LEMMA NewNodeKeeps ==
  ASSUME NEW g, GraphOK(g), Mirrored(g),
         NEW kind, NEW inputs \in Seq(Ids(g) \cup {Null}), NEW k, NEW const,
         NEW h, h = NewNode(g, kind, inputs, k, const)
  PROVE  GraphOK(h) /\ Mirrored(h) /\ NodeAdded(g, h, kind, inputs, k, const)
<1> DEFINE n == g.next
           made == Made(kind, inputs, k, const)
           Uses(i) == [j \in 1..Times(inputs, i) |-> n]
           node == [i \in Ids(g) \cup {n} |->
                      IF i = n THEN made ELSE [g.node[i] EXCEPT !.outs = @ \o Uses(i)]]
           room == IF Full(g) THEN 2 * g.room ELSE g.room
<1>1. h = [node |-> node, next |-> n + 1, room |-> room]
  BY DEF NewNode, Made
<1>2. n \in Nat /\ n \notin Ids(g) /\ Ids(g) \subseteq Nat
  BY DEF GraphOK
<1>3. \A i \in Ids(g) : IsNode(g.node[i]) /\ g.node[i].outs \in Seq(Nat)
  BY DEF GraphOK, IsNode
<1>4. inputs \in Seq(Int)
  <2>1. Ids(g) \cup {Null} \subseteq Int
    BY <1>2 DEF Null
  <2> QED  BY <2>1, SeqMonotonic
<1>5. \A i \in Ids(g) : Times(inputs, i) \in Nat /\ Uses(i) \in Seq(Nat)
  <2> TAKE i \in Ids(g)
  <2>1. Times(inputs, i) \in Nat
    BY TimesType
  <2>2. Uses(i) \in [1..Times(inputs, i) -> Nat]
    BY <1>2
  <2> QED  BY <2>1, <2>2, IsASeq
<1>6. \A i \in Ids(g) : g.node[i].outs \o Uses(i) \in Seq(Nat)
  BY <1>3, <1>5, ConcatProperties
<1>7. /\ DOMAIN node = Ids(g) \cup {n}
      /\ node[n] = made
      /\ \A i \in Ids(g) : node[i] = [g.node[i] EXCEPT !.outs = @ \o Uses(i)]
  BY <1>2
<1>8. \A i \in Ids(g) : /\ node[i].ins = g.node[i].ins
                        /\ SameContent(node[i], g.node[i])
                        /\ node[i].outs = g.node[i].outs \o Uses(i)
                        /\ IsNode(node[i])
  <2> TAKE i \in Ids(g)
  <2> DEFINE o == g.node[i].outs \o Uses(i)
  <2>1. node[i] = [g.node[i] EXCEPT !.outs = o] /\ o \in Seq(Nat) /\ IsNode(g.node[i])
    BY <1>3, <1>6, <1>7
  <2> HIDE DEF o, node
  <2>2. /\ node[i].ins = g.node[i].ins /\ SameContent(node[i], g.node[i])
        /\ node[i].outs = o /\ IsNode(node[i])
    BY <2>1, OutsEdited
  <2> QED  BY <2>2 DEF o
<1>9. IsNode(made) /\ made.outs = <<>> /\ made.ins = inputs
  BY <1>4 DEF IsNode, Made
<1> HIDE DEF node
<1>10. h.node = node /\ h.next = n + 1 /\ h.room = room /\ Ids(h) = Ids(g) \cup {n}
  BY <1>1, <1>7 DEF Ids
<1>11. GraphOK(h)
  <2>1. IsFiniteSet(Ids(g))
    <3>1. IsFiniteSet(0..(g.next - 1))
      <4>1. 0 \in Int /\ g.next - 1 \in Int
        BY <1>2
      <4> QED  BY <4>1, FS_Interval
    <3> QED  BY <3>1, FS_Subset DEF GraphOK
  <2>2. Cardinality(Ids(h)) = Cardinality(Ids(g)) + 1 /\ Cardinality(Ids(g)) \in Nat
    <3>1. PICK S, T : S = Ids(g) /\ T = S \cup {n}
      OBVIOUS
    <3>2. Cardinality(T) = Cardinality(S) + 1
      BY <1>2, <2>1, <3>1, FS_AddElement
    <3>3. Cardinality(S) \in Nat
      BY <2>1, <3>1, FS_CardinalityType
    <3> QED  BY <1>10, <3>1, <3>2, <3>3
  <2>3. room \in Nat \ {0} /\ Cardinality(Ids(h)) <= room
    <3>1. g.room \in Nat \ {0} /\ Cardinality(Ids(g)) <= g.room
      BY DEF GraphOK
    <3>2. PICK c, r : c = Cardinality(Ids(g)) /\ r = g.room
      OBVIOUS
    <3>3. CASE Full(g)
      <4>1. room = 2 * r /\ c = r
        BY <3>2, <3>3 DEF Full
      <4> QED  BY <2>2, <3>1, <3>2, <4>1
    <3>4. CASE ~Full(g)
      <4>1. room = r /\ c # r
        BY <3>2, <3>4 DEF Full
      <4> QED  BY <2>2, <3>1, <3>2, <4>1
    <3> QED  BY <3>3, <3>4
  <2>4. Ids(h) \subseteq 0..(h.next - 1)
    BY <1>2, <1>10 DEF GraphOK
  <2>5. \A i \in Ids(h) : IsNode(h.node[i])
    BY <1>7, <1>8, <1>9, <1>10
  <2>6. h.node = [i \in Ids(h) |-> h.node[i]]
    BY <1>7, <1>10 DEF node
  <2> HIDE DEF room
  <2>7. h = [node |-> h.node, next |-> h.next, room |-> h.room]
    BY <1>1, <1>10
  <2>8. h.next \in Nat /\ h.room \in Nat \ {0} /\ Cardinality(Ids(h)) <= h.room
    BY <1>2, <1>10, <2>3
  <2> HIDE <1>1
  <2> QED  BY <2>4, <2>5, <2>6, <2>7, <2>8 DEF GraphOK
<1>12. \A i \in Ids(h) : h.node[i].ins \in Seq(Ids(g) \cup {Null})
  <2> TAKE i \in Ids(h)
  <2>1. CASE i = n
    <3>1. h.node[i].ins = inputs
      BY <1>7, <1>9, <1>10, <2>1
    <3> QED  BY <3>1
  <2>2. CASE i # n
    <3>1. i \in Ids(g) /\ h.node[i].ins = g.node[i].ins
      BY <1>8, <1>10, <2>2
    <3> QED  BY <3>1, GraphLists
  <2> QED  BY <2>1, <2>2
<1>13. \A i, j \in Ids(h) : Times(h.node[i].ins, j) = Times(h.node[j].outs, i)
  <2> TAKE i, j \in Ids(h)
  <2>1. CASE j = n
    <3>1. h.node[j].outs = <<>>
      BY <1>7, <1>9, <1>10, <2>1
    <3>2. h.node[i].ins \in Seq(Ids(g) \cup {Null}) /\ n \notin Ids(g) \cup {Null}
      <4>1. n # Null
        BY <1>2 DEF Null
      <4> QED  BY <1>2, <1>12, <4>1
    <3>3. ~(Times(h.node[i].ins, n) > 0) /\ Times(h.node[i].ins, n) \in Nat
      <4>1. \A p \in DOMAIN h.node[i].ins : h.node[i].ins[p] # n
        BY <3>2
      <4> QED  BY <3>2, <4>1, TimesType
    <3> QED  BY <2>1, <3>1, <3>3, TimesEmpty
  <2>2. CASE j # n
    <3>1. j \in Ids(g) /\ g.node[j].outs \in Seq(Ids(g)) /\ g.node[j].outs \in Seq(Nat)
      BY <1>3, <1>10, <2>2, GraphLists
    <3>2. h.node[j].outs = g.node[j].outs \o Uses(j)
      BY <1>8, <1>10, <3>1
    <3>3. Times(h.node[j].outs, i) = Times(g.node[j].outs, i) + Times(Uses(j), i)
      <4>1. Uses(j) \in Seq(Nat) /\ g.node[j].outs \in Seq(Nat)
        BY <1>5, <3>1
      <4> HIDE DEF Uses
      <4> QED  BY <3>2, <4>1, TimesConcat
    <3>4. Times(Uses(j), i) = IF i = n THEN Times(inputs, j) ELSE 0
      <4> DEFINE c == Times(inputs, j)
      <4>1. c \in Nat
        BY <1>5, <3>1
      <4> HIDE DEF c, n
      <4>2. Times(Repeated(c, n), i) = IF i = n THEN c ELSE 0
        BY <4>1, TimesRepeated
      <4> QED  BY <4>2 DEF c, Repeated
    <3>5. Times(g.node[j].outs, i) \in Nat /\ Times(inputs, j) \in Nat
      BY <1>5, <3>1, TimesType
    <3>6. CASE i = n
      <4>1. ~(Times(g.node[j].outs, n) > 0)
        <5>1. \A p \in DOMAIN g.node[j].outs : g.node[j].outs[p] # n
          BY <1>2, <3>1
        <5> QED  BY <3>1, <5>1, TimesType
      <4>2. h.node[i].ins = inputs
        BY <1>7, <1>9, <1>10, <3>6
      <4> QED  BY <3>3, <3>4, <3>5, <3>6, <4>1, <4>2
    <3>7. CASE i # n
      <4>1. i \in Ids(g) /\ h.node[i].ins = g.node[i].ins
        BY <1>8, <1>10, <3>7
      <4>2. Times(g.node[i].ins, j) = Times(g.node[j].outs, i)
        BY <3>1, <4>1 DEF Mirrored
      <4> QED  BY <3>3, <3>4, <3>5, <3>7, <4>1, <4>2
    <3> QED  BY <3>6, <3>7
  <2> QED  BY <2>1, <2>2
<1>14. \A i \in Ids(h) :
         /\ \A p \in DOMAIN h.node[i].ins : h.node[i].ins[p] \in Ids(h) \cup {Null}
         /\ \A p \in DOMAIN h.node[i].outs : h.node[i].outs[p] \in Ids(h)
  <2> TAKE i \in Ids(h)
  <2>1. h.node[i].ins \in Seq(Ids(g) \cup {Null})
    BY <1>12
  <2>2. h.node[i].outs \in Seq(Ids(h))
    <3>1. CASE i = n
      <4>1. h.node[i].outs = <<>>
        BY <1>7, <1>9, <1>10, <3>1
      <4> QED  BY <4>1
    <3>2. CASE i # n
      <4>1. i \in Ids(g) /\ g.node[i].outs \in Seq(Ids(h))
        <5>1. g.node[i].outs \in Seq(Ids(g)) /\ Ids(g) \subseteq Ids(h)
          BY <1>10, <3>2, GraphLists
        <5> QED  BY <1>10, <3>2, <5>1, SeqMonotonic
      <4>2. Uses(i) \in Seq(Ids(h))
        <5>1. Uses(i) \in [1..Times(inputs, i) -> Ids(h)]
          BY <1>10
        <5> QED  BY <1>5, <4>1, <5>1, IsASeq
      <4>3. h.node[i].outs = g.node[i].outs \o Uses(i)
        BY <1>8, <1>10, <4>1
      <4> HIDE DEF Uses
      <4> QED  BY <4>1, <4>2, <4>3, ConcatProperties
    <3> QED  BY <3>1, <3>2
  <2> QED  BY <1>10, <2>1, <2>2
<1>15. Mirrored(h)
  BY <1>13, <1>14 DEF Mirrored
<1>16. h.node[n] = made /\ \A i \in Ids(g) : /\ h.node[i].ins = g.node[i].ins
                                                 /\ SameContent(h.node[i], g.node[i])
  BY <1>7, <1>8, <1>10
<1> QED  BY <1>2, <1>10, <1>11, <1>15, <1>16 DEF NodeAdded

\* A graph that only has other nodes is well formed if these are.
LEMMA SameNodes ==
  ASSUME NEW g, GraphOK(g), NEW node, NEW S \in SUBSET Ids(g),
         node = [i \in S |-> node[i]], \A i \in S : IsNode(node[i]),
         NEW h, h = [g EXCEPT !.node = node]
  PROVE  GraphOK(h) /\ h.node = node /\ Ids(h) = S /\ h.next = g.next
<1>1. g = [node |-> g.node, next |-> g.next, room |-> g.room]
  BY DEF GraphOK
<1>2. h = [node |-> node, next |-> g.next, room |-> g.room]
  BY <1>1
<1>3. h.node = node /\ h.next = g.next /\ h.room = g.room /\ Ids(h) = S
  BY <1>2 DEF Ids
<1>4. IsFiniteSet(Ids(g)) /\ g.next \in Nat /\ g.room \in Nat \ {0}
  <2>1. g.next \in Nat /\ Ids(g) \in SUBSET (0..(g.next - 1)) /\ g.room \in Nat \ {0}
    BY DEF GraphOK
  <2>2. 0 \in Int /\ g.next - 1 \in Int
    BY <2>1
  <2>3. IsFiniteSet(0..(g.next - 1))
    BY <2>2, FS_Interval
  <2> QED  BY <2>1, <2>3, FS_Subset
<1>5. Cardinality(S) \in Nat /\ Cardinality(S) <= Cardinality(Ids(g)) /\ Cardinality(Ids(g)) \in Nat
  BY <1>4, FS_Subset, FS_CardinalityType
<1>6. Cardinality(Ids(h)) <= h.room
  BY <1>3, <1>4, <1>5 DEF GraphOK
<1>7. h = [node |-> h.node, next |-> h.next, room |-> h.room]
  BY <1>2, <1>3
<1>8. h.node = [i \in Ids(h) |-> h.node[i]] /\ \A i \in Ids(h) : IsNode(h.node[i])
  BY <1>3
<1>9. Ids(h) \subseteq 0..(h.next - 1)
  BY <1>3 DEF GraphOK
<1>10. GraphOK(h)
  <2> HIDE <1>2
  <2> QED  BY <1>3, <1>4, <1>6, <1>7, <1>8, <1>9 DEF GraphOK
<1> QED  BY <1>3, <1>10

LEMMA RemoveKeeps ==
  ASSUME NEW g, GraphOK(g), Mirrored(g), NEW n \in Ids(g), g.node[n].outs = <<>>,
         NEW h, h = remove_node(g, n)
  PROVE  /\ GraphOK(h) /\ Mirrored(h)
         /\ h.next = g.next /\ Ids(h) = Ids(g) \ {n}
         /\ \A i \in Ids(h) : /\ h.node[i].ins = g.node[i].ins
                              /\ SameContent(h.node[i], g.node[i])
<1> DEFINE Uses(i) == Times(g.node[n].ins, i) > 0
           S == Ids(g) \ {n}
           node == [i \in S |-> IF Uses(i) THEN [g.node[i] EXCEPT !.outs = Without(@, n)]
                                ELSE g.node[i]]
<1>1. h = [g EXCEPT !.node = node]
  BY DEF remove_node
<1>2. \A i \in Ids(g) : IsNode(g.node[i]) /\ g.node[i].outs \in Seq(Nat)
  BY DEF GraphOK, IsNode
<1>3. ASSUME NEW i \in S
      PROVE  /\ IsNode(node[i])
             /\ node[i].ins = g.node[i].ins /\ SameContent(node[i], g.node[i])
             /\ node[i].outs = IF Uses(i) THEN Without(g.node[i].outs, n) ELSE g.node[i].outs
  <2> DEFINE o == Without(g.node[i].outs, n)
  <2>1. IsNode(g.node[i]) /\ o \in Seq(Nat)
    BY <1>2, TimesWithout
  <2>2. node[i] = IF Uses(i) THEN [g.node[i] EXCEPT !.outs = o] ELSE g.node[i]
    OBVIOUS
  <2> HIDE DEF o, Uses, node
  <2>3. CASE Uses(i)
    <3>1. /\ node[i].ins = g.node[i].ins /\ SameContent(node[i], g.node[i])
          /\ node[i].outs = o /\ IsNode(node[i])
      BY <2>1, <2>2, <2>3, OutsEdited
    <3> QED  BY <2>3, <3>1 DEF o
  <2>4. CASE ~Uses(i)
    BY <2>1, <2>2, <2>4 DEF SameContent
  <2> QED  BY <2>3, <2>4
<1>4. node = [i \in S |-> node[i]] /\ S \in SUBSET Ids(g)
  OBVIOUS
<1> HIDE DEF node
<1>5. GraphOK(h) /\ h.node = node /\ Ids(h) = S /\ h.next = g.next
  BY <1>1, <1>3, <1>4, SameNodes
\* Whoever uses i is not the node that goes.
<1>6. \A i \in S : Times(h.node[i].outs, n) = 0
  <2> TAKE i \in S
  <2>1. g.node[i].outs \in Seq(Nat) /\ h.node[i].outs = node[i].outs
    BY <1>2, <1>5
  <2>2. CASE Uses(i)
    BY <1>3, <2>1, <2>2, TimesWithout
  <2>3. CASE ~Uses(i)
    <3>1. Times(g.node[n].ins, i) = Times(g.node[i].outs, n)
      BY DEF Mirrored
    <3>2. Times(g.node[i].outs, n) \in Nat
      BY <2>1, TimesType
    <3> QED  BY <1>3, <2>1, <2>3, <3>1, <3>2
  <2> QED  BY <2>2, <2>3
<1>7. \A i, j \in S : Times(h.node[j].outs, i) = Times(g.node[j].outs, i)
  <2> TAKE i, j \in S
  <2>1. g.node[j].outs \in Seq(Nat) /\ i # n /\ h.node[j].outs = node[j].outs
    BY <1>2, <1>5
  <2>2. CASE Uses(j)
    BY <1>3, <2>1, <2>2, TimesWithout
  <2>3. CASE ~Uses(j)
    BY <1>3, <2>1, <2>3
  <2> QED  BY <2>2, <2>3
<1>8. \A i, j \in S : Times(h.node[i].ins, j) = Times(h.node[j].outs, i)
  BY <1>3, <1>5, <1>7 DEF Mirrored
<1>9. ASSUME NEW i \in S, NEW p \in DOMAIN h.node[i].ins
      PROVE  h.node[i].ins[p] \in S \cup {Null}
  <2>1. g.node[i].ins \in Seq(Ids(g) \cup {Null}) /\ h.node[i].ins = g.node[i].ins
    BY <1>3, <1>5, GraphLists
  <2>2. Times(g.node[i].ins, n) = 0
    BY TimesEmpty DEF Mirrored
  <2>3. g.node[i].ins[p] # n
    BY <2>1, <2>2, TimesType
  <2> QED  BY <2>1, <2>3
<1>10. ASSUME NEW i \in S, NEW p \in DOMAIN h.node[i].outs
       PROVE  h.node[i].outs[p] \in S
  <2>1. g.node[i].outs \in Seq(Ids(g))
    BY GraphLists
  <2>2. h.node[i].outs \in Seq(Ids(g))
    <3>1. Without(g.node[i].outs, n) \in Seq(Ids(g))
      BY <2>1, TimesWithout
    <3>2. h.node[i].outs = IF Uses(i) THEN Without(g.node[i].outs, n) ELSE g.node[i].outs
      BY <1>3, <1>5
    <3> HIDE DEF Uses
    <3> QED  BY <2>1, <3>1, <3>2
  <2>3. h.node[i].outs[p] # n
    BY <1>6, <2>2, TimesType
  <2> QED  BY <2>2, <2>3
<1>11. Mirrored(h)
  BY <1>5, <1>8, <1>9, <1>10 DEF Mirrored
<1> QED  BY <1>3, <1>5, <1>11

\* h is g with new where old was used.
NodeReplaced(g, h, old, new) ==
  /\ h.next = g.next /\ Ids(h) = Ids(g)
  /\ \A i \in Ids(g) : /\ h.node[i].ins = Redirected(g.node[i].ins, old, new)
                       /\ SameContent(h.node[i], g.node[i])
                       /\ i = old => h.node[i].outs = <<>>
                       /\ i \notin {old, new} => h.node[i].outs = g.node[i].outs

LEMMA ReplaceKeeps ==
  ASSUME NEW g, GraphOK(g), Mirrored(g), NEW old \in Ids(g), NEW new \in Ids(g) \cup {Null},
         new # old, new = Null => g.node[old].outs = <<>>,
         NEW h, h = replace_node(g, old, new)
  PROVE  GraphOK(h) /\ Mirrored(h) /\ NodeReplaced(g, h, old, new)
<1> DEFINE users == g.node[old].outs
           S == Ids(g)
           ins(i) == IF Times(users, i) > 0 THEN Redirected(g.node[i].ins, old, new)
                     ELSE g.node[i].ins
           outs(i) == IF i = old THEN <<>>
                      ELSE IF i = new THEN g.node[i].outs \o users ELSE g.node[i].outs
           node == [i \in S |-> [g.node[i] EXCEPT !.ins = ins(i), !.outs = outs(i)]]
<1>1. h = [g EXCEPT !.node = node]
  BY DEF replace_node, Redirected
<1>2. \A i \in S : /\ IsNode(g.node[i])
                   /\ g.node[i].outs \in Seq(S)
                   /\ g.node[i].ins \in Seq(S \cup {Null})
  BY GraphLists DEF GraphOK
<1>3. S \cup {Null} \subseteq Int /\ S \subseteq Nat /\ Null \notin S
  BY DEF GraphOK, Null
\* A node that old does not list has no old to redirect.
<1>4. \A i \in S : ins(i) = Redirected(g.node[i].ins, old, new)
  <2> TAKE i \in S
  <2>1. CASE Times(users, i) > 0
    BY <2>1
  <2>2. CASE ~(Times(users, i) > 0)
    <3>1. Times(g.node[i].ins, old) = Times(users, i)
      BY DEF Mirrored
    <3>2. \A p \in DOMAIN g.node[i].ins : g.node[i].ins[p] # old
      BY <1>2, <2>2, <3>1, TimesType
    <3>3. g.node[i].ins = [p \in DOMAIN g.node[i].ins |-> g.node[i].ins[p]]
      BY <1>2
    <3>4. Redirected(g.node[i].ins, old, new) = g.node[i].ins
      BY <3>2, <3>3 DEF Redirected
    <3> QED  BY <2>2, <3>4
  <2> QED  BY <2>1, <2>2
<1>5. \A i \in S : ins(i) \in Seq(S \cup {Null}) /\ outs(i) \in Seq(S)
  <2> TAKE i \in S
  <2>1. ins(i) \in Seq(S \cup {Null})
    <3> DEFINE T == S \cup {Null}
               s == g.node[i].ins
    <3>1. s \in Seq(T) /\ new \in T /\ new # old
      BY <1>2
    <3> HIDE DEF T, s, ins
    <3>2. Redirected(s, old, new) \in Seq(T)
      BY <3>1, TimesRedirected
    <3>3. ins(i) = Redirected(s, old, new)
      BY <1>4 DEF s
    <3> QED  BY <3>2, <3>3 DEF T
  <2>2. <<>> \in Seq(S) /\ g.node[i].outs \o users \in Seq(S)
    BY <1>2, ConcatProperties
  <2> QED  BY <1>2, <2>1, <2>2
<1>6. \A i \in S : ins(i) \in Seq(Int) /\ outs(i) \in Seq(Nat)
  <2> HIDE DEF ins, outs, S
  <2> QED  BY <1>3, <1>5, SeqMonotonic
<1>7. \A i \in S : /\ IsNode(node[i]) /\ SameContent(node[i], g.node[i])
                   /\ node[i].ins = ins(i) /\ node[i].outs = outs(i)
  <2> TAKE i \in S
  <2>1. node[i] = [g.node[i] EXCEPT !.ins = ins(i), !.outs = outs(i)]
    OBVIOUS
  <2> HIDE DEF node, ins, outs
  <2>2. IsNode(g.node[i]) /\ ins(i) \in Seq(Int) /\ outs(i) \in Seq(Nat)
    BY <1>2, <1>6
  <2>3. PICK a, b, n : a = ins(i) /\ b = outs(i) /\ n = g.node[i]
    OBVIOUS
  <2>4. node[i] = [n EXCEPT !.ins = a, !.outs = b] /\ IsNode(n) /\ a \in Seq(Int) /\ b \in Seq(Nat)
    BY <2>1, <2>2, <2>3
  <2>5. n = [kind |-> n.kind, ins |-> n.ins, outs |-> n.outs, k |-> n.k, const |-> n.const]
    BY <2>4 DEF IsNode
  <2>6. node[i] = [kind |-> n.kind, ins |-> a, outs |-> b, k |-> n.k, const |-> n.const]
    BY <2>4, <2>5
  <2>7. IsNode(node[i]) /\ node[i].ins = a /\ node[i].outs = b /\ SameContent(node[i], n)
    BY <2>4, <2>6 DEF IsNode, SameContent
  <2> QED  BY <2>3, <2>7
<1>8. node = [i \in S |-> node[i]] /\ S \in SUBSET Ids(g)
  OBVIOUS
<1> HIDE DEF node
<1>9. GraphOK(h) /\ h.node = node /\ Ids(h) = S /\ h.next = g.next
  BY <1>1, <1>7, <1>8, SameNodes
<1>10. \A i, j \in S : Times(h.node[i].ins, j) = Times(h.node[j].outs, i)
  <2> TAKE i, j \in S
  <2>1. /\ Times(g.node[i].ins, j) = Times(g.node[j].outs, i)
        /\ Times(g.node[i].ins, old) = Times(users, i)
        /\ h.node[i].ins = Redirected(g.node[i].ins, old, new)
        /\ h.node[j].outs = outs(j)
    BY <1>4, <1>7, <1>9 DEF Mirrored
  <2>2. Times(h.node[i].ins, j) =
          IF j = old THEN 0
          ELSE IF j = new THEN Times(g.node[i].ins, new) + Times(g.node[i].ins, old)
          ELSE Times(g.node[i].ins, j)
    BY <1>2, <2>1, TimesRedirected
  <2>3. CASE j = old
    BY <2>1, <2>2, <2>3, TimesEmpty
  <2>4. CASE j = new
    <3>1. Times(g.node[j].outs \o users, i) = Times(g.node[j].outs, i) + Times(users, i)
      BY <1>2, TimesConcat
    <3> QED  BY <2>1, <2>2, <2>4, <3>1
  <2>5. CASE j # old /\ j # new
    BY <2>1, <2>2, <2>5
  <2> QED  BY <2>3, <2>4, <2>5
<1>11. \A i \in S : /\ \A p \in DOMAIN h.node[i].ins : h.node[i].ins[p] \in S \cup {Null}
                    /\ \A p \in DOMAIN h.node[i].outs : h.node[i].outs[p] \in S
  <2> TAKE i \in S
  <2>1. h.node[i].ins \in Seq(S \cup {Null}) /\ h.node[i].outs \in Seq(S)
    <3> HIDE DEF ins, outs
    <3> QED  BY <1>5, <1>7, <1>9
  <2> QED  BY <2>1
<1>12. Mirrored(h)
  BY <1>9, <1>10, <1>11 DEF Mirrored
<1> QED  BY <1>4, <1>7, <1>9, <1>12 DEF NodeReplaced

-----------------------------------------------------------------------------
(***************************************************************************)
(* The steps                                                               *)
(***************************************************************************)
EditsIInv ==
  /\ GraphOK(graph)
  /\ Mirrored(graph)
  /\ Start \in Ids(graph) /\ graph.node[Start].kind = "Start"
  /\ \A i \in Ids(graph) : LET n == graph.node[i]
                           IN  n.kind \in Kind \cup {"Start", "End"} /\ n.k = "0" /\ n.const = 0

\* The graph of the constructor.
LEMMA NewGraphIs ==
  ASSUME NEW g, g = NewGraph
  PROVE  /\ GraphOK(g) /\ Mirrored(g) /\ g.next = 2 /\ Ids(g) = {0, 1}
         /\ g.node[0] = [kind |-> "Start", ins |-> <<>>, outs |-> <<>>, k |-> "0", const |-> 0]
         /\ g.node[1].ins = <<>> /\ g.node[1].kind = "End"
         /\ g.node[1].k = "0" /\ g.node[1].const = 0
<1>1. PICK zero : zero = EmptyGraph
  OBVIOUS
<1>2. Ids(zero) = {} /\ zero.next = 0 /\ zero.room = 1 /\ zero.node = <<>>
  BY <1>1 DEF EmptyGraph, Ids
<1>3. GraphOK(zero) /\ Mirrored(zero)
  <2>1. Cardinality(Ids(zero)) = 0
    BY <1>2, FS_EmptySet
  <2>2. zero = [node |-> zero.node, next |-> zero.next, room |-> zero.room]
    BY <1>1 DEF EmptyGraph
  <2>3. zero.node = [i \in Ids(zero) |-> zero.node[i]]
    BY <1>2
  <2> QED  BY <1>2, <2>1, <2>2, <2>3 DEF GraphOK, Mirrored
<1>4. PICK none : none = <<>>
  OBVIOUS
<1>5. \A S : none \in Seq(S)
  BY <1>4
<1>11. PICK start, end, k, c : start = "Start" /\ end = "End" /\ k = "0" /\ c = 0
  OBVIOUS
<1>6. PICK one : one = NewNode(zero, start, none, k, c)
  OBVIOUS
<1>7. g = NewNode(one, end, none, k, c)
  BY <1>1, <1>4, <1>6, <1>11 DEF NewGraph, new_node
<1>8. /\ GraphOK(one) /\ Mirrored(one) /\ one.next = 1 /\ Ids(one) = {0}
      /\ one.node[0] = Made(start, none, k, c)
  <2>1. none \in Seq(Ids(zero) \cup {Null})
    BY <1>5
  <2>2. GraphOK(one) /\ Mirrored(one) /\ NodeAdded(zero, one, start, none, k, c)
    BY <1>3, <1>6, <2>1, NewNodeKeeps
  <2> QED  BY <1>2, <2>2 DEF NodeAdded
<1>9. /\ GraphOK(g) /\ Mirrored(g) /\ g.next = 2 /\ Ids(g) = {0, 1}
      /\ g.node[1] = Made(end, none, k, c)
  <2>1. none \in Seq(Ids(one) \cup {Null})
    BY <1>5
  <2>2. GraphOK(g) /\ Mirrored(g) /\ NodeAdded(one, g, end, none, k, c)
    BY <1>7, <1>8, <2>1, NewNodeKeeps
  <2> QED  BY <1>8, <2>2 DEF NodeAdded
<1>10. g.node[0] = Made(start, none, k, c)
  <2> DEFINE Uses(i) == [j \in 1..Times(none, i) |-> one.next]
  <2>1. g.node[0] = [one.node[0] EXCEPT !.outs = @ \o Uses(0)]
    <3>1. 0 \in Ids(one) /\ 0 # one.next
      BY <1>8
    <3> QED  BY <1>7, <3>1 DEF NewNode
  <2>2. one.node[0].outs \o Uses(0) = <<>>
    <3>1. Times(none, 0) = 0
      BY <1>4, TimesEmpty
    <3>2. Uses(0) = <<>>
      BY <3>1
    <3>3. one.node[0].outs = <<>>
      BY <1>8 DEF Made
    <3> HIDE DEF Uses
    <3> QED  BY <3>2, <3>3
  <2>3. g.node[0] = [one.node[0] EXCEPT !.outs = <<>>]
    <3> HIDE DEF Uses
    <3> QED  BY <2>1, <2>2
  <2> QED  BY <1>8, <2>3 DEF Made
<1> QED  BY <1>4, <1>9, <1>10, <1>11 DEF Made

LEMMA EditsInitial ==
  ASSUME Init
  PROVE  EditsIInv /\ Flow!FlowInit
<1>1. /\ GraphOK(graph) /\ Mirrored(graph) /\ graph.next = 2 /\ Ids(graph) = {0, 1}
      /\ graph.node[0] = [kind |-> "Start", ins |-> <<>>, outs |-> <<>>, k |-> "0", const |-> 0]
      /\ graph.node[1].ins = <<>> /\ graph.node[1].kind = "End"
      /\ graph.node[1].k = "0" /\ graph.node[1].const = 0
  BY NewGraphIs DEF Init
<1>2. inputsOf = [n \in 0..1 |-> <<>>]
  <2>1. 0..1 = {0, 1}
    OBVIOUS
  <2> QED  BY <1>1, <2>1 DEF inputsOf
<1> QED  BY <1>1, <1>2 DEF EditsIInv, Start, Flow!FlowInit

LEMMA AddStep ==
  ASSUME EditsIInv, NEW kind \in Kind, NEW len \in 0..MaxInputs,
         NEW inputs \in [1..len -> Ids(graph) \cup {Null}], Add(kind, inputs)
  PROVE  EditsIInv' /\ Flow!FlowAdd(inputs)
<1>1. inputs \in Seq(Ids(graph) \cup {Null})
  BY EditsAssumption, IsASeq
<1>2. graph' = NewNode(graph, kind, inputs, "0", 0)
  BY DEF Add, new_node
<1>3. GraphOK(graph') /\ Mirrored(graph') /\ NodeAdded(graph, graph', kind, inputs, "0", 0)
  BY <1>1, <1>2, NewNodeKeeps DEF EditsIInv
<1>5. EditsIInv'
  BY <1>3 DEF NodeAdded, EditsIInv, SameContent, Made
<1>6. inputsOf' = [n \in DOMAIN inputsOf \cup {graph.next} |->
                    IF n = graph.next THEN inputs ELSE inputsOf[n]]
  BY <1>3 DEF NodeAdded, inputsOf, Made
<1> QED  BY <1>3, <1>5, <1>6 DEF NodeAdded, Add, Flow!FlowAdd, Flow!Nodes

LEMMA RemoveStep ==
  ASSUME EditsIInv, NEW n \in Ids(graph), Remove(n)
  PROVE  EditsIInv' /\ Flow!FlowRemove(n)
<1>1. graph' = remove_node(graph, n) /\ graph.node[n].outs = <<>> /\ n # Start
  BY DEF Remove, EditsIInv
<1>2. /\ GraphOK(graph') /\ Mirrored(graph')
      /\ graph'.next = graph.next /\ Ids(graph') = Ids(graph) \ {n}
      /\ \A i \in Ids(graph') : /\ graph'.node[i].ins = graph.node[i].ins
                                /\ SameContent(graph'.node[i], graph.node[i])
  BY <1>1, RemoveKeeps DEF EditsIInv
<1>3. EditsIInv'
  BY <1>1, <1>2 DEF EditsIInv, SameContent
\* Nobody has n as an input, since n lists nobody.
<1>4. \A m \in Ids(graph) : \A p \in DOMAIN graph.node[m].ins : graph.node[m].ins[p] # n
  <2> TAKE m \in Ids(graph)
  <2>1. Times(graph.node[m].ins, n) = 0
    BY <1>1, TimesEmpty DEF EditsIInv, Mirrored
  <2>2. graph.node[m].ins \in Seq(Ids(graph) \cup {Null})
    BY GraphLists DEF EditsIInv
  <2> QED  BY <2>1, <2>2, TimesType
<1>5. inputsOf' = [m \in DOMAIN inputsOf \ {n} |-> inputsOf[m]]
  BY <1>2 DEF inputsOf
<1>6. \A m \in DOMAIN inputsOf : \A p \in DOMAIN inputsOf[m] : inputsOf[m][p] # n
  BY <1>4 DEF inputsOf
<1> QED  BY <1>2, <1>3, <1>5, <1>6 DEF Flow!FlowRemove, Flow!Nodes

LEMMA ReplaceStep ==
  ASSUME EditsIInv, NEW old \in Ids(graph), NEW new \in Ids(graph) \cup {Null},
         Replace(old, new)
  PROVE  EditsIInv' /\ Flow!FlowReplace(old, new)
<1>1. /\ graph' = replace_node(graph, old, new) /\ new # old
      /\ new = Null => graph.node[old].outs = <<>>
  BY DEF Replace
<1>2. /\ GraphOK(graph') /\ Mirrored(graph')
      /\ graph'.next = graph.next /\ Ids(graph') = Ids(graph)
      /\ \A i \in Ids(graph) : /\ graph'.node[i].ins = Redirected(graph.node[i].ins, old, new)
                               /\ SameContent(graph'.node[i], graph.node[i])
  BY <1>1, ReplaceKeeps DEF EditsIInv, NodeReplaced
<1>3. EditsIInv'
  BY <1>2 DEF EditsIInv, SameContent
<1>4. inputsOf' = [n \in DOMAIN inputsOf |->
        [p \in DOMAIN inputsOf[n] |-> IF inputsOf[n][p] = old THEN new ELSE inputsOf[n][p]]]
  BY <1>2 DEF inputsOf, Redirected
<1> QED  BY <1>2, <1>3, <1>4 DEF Flow!FlowReplace, Flow!Nodes

LEMMA EditsStep ==
  ASSUME EditsIInv, Next
  PROVE  EditsIInv' /\ Flow!FlowNext
<1>0. Flow!Nodes = Ids(graph) /\ Flow!Null = Null
  BY DEF Flow!Nodes, Flow!Null, inputsOf, Null
<1>1. CASE \E kind \in Kind, len \in 0..MaxInputs :
             \E inputs \in [1..len -> Ids(graph) \cup {Null}] : Add(kind, inputs)
  <2>1. PICK kind \in Kind, len \in 0..MaxInputs :
          \E inputs \in [1..len -> Ids(graph) \cup {Null}] : Add(kind, inputs)
    BY <1>1
  <2>2. PICK inputs \in [1..len -> Ids(graph) \cup {Null}] : Add(kind, inputs)
    BY <2>1
  <2>3. EditsIInv' /\ Flow!FlowAdd(inputs)
    BY <2>2, AddStep
  <2> QED  BY <1>0, <2>3 DEF Flow!FlowNext
<1>2. CASE \E n \in Ids(graph) : Remove(n)
  <2>1. PICK n \in Ids(graph) : Remove(n)
    BY <1>2
  <2>2. EditsIInv' /\ Flow!FlowRemove(n)
    BY <2>1, RemoveStep
  <2> QED  BY <1>0, <2>2 DEF Flow!FlowNext
<1>3. CASE \E old \in Ids(graph), new \in Ids(graph) \cup {Null} : Replace(old, new)
  <2>1. PICK old \in Ids(graph), new \in Ids(graph) \cup {Null} : Replace(old, new)
    BY <1>3
  <2>2. EditsIInv' /\ Flow!FlowReplace(old, new)
    BY <2>1, ReplaceStep
  <2> QED  BY <1>0, <2>2 DEF Flow!FlowNext
<1> QED  BY <1>1, <1>2, <1>3 DEF Next

LEMMA EditsInvariant == Spec => []EditsIInv
<1>1. Init => EditsIInv
  BY EditsInitial
<1>2. EditsIInv /\ [Next]_graph => EditsIInv'
  <2>1. ASSUME EditsIInv, UNCHANGED graph PROVE EditsIInv'
    BY <2>1 DEF EditsIInv
  <2> QED  BY <2>1, EditsStep
<1> QED  BY <1>1, <1>2, PTL DEF Spec

-----------------------------------------------------------------------------
(***************************************************************************)
(* The theorems                                                            *)
(***************************************************************************)

\* Ids are given once and nodes_ has room for the nodes there are.
THEOREM EditsTypes == Spec => []EditsTypeOK
<1>1. ASSUME EditsIInv PROVE EditsTypeOK
  <2>1. ASSUME NEW n \in Ids(graph) PROVE graph.node[n] \in Node
    <3>1. IsNode(graph.node[n]) /\ graph.node[n].kind \in Kind \cup {"Start", "End"}
          /\ graph.node[n].k = "0" /\ graph.node[n].const = 0
      BY <1>1 DEF EditsIInv, GraphOK
    <3> QED  BY <3>1 DEF IsNode, Node
  <2> QED  BY <1>1, <2>1 DEF EditsIInv, EditsTypeOK, GraphOK
<1> QED  BY EditsInvariant, <1>1, PTL

\* However the builder and the passes edit a graph, each node lists exactly
\* its users, as often as they use it, and no input is of a freed node.
THEOREM UsesAreMirrored == Spec => []UsesMirrorInputs
<1>1. EditsIInv => UsesMirrorInputs
  BY DEF EditsIInv, UsesMirrorInputs, Closed, Mirrored
<1> QED  BY EditsInvariant, <1>1, PTL

\* Class Graph implements a graph of inputs, which has no lists of users to
\* go wrong: each edit is the step of the same name.
THEOREM EditsAreDataFlow == Spec => ImplementsDataFlow
<1>1. Init => Flow!FlowInit
  BY EditsInitial
<1>2. EditsIInv /\ [Next]_graph => [Flow!FlowNext]_<<inputsOf, graph.next>>
  <2>1. ASSUME UNCHANGED graph PROVE UNCHANGED <<inputsOf, graph.next>>
    BY <2>1 DEF inputsOf
  <2> QED  BY <2>1, EditsStep
<1> QED  BY EditsInvariant, <1>1, <1>2, PTL DEF Spec, ImplementsDataFlow, Flow!FlowSpec, Flow!flowVars

-----------------------------------------------------------------------------
(***************************************************************************)
(* The order of nodes_                                                     *)
(***************************************************************************)
Increasing(s) == \A p, q \in DOMAIN s : p < q => s[p] < s[q]

keep(S, kept, i) == IF i \in S THEN Append(kept, i) ELSE kept

\* The list after i of the members of s.
KeptInOrder(S, base, s, i, x) ==
  /\ x \in Seq(S)
  /\ \A p \in DOMAIN x : \E q \in 1..i : x[p] = s[q]
  /\ \A q \in 1..i : s[q] \in S => \E p \in DOMAIN x : x[p] = s[q]
  /\ Increasing(s) => Increasing(x)

Listing == INSTANCE FoldInduction WITH Visit <- keep, Kept <- KeptInOrder

\* The members of S that s lists are all in the list.
HasAll(S, list, s) == \A q \in DOMAIN s : s[q] \in S => \E p \in DOMAIN list : list[p] = s[q]

LEMMA InOrderIs ==
  ASSUME NEW S, NEW s \in Seq(Int)
  PROVE  /\ InOrder(S, s) \in Seq(S)
         /\ \A p \in DOMAIN InOrder(S, s) : \E q \in DOMAIN s : InOrder(S, s)[p] = s[q]
         /\ HasAll(S, InOrder(S, s), s)
         /\ Increasing(s) => Increasing(InOrder(S, s))
<1>1. Len(s) \in Nat /\ DOMAIN s = 1..Len(s)
  OBVIOUS
<1>2. PICK none : none = <<>>
  OBVIOUS
<1>3. KeptInOrder(S, none, s, 0, none)
  BY <1>2 DEF KeptInOrder, Increasing
<1>4. ASSUME NEW i \in 1..Len(s), NEW x, KeptInOrder(S, none, s, i - 1, x)
      PROVE  KeptInOrder(S, none, s, i, keep(S, x, s[i]))
  <2>1. /\ x \in Seq(S)
        /\ \A p \in DOMAIN x : \E q \in 1..(i - 1) : x[p] = s[q]
        /\ \A q \in 1..(i - 1) : s[q] \in S => \E p \in DOMAIN x : x[p] = s[q]
        /\ Increasing(s) => Increasing(x)
    BY <1>4 DEF KeptInOrder
  <2>2. \A q \in 1..(i - 1) : q \in 1..i /\ q \in DOMAIN s /\ q < i
    BY <1>1
  <2>3. i \in 1..i /\ i \in DOMAIN s /\ \A q \in 1..i : q = i \/ q \in 1..(i - 1)
    BY <1>1
  <2>4. CASE s[i] \in S
    <3>1. PICK y : y = Append(x, s[i])
      OBVIOUS
    <3>2. PICK n : n = Len(x) + 1
      OBVIOUS
    <3>3. /\ y \in Seq(S) /\ n \in Nat /\ DOMAIN y = DOMAIN x \cup {n} /\ y[n] = s[i]
          /\ \A p \in DOMAIN x : y[p] = x[p] /\ p < n /\ p \in Nat
      BY <2>1, <2>4, <3>1, <3>2, AppendProperties
    <3>4. /\ \A p \in DOMAIN y : \E q \in 1..i : y[p] = s[q]
          /\ \A q \in 1..i : s[q] \in S => \E p \in DOMAIN y : y[p] = s[q]
      BY <2>1, <2>2, <2>3, <3>3
    <3>5. ASSUME Increasing(s), NEW p \in DOMAIN y, NEW r \in DOMAIN y, p < r
          PROVE  y[p] < y[r]
      <4>1. CASE r = n
        <5>1. p \in DOMAIN x
          BY <3>3, <3>5, <4>1
        <5>2. PICK q \in 1..(i - 1) : x[p] = s[q]
          BY <2>1, <5>1
        <5>3. s[q] < s[i]
          BY <2>2, <2>3, <3>5 DEF Increasing
        <5> QED  BY <3>3, <4>1, <5>1, <5>2, <5>3
      <4>2. CASE r # n
        <5>1. p \in DOMAIN x /\ r \in DOMAIN x
          BY <3>3, <3>5, <4>2
        <5> QED  BY <2>1, <3>3, <3>5, <5>1 DEF Increasing
      <4> QED  BY <4>1, <4>2
    <3>6. keep(S, x, s[i]) = y
      BY <2>4, <3>1 DEF keep
    <3> QED  BY <3>3, <3>4, <3>5, <3>6 DEF KeptInOrder, Increasing
  <2>5. CASE s[i] \notin S
    BY <2>1, <2>2, <2>3, <2>5 DEF keep, KeptInOrder
  <2> QED  BY <2>4, <2>5
<1>5. KeptInOrder(S, none, s, Len(s), Listing!Folded(S, none, s))
  BY <1>1, <1>3, <1>4, Listing!FoldKeeps
<1>6. Listing!Folded(S, none, s) = InOrder(S, s)
  BY <1>2 DEF Listing!Folded, InOrder, Fold, keep
<1> QED  BY <1>1, <1>5, <1>6 DEF KeptInOrder, HasAll

LEMMA NodesOrdered ==
  ASSUME NEW g, GraphOK(g)
  PROVE  nodes(g) \in Seq(Ids(g)) /\ Increasing(nodes(g))
<1> DEFINE all == [i \in 1..g.next |-> i - 1]
<1>1. g.next \in Nat
  BY DEF GraphOK
<1>2. all \in Seq(Int)
  <2>1. all \in [1..g.next -> Int]
    BY <1>1
  <2> QED  BY <1>1, <2>1, IsASeq
<1>3. Increasing(all)
  BY <1>1 DEF Increasing
<1> HIDE DEF all
<1>4. InOrder(Ids(g), all) \in Seq(Ids(g)) /\ Increasing(InOrder(Ids(g), all))
  BY <1>2, <1>3, InOrderIs
<1> QED  BY <1>4 DEF nodes, all

\* Every node is among them.
LEMMA NodesAreAll ==
  ASSUME NEW g, GraphOK(g)
  PROVE  /\ \A i \in Ids(g) : \E p \in 1..Len(nodes(g)) : nodes(g)[p] = i
         /\ IsFiniteSet(Ids(g)) /\ Cardinality(Ids(g)) <= Len(nodes(g))
<1> DEFINE all == [i \in 1..g.next |-> i - 1]
<1>1. g.next \in Nat /\ Ids(g) \subseteq 0..(g.next - 1)
  BY DEF GraphOK
<1>2. all \in Seq(Int) /\ DOMAIN all = 1..g.next
  <2>1. all \in [1..g.next -> Int]
    BY <1>1
  <2> QED  BY <1>1, <2>1, IsASeq
<1>3. \A i \in Ids(g) : i + 1 \in DOMAIN all /\ all[i + 1] = i
  BY <1>1
<1> HIDE DEF all
<1>4. PICK s : s = nodes(g)
  OBVIOUS
<1>5. s = InOrder(Ids(g), all)
  BY <1>4 DEF nodes, all
<1>6. \A i \in Ids(g) : \E p \in DOMAIN s : s[p] = i
  <2>1. HasAll(Ids(g), s, all)
    BY <1>2, <1>5, InOrderIs
  <2> QED  BY <1>3, <2>1 DEF HasAll
<1>7. s \in Seq(Ids(g)) /\ Len(s) \in Nat /\ DOMAIN s = 1..Len(s)
  BY <1>2, <1>5, InOrderIs
<1>8. IsFiniteSet(1..Len(s)) /\ Cardinality(1..Len(s)) = Len(s)
  BY <1>7, FS_Interval
<1>9. s \in Surjection(1..Len(s), Ids(g))
  BY <1>6, <1>7 DEF Surjection
<1>10. IsFiniteSet(Ids(g)) /\ Cardinality(Ids(g)) <= Cardinality(1..Len(s))
  BY <1>8, <1>9, FS_Surjection
<1> QED  BY <1>4, <1>6, <1>7, <1>8, <1>10

-----------------------------------------------------------------------------
(***************************************************************************)
(* Graphs without circles                                                  *)
(***************************************************************************)
\* The inputs of a node, with or without null.
InputsOf(g, i) == {g.node[i].ins[p] : p \in DOMAIN g.node[i].ins}

\* No nodes use each other in a circle.
Acyclic(g) == \A S \in SUBSET Ids(g) : (\A i \in S : InputsOf(g, i) \cap S # {}) => S = {}

\* What the builder makes and the passes keep: that no node becomes its own
\* input depends on there being no circles.
WellMade(g) ==
  /\ GraphOK(g) /\ Mirrored(g) /\ Acyclic(g)
  /\ Start \in Ids(g) /\ g.node[Start].kind = "Start" /\ g.node[Start].ins = <<>>

LEMMA InputsAre ==
  ASSUME NEW g, GraphOK(g), Mirrored(g), NEW i \in Ids(g)
  PROVE  InputsOf(g, i) \subseteq Ids(g) \cup {Null}
BY DEF InputsOf, Mirrored

LEMMA NoSelfInput ==
  ASSUME NEW g, WellMade(g), NEW i \in Ids(g)
  PROVE  i \notin InputsOf(g, i)
<1>1. {i} \in SUBSET Ids(g) /\ {i} # {}
  OBVIOUS
<1>2. ~ \A j \in {i} : InputsOf(g, j) \cap {i} # {}
  BY <1>1 DEF WellMade, Acyclic
<1> QED  BY <1>2

\* A node that nobody uses closes no circle.
LEMMA AddingKeeps ==
  ASSUME NEW g, WellMade(g), NEW kind, NEW inputs \in Seq(Ids(g) \cup {Null}), NEW k, NEW const,
         NEW h, h = NewNode(g, kind, inputs, k, const)
  PROVE  WellMade(h) /\ NodeAdded(g, h, kind, inputs, k, const)
<1>0. GraphOK(g) /\ Mirrored(g)
  BY DEF WellMade
<1>a. GraphOK(h) /\ Mirrored(h) /\ NodeAdded(g, h, kind, inputs, k, const)
  BY <1>0, NewNodeKeeps
<1>b. PICK n : n = g.next
  OBVIOUS
<1>1. /\ GraphOK(h) /\ Mirrored(h)
      /\ h.next = n + 1 /\ Ids(h) = Ids(g) \cup {n} /\ n \notin Ids(g)
      /\ h.node[n] = Made(kind, inputs, k, const)
      /\ \A i \in Ids(g) : h.node[i].ins = g.node[i].ins /\ SameContent(h.node[i], g.node[i])
  BY <1>a, <1>b DEF NodeAdded
<1>2. n # Null
  <2>1. n \in Nat
    BY <1>0, <1>b DEF GraphOK
  <2> QED  BY <2>1 DEF Null
<1>3. \A i \in Ids(g) : InputsOf(h, i) = InputsOf(g, i)
  BY <1>1 DEF InputsOf
<1>4. \A i \in Ids(h) : n \notin InputsOf(h, i)
  <2>1. InputsOf(h, n) \subseteq Ids(g) \cup {Null}
    <3>1. h.node[n].ins = inputs
      BY <1>1 DEF Made
    <3> QED  BY <3>1 DEF InputsOf
  <2>2. \A i \in Ids(g) : InputsOf(h, i) \subseteq Ids(g) \cup {Null}
    BY <1>0, <1>3, InputsAre
  <2> QED  BY <1>1, <1>2, <2>1, <2>2
<1>5. Acyclic(h)
  <2> SUFFICES ASSUME NEW S \in SUBSET Ids(h), \A i \in S : InputsOf(h, i) \cap S # {}
               PROVE  S = {}
    BY DEF Acyclic
  <2>1. S \ {n} \in SUBSET Ids(g)
    BY <1>1
  <2>2. \A i \in S : InputsOf(h, i) \cap (S \ {n}) # {}
    BY <1>4
  <2>3. S \ {n} = {}
    <3>1. Acyclic(g)
      BY DEF WellMade
    <3>2. \A i \in S \ {n} : InputsOf(g, i) \cap (S \ {n}) # {}
      BY <1>3, <2>1, <2>2
    <3> QED  BY <2>1, <3>1, <3>2 DEF Acyclic
  <2> QED  BY <2>2, <2>3
<1>6. Start \in Ids(h) /\ h.node[Start].kind = "Start" /\ h.node[Start].ins = <<>>
  BY <1>1 DEF WellMade, SameContent
<1> QED  BY <1>1, <1>5, <1>6, <1>a DEF WellMade

LEMMA RemovingKeeps ==
  ASSUME NEW g, WellMade(g), NEW n \in Ids(g), g.node[n].outs = <<>>, g.node[n].kind # "Start",
         NEW h, h = remove_node(g, n)
  PROVE  WellMade(h) /\ h.next = g.next /\ Ids(h) = Ids(g) \ {n}
<1>1. /\ GraphOK(h) /\ Mirrored(h)
      /\ h.next = g.next /\ Ids(h) = Ids(g) \ {n}
      /\ \A i \in Ids(h) : h.node[i].ins = g.node[i].ins /\ SameContent(h.node[i], g.node[i])
  BY RemoveKeeps DEF WellMade
<1>2. \A i \in Ids(h) : InputsOf(h, i) = InputsOf(g, i)
  BY <1>1 DEF InputsOf
<1>3. Acyclic(h)
  BY <1>1, <1>2 DEF WellMade, Acyclic
<1>4. Start \in Ids(h) /\ h.node[Start].kind = "Start" /\ h.node[Start].ins = <<>>
  BY <1>1 DEF WellMade, SameContent
<1> QED  BY <1>1, <1>3, <1>4 DEF WellMade

\* A node can be replaced by one of its inputs, and by one whose inputs are
\* among its own.
LEMMA ReplacingKeeps ==
  ASSUME NEW g, WellMade(g), NEW old \in Ids(g), NEW new \in Ids(g) \cup {Null},
         new # old, new = Null => g.node[old].outs = <<>>, old # Start,
         \/ new = Null
         \/ new \in InputsOf(g, old)
         \/ InputsOf(g, new) \subseteq InputsOf(g, old) \cup {Null, Start},
         NEW h, h = replace_node(g, old, new)
  PROVE  WellMade(h) /\ NodeReplaced(g, h, old, new)
<1>1. /\ GraphOK(h) /\ Mirrored(h)
      /\ h.next = g.next /\ Ids(h) = Ids(g)
      /\ \A i \in Ids(g) : /\ h.node[i].ins = Redirected(g.node[i].ins, old, new)
                           /\ SameContent(h.node[i], g.node[i])
                           /\ i = old => h.node[i].outs = <<>>
                           /\ i \notin {old, new} => h.node[i].outs = g.node[i].outs
  <2>1. GraphOK(g) /\ Mirrored(g)
    BY DEF WellMade
  <2>2. GraphOK(h) /\ Mirrored(h) /\ NodeReplaced(g, h, old, new)
    BY <2>1, ReplaceKeeps
  <2> QED  BY <2>2 DEF NodeReplaced
<1>2. /\ Null \notin Ids(g) /\ Start # Null
      /\ InputsOf(g, Start) = {}
      /\ InputsOf(h, Start) = {} /\ h.node[Start].ins = <<>>
  <2>1. \A x : x \in Ids(g) => x \in Nat
    BY DEF WellMade, GraphOK
  <2>2. g.node[Start].ins = <<>> /\ Start \in Ids(g)
    BY DEF WellMade
  <2>3. h.node[Start].ins = <<>>
    <3>1. \A s : s = <<>> => Redirected(s, old, new) = s
      BY DEF Redirected
    <3> QED  BY <1>1, <2>2, <3>1
  <2> QED  BY <2>1, <2>2, <2>3 DEF InputsOf, Null, Start
\* Where an input comes from.
<1>3. \A i \in Ids(g) : \A x \in InputsOf(h, i) :
        \/ x \in InputsOf(g, i)
        \/ x = new /\ old \in InputsOf(g, i)
  <2> TAKE i \in Ids(g)
  <2> TAKE x \in InputsOf(h, i)
  <2>1. PICK s : s = g.node[i].ins
    OBVIOUS
  <2>2. PICK p \in DOMAIN s : x = IF s[p] = old THEN new ELSE s[p]
    <3>1. h.node[i].ins = Redirected(s, old, new)
      BY <1>1, <2>1
    <3> QED  BY <3>1 DEF InputsOf, Redirected
  <2> QED  BY <2>1, <2>2 DEF InputsOf
<1>4. Acyclic(h)
  <2> SUFFICES ASSUME NEW S \in SUBSET Ids(h), \A i \in S : InputsOf(h, i) \cap S # {}
               PROVE  S = {}
    BY DEF Acyclic
  <2>0. S \in SUBSET Ids(g) /\ Start \notin S /\ Null \notin S
    BY <1>1, <1>2
  <2>1. CASE new \notin S
    <3>1. \A i \in S : InputsOf(g, i) \cap S # {}
      BY <1>3, <2>0, <2>1
    <3> QED  BY <2>0, <3>1 DEF WellMade, Acyclic
  <2>2. CASE new \in S
    <3> DEFINE T == S \cup {old}
    <3>1. T \in SUBSET Ids(g) /\ T # {}
      BY <2>0
    <3>2. \A i \in S : InputsOf(g, i) \cap T # {}
      BY <1>3, <2>0
    <3>3. InputsOf(g, old) \cap T # {}
      <4>1. CASE new \in InputsOf(g, old)
        BY <2>2, <4>1
      <4>2. CASE InputsOf(g, new) \subseteq InputsOf(g, old) \cup {Null, Start}
        <5>1. PICK x \in InputsOf(h, new) : x \in S
          BY <2>2
        <5>2. x \in InputsOf(g, new) \/ old \in InputsOf(g, new)
          BY <1>3, <2>0, <2>2, <5>1
        <5>3. CASE x \in InputsOf(g, new)
          BY <2>0, <4>2, <5>1, <5>3
        <5>4. CASE old \in InputsOf(g, new)
          BY <1>2, <4>2, <5>4
        <5> QED  BY <5>2, <5>3, <5>4
      <4> QED  BY <2>0, <2>2, <4>1, <4>2
    <3>4. \A i \in T : InputsOf(g, i) \cap T # {}
      BY <3>2, <3>3
    <3> HIDE DEF T
    <3> QED  BY <3>1, <3>4 DEF WellMade, Acyclic
  <2> QED  BY <2>1, <2>2
<1>5. Start \in Ids(h) /\ h.node[Start].kind = "Start"
  BY <1>1 DEF WellMade, SameContent
<1> QED  BY <1>1, <1>2, <1>4, <1>5 DEF WellMade, NodeReplaced

-----------------------------------------------------------------------------
(***************************************************************************)
(* The passes                                                              *)
(***************************************************************************)
(***************************************************************************)
(* dce: a round removes what had no users before it, and what loses its    *)
(* last user has none in the next.  Each round but the last removes a node *)
(* and the start is never removed, so that the rounds, as many as there    *)
(* are nodes, are enough.                                                  *)
(***************************************************************************)
Neat(g) == \A i \in Ids(g) : ~Useless(g, i)

LEMMA StaysUseless ==
  ASSUME NEW g, WellMade(g), NEW n \in Ids(g), g.node[n].outs = <<>>, g.node[n].kind # "Start",
         NEW h, h = remove_node(g, n), NEW i \in Ids(h), Useless(g, i)
  PROVE  Useless(h, i)
<1>1. /\ GraphOK(h) /\ Mirrored(h) /\ Ids(h) = Ids(g) \ {n}
      /\ \A j \in Ids(h) : h.node[j].ins = g.node[j].ins /\ SameContent(h.node[j], g.node[j])
  BY RemoveKeeps DEF WellMade
<1>2. GraphOK(g) /\ Mirrored(g) /\ i \in Ids(g)
  BY <1>1 DEF WellMade
<1>3. g.node[i].outs = <<>> /\ g.node[i].kind # "Start" /\ ~has_side_effects(g.node[i])
  BY DEF Useless
<1>4. h.node[i].outs = <<>>
  <2> SUFFICES ASSUME h.node[i].outs # <<>> PROVE FALSE
    OBVIOUS
  <2>1. PICK outs, none : outs = h.node[i].outs /\ none = g.node[i].outs
    OBVIOUS
  <2>2. outs \in Seq(Ids(h)) /\ none \in Seq(Ids(g)) /\ none = <<>>
    BY <1>1, <1>2, <1>3, <2>1, GraphLists
  <2>3. PICK p \in DOMAIN outs : outs[p] \in Ids(h)
    BY <2>1, <2>2
  <2>4. PICK u : u = outs[p]
    OBVIOUS
  <2>5. Times(outs, u) > 0 /\ ~(Times(none, u) > 0)
    <3>1. Times(outs, u) > 0 <=> \E q \in DOMAIN outs : outs[q] = u
      BY <2>2, TimesType
    <3>2. Times(none, u) = 0
      BY <2>2, TimesEmpty
    <3> QED  BY <2>3, <2>4, <3>1, <3>2
  <2>6. u \in Ids(h) /\ u \in Ids(g)
    BY <1>1, <2>3, <2>4
  <2>7. Times(outs, u) = Times(h.node[u].ins, i) /\ Times(none, u) = Times(g.node[u].ins, i)
    BY <1>1, <1>2, <2>1, <2>6 DEF Mirrored
  <2> QED  BY <1>1, <2>5, <2>6, <2>7
<1>5. h.node[i].kind = g.node[i].kind
  BY <1>1 DEF SameContent
<1> QED  BY <1>3, <1>4, <1>5 DEF Useless, has_side_effects

DropStep(c, g, i) == drop_useless(g, i)

\* The nodes that are still to visit are there, and those that were useless
\* before and are visited are not.
KeptByDrops(c, base, s, i, g) ==
  /\ WellMade(g) /\ Ids(g) \subseteq Ids(base)
  /\ \A j \in (i + 1)..Len(s) : s[j] \in Ids(g)
  /\ \A j \in Ids(g) : Useless(base, j) => Useless(g, j)
  /\ \A j \in 1..i : Useless(base, s[j]) => s[j] \notin Ids(g)
  /\ Neat(base) => g = base

Drops == INSTANCE FoldInduction WITH Visit <- DropStep, Kept <- KeptByDrops

LEMMA DropAllKeeps ==
  ASSUME NEW g, WellMade(g), NEW round, NEW h, h = drop_all_useless(g, round)
  PROVE  /\ WellMade(h) /\ Ids(h) \subseteq Ids(g)
         /\ \A i \in Ids(g) : Useless(g, i) => i \notin Ids(h)
         /\ Neat(g) => h = g
<1>1. PICK s : s = nodes(g)
  OBVIOUS
<1>2. s \in Seq(Ids(g)) /\ Increasing(s) /\ Len(s) \in Nat /\ DOMAIN s = 1..Len(s)
  BY <1>1, NodesOrdered DEF WellMade
<1>3. KeptByDrops(0, g, s, 0, g)
  BY <1>2 DEF KeptByDrops
<1>4. ASSUME NEW i \in 1..Len(s), NEW x, KeptByDrops(0, g, s, i - 1, x)
      PROVE  KeptByDrops(0, g, s, i, DropStep(0, x, s[i]))
  <2>1. /\ WellMade(x) /\ Ids(x) \subseteq Ids(g) /\ \A j \in i..Len(s) : s[j] \in Ids(x)
        /\ \A j \in Ids(x) : Useless(g, j) => Useless(x, j)
        /\ \A j \in 1..(i - 1) : Useless(g, s[j]) => s[j] \notin Ids(x)
        /\ Neat(g) => x = g
    BY <1>2, <1>4 DEF KeptByDrops
  <2>2. s[i] \in Ids(x) /\ \A j \in (i + 1)..Len(s) : s[j] \in Ids(x) /\ s[j] # s[i]
    <3>1. i \in i..Len(s) /\ \A j \in (i + 1)..Len(s) : j \in i..Len(s) /\ j \in 1..Len(s) /\ i < j
      BY <1>2
    <3>2. \A j \in 1..Len(s) : s[j] \in Int
      BY <1>2 DEF WellMade, GraphOK
    <3> QED  BY <1>2, <2>1, <3>1, <3>2 DEF Increasing
  <2>3. \A j \in 1..i : j = i \/ j \in 1..(i - 1)
    OBVIOUS
  <2>4. CASE Useless(x, s[i])
    <3>1. PICK y : y = remove_node(x, s[i])
      OBVIOUS
    <3>2. WellMade(y) /\ Ids(y) = Ids(x) \ {s[i]} /\ \A j \in Ids(y) : Useless(x, j) => Useless(y, j)
      BY <2>1, <2>2, <2>4, <3>1, RemovingKeeps, StaysUseless DEF Useless
    <3>3. ~Neat(g)
      BY <2>1, <2>2, <2>4 DEF Neat
    <3>4. KeptByDrops(0, g, s, i, y)
      BY <2>1, <2>2, <2>3, <3>2, <3>3 DEF KeptByDrops
    <3> QED  BY <2>4, <3>1, <3>4 DEF DropStep, drop_useless
  <2>5. CASE ~Useless(x, s[i])
    <3>1. KeptByDrops(0, g, s, i, x)
      BY <2>1, <2>2, <2>3, <2>5 DEF KeptByDrops
    <3> QED  BY <2>5, <3>1 DEF DropStep, drop_useless
  <2> QED  BY <2>4, <2>5
<1>5. KeptByDrops(0, g, s, Len(s), Drops!Folded(0, g, s))
  BY <1>2, <1>3, <1>4, Drops!FoldKeeps
<1>6. Drops!Folded(0, g, s) = h
  BY <1>1 DEF Drops!Folded, drop_all_useless, Fold, DropStep
<1>7. \A i \in Ids(g) : \E p \in 1..Len(s) : s[p] = i
  BY <1>1, NodesAreAll DEF WellMade
<1> QED  BY <1>5, <1>6, <1>7 DEF KeptByDrops

RoundStep(c, g, round) == drop_all_useless(g, round)

\* After i rounds nothing is useless, or i nodes are gone.
KeptByRounds(c, base, s, i, g) ==
  /\ WellMade(g)
  /\ Neat(g) \/ Cardinality(Ids(g)) <= Cardinality(Ids(base)) - i

Rounds == INSTANCE FoldInduction WITH Visit <- RoundStep, Kept <- KeptByRounds

LEMMA RoundKeeps ==
  ASSUME NEW g, WellMade(g), NEW round, NEW h, h = drop_all_useless(g, round)
  PROVE  /\ WellMade(h)
         /\ Cardinality(Ids(g)) \in Nat /\ Cardinality(Ids(h)) \in Nat
         /\ Neat(h) \/ Cardinality(Ids(h)) < Cardinality(Ids(g))
<1>1. /\ WellMade(h) /\ Ids(h) \subseteq Ids(g)
      /\ \A i \in Ids(g) : Useless(g, i) => i \notin Ids(h)
      /\ Neat(g) => h = g
  BY DropAllKeeps
<1>2. PICK G, H : G = Ids(g) /\ H = Ids(h)
  OBVIOUS
<1>3. IsFiniteSet(G) /\ IsFiniteSet(H)
  BY <1>1, <1>2, NodesAreAll DEF WellMade
<1>4. Cardinality(G) \in Nat /\ Cardinality(H) \in Nat
  BY <1>3, FS_CardinalityType
<1>5. Cardinality(H) <= Cardinality(G) /\ (Cardinality(H) = Cardinality(G) => H = G)
  BY <1>1, <1>2, <1>3, FS_Subset
<1>6. CASE Neat(g)
  BY <1>1, <1>2, <1>4, <1>6
<1>7. CASE ~Neat(g)
  <2>1. H # G
    BY <1>1, <1>2, <1>7 DEF Neat
  <2> QED  BY <1>1, <1>2, <1>4, <1>5, <2>1
<1> QED  BY <1>6, <1>7

LEMMA DceKeeps ==
  ASSUME NEW g, WellMade(g)
  PROVE  WellMade(dce(g).g) /\ Neat(dce(g).g)
<1>1. PICK s : s = nodes(g)
  OBVIOUS
<1>2. /\ Len(s) \in Nat /\ IsFiniteSet(Ids(g)) /\ Cardinality(Ids(g)) <= Len(s)
      /\ Cardinality(Ids(g)) \in Nat
  BY <1>1, NodesOrdered, NodesAreAll, FS_CardinalityType DEF WellMade
<1>3. KeptByRounds(0, g, s, 0, g)
  BY <1>2 DEF KeptByRounds
<1>4. ASSUME NEW i \in 1..Len(s), NEW x, KeptByRounds(0, g, s, i - 1, x)
      PROVE  KeptByRounds(0, g, s, i, RoundStep(0, x, s[i]))
  <2>1. PICK y : y = drop_all_useless(x, s[i])
    OBVIOUS
  <2>2. WellMade(x) /\ (Neat(x) \/ Cardinality(Ids(x)) <= Cardinality(Ids(g)) - (i - 1))
    BY <1>4 DEF KeptByRounds
  <2>3. /\ WellMade(y) /\ Cardinality(Ids(x)) \in Nat /\ Cardinality(Ids(y)) \in Nat
        /\ Neat(y) \/ Cardinality(Ids(y)) < Cardinality(Ids(x))
    BY <2>1, <2>2, RoundKeeps
  <2>4. Neat(x) => y = x
    BY <2>1, <2>2, DropAllKeeps
  <2>5. Neat(y) \/ Cardinality(Ids(y)) <= Cardinality(Ids(g)) - i
    BY <1>2, <2>2, <2>3, <2>4
  <2> QED  BY <2>1, <2>3, <2>5 DEF KeptByRounds, RoundStep
<1>5. KeptByRounds(0, g, s, Len(s), Rounds!Folded(0, g, s))
  BY <1>2, <1>3, <1>4, Rounds!FoldKeeps
<1>6. Rounds!Folded(0, g, s) = Fold(drop_all_useless, g, nodes(g))
  BY <1>1 DEF Rounds!Folded, Fold, RoundStep
<1>7. PICK h : h = dce(g).g
  OBVIOUS
<1>8. h = Fold(drop_all_useless, g, nodes(g))
  BY <1>7 DEF dce, Done
<1>9. WellMade(h) /\ (Neat(h) \/ Cardinality(Ids(h)) <= Cardinality(Ids(g)) - Len(s))
  BY <1>5, <1>6, <1>8 DEF KeptByRounds
<1>10. Cardinality(Ids(h)) \in Nat /\ Cardinality(Ids(h)) # 0
  <2>1. IsFiniteSet(Ids(h)) /\ Start \in Ids(h)
    BY <1>9, NodesAreAll DEF WellMade
  <2> QED  BY <2>1, FS_CardinalityType, FS_EmptySet
<1> QED  BY <1>2, <1>7, <1>9, <1>10

\* What a pass that visits nodes works on.
Visiting(x) == x = [g |-> x.g, any |-> x.any, fault |-> x.fault]

FoldStep(c, x, i) == fold_visit(x, i)

KeptByFolds(c, base, s, i, x) == WellMade(x.g) /\ Ids(base.g) \subseteq Ids(x.g)

Folds == INSTANCE FoldInduction WITH Visit <- FoldStep, Kept <- KeptByFolds

LEMMA FoldVisitKeeps ==
  ASSUME NEW x, WellMade(x.g), NEW i \in Ids(x.g)
  PROVE  WellMade(fold_visit(x, i).g) /\ Ids(x.g) \subseteq Ids(fold_visit(x, i).g)
<1>1. PICK g : g = x.g
  OBVIOUS
<1>2. CASE ~Foldable(g, i)
  BY <1>1, <1>2 DEF fold_visit
<1>3. CASE Foldable(g, i)
  <2>1. PICK n : n = g.node[i]
    OBVIOUS
  <2>2. /\ n.kind # "Start" /\ Len(n.ins) >= 3
        /\ n.ins \in Seq(Ids(g) \cup {Null})
    BY <1>1, <1>3, <2>1, GraphLists DEF Foldable, WellMade
  <2>3. PICK ctl : ctl = n.ins[1]
    OBVIOUS
  <2>4. ctl \in Ids(g) \cup {Null} /\ ctl \in InputsOf(g, i)
    BY <2>1, <2>2, <2>3 DEF InputsOf
  <2>5. PICK inputs : inputs = <<ctl>>
    OBVIOUS
  <2>6. inputs \in Seq(Ids(g) \cup {Null}) /\ DOMAIN inputs = {1} /\ inputs[1] = ctl
    BY <2>4, <2>5
  <2>7. PICK h : h = NewNode(g, "ConstReal", inputs, "0", folded(g, n))
    OBVIOUS
  <2>8. PICK kind, k, const : kind = "ConstReal" /\ k = "0" /\ const = folded(g, n)
    OBVIOUS
  <2>9. WellMade(h) /\ NodeAdded(g, h, kind, inputs, k, const)
    <3>1. h = NewNode(g, kind, inputs, k, const)
      BY <2>7, <2>8
    <3> QED  BY <1>1, <2>6, <3>1, AddingKeeps
  <2>10. PICK new : new = g.next
    OBVIOUS
  <2>11. /\ new \in Ids(h) /\ new # i /\ i \in Ids(h) /\ Ids(g) \subseteq Ids(h)
         /\ InputsOf(h, i) = InputsOf(g, i) /\ InputsOf(h, new) = {ctl}
    <3>1. /\ Ids(h) = Ids(g) \cup {new} /\ new \notin Ids(g)
          /\ h.node[new].ins = inputs /\ h.node[i].ins = g.node[i].ins
      BY <1>1, <2>9, <2>10 DEF NodeAdded, Made
    <3> QED  BY <1>1, <2>6, <3>1 DEF InputsOf
  <2>12. i # Start /\ new # Null
    <3>1. i # Start
      BY <1>1, <2>1, <2>2 DEF WellMade
    <3>2. new \in Nat
      BY <2>11, <2>9 DEF WellMade, GraphOK
    <3> QED  BY <3>1, <3>2 DEF Null
  <2>13. PICK r : r = replace_node(h, i, new)
    OBVIOUS
  <2>14. WellMade(r) /\ NodeReplaced(h, r, i, new)
    <3>1. InputsOf(h, new) \subseteq InputsOf(h, i) \cup {Null, Start}
      BY <2>4, <2>11
    <3> QED  BY <2>9, <2>11, <2>12, <2>13, <3>1, ReplacingKeeps
  <2>15. fold_visit(x, i).g = r
    BY <1>1, <1>3, <2>1, <2>3, <2>5, <2>7, <2>10, <2>13 DEF fold_visit, Done
  <2> QED  BY <1>1, <2>11, <2>14, <2>15 DEF NodeReplaced
<1> QED  BY <1>1, <1>2, <1>3

LEMMA ConstantFoldKeeps ==
  ASSUME NEW g, WellMade(g)
  PROVE  WellMade(constant_fold(g).g)
<1>1. PICK s : s = nodes(g)
  OBVIOUS
<1>2. s \in Seq(Ids(g)) /\ Len(s) \in Nat /\ \A i \in 1..Len(s) : s[i] \in Ids(g)
  BY <1>1, NodesOrdered DEF WellMade
<1>3. PICK base : base = Done(g, FALSE, "none")
  OBVIOUS
<1>4. base.g = g
  BY <1>3 DEF Done
<1>5. KeptByFolds(0, base, s, 0, base)
  BY <1>4 DEF KeptByFolds
<1>6. \A i \in 1..Len(s) : \A x :
        KeptByFolds(0, base, s, i - 1, x) => KeptByFolds(0, base, s, i, FoldStep(0, x, s[i]))
  BY <1>2, <1>4, FoldVisitKeeps DEF KeptByFolds, FoldStep
<1>7. KeptByFolds(0, base, s, Len(s), Folds!Folded(0, base, s))
  BY <1>2, <1>5, <1>6, Folds!FoldKeeps
<1>8. Folds!Folded(0, base, s) = constant_fold(g)
  BY <1>1, <1>3 DEF Folds!Folded, constant_fold, Fold, FoldStep
<1> QED  BY <1>7, <1>8 DEF KeptByFolds

ReduceStep(c, x, i) == reduce_visit(x, i)

KeptByReduces(c, base, s, i, x) == WellMade(x.g) /\ Ids(x.g) = Ids(base.g) /\ Visiting(x)

Reduces == INSTANCE FoldInduction WITH Visit <- ReduceStep, Kept <- KeptByReduces

LEMMA ReduceVisitKeeps ==
  ASSUME NEW x, WellMade(x.g), Visiting(x), NEW i \in Ids(x.g), NEW y, y = reduce_visit(x, i)
  PROVE  WellMade(y.g) /\ Ids(y.g) = Ids(x.g) /\ Visiting(y)
<1>1. PICK g, n : g = x.g /\ n = g.node[i]
  OBVIOUS
<1>2. n.ins \in Seq(Ids(g) \cup {Null})
  BY <1>1, GraphLists DEF WellMade
<1> DEFINE reducible == n.kind \in {"Mul", "Add"} /\ Len(n.ins) >= 3 /\ IsReal(g, n.ins[3])
           to == IF reducible THEN reduced(g, n) ELSE <<>>
<1>3. y = IF to = <<>> THEN x
          ELSE IF to[1] = Null /\ n.outs # <<>> THEN [x EXCEPT !.fault = "null"]
          ELSE Done(replace_node(g, i, to[1]), TRUE, x.fault)
  BY <1>1 DEF reduce_visit
<1>4. to # <<>> => reducible /\ to[1] \in {n.ins[2], n.ins[3]}
  BY DEF reduced
<1> HIDE DEF to
<1>5. CASE to = <<>>
  BY <1>3, <1>5
<1>6. CASE to # <<>> /\ to[1] = Null /\ n.outs # <<>>
  <2>1. y = [x EXCEPT !.fault = "null"]
    BY <1>3, <1>6
  <2>2. y.g = x.g /\ Visiting(y)
    BY <2>1 DEF Visiting
  <2> QED  BY <2>2
<1>7. CASE to # <<>> /\ ~(to[1] = Null /\ n.outs # <<>>)
  <2>1. PICK new : new = to[1]
    OBVIOUS
  <2>2. new \in InputsOf(g, i)
    BY <1>1, <1>2, <1>4, <1>7, <2>1 DEF InputsOf
  <2>3. new \in Ids(g) \cup {Null} /\ new # i
    BY <1>1, <2>2, InputsAre, NoSelfInput DEF WellMade
  <2>4. i # Start
    BY <1>1, <1>4, <1>7 DEF WellMade
  <2>5. PICK h : h = replace_node(g, i, new)
    OBVIOUS
  <2>6. WellMade(h) /\ NodeReplaced(g, h, i, new)
    BY <1>1, <1>7, <2>1, <2>2, <2>3, <2>4, <2>5, ReplacingKeeps
  <2>7. y = Done(h, TRUE, x.fault)
    BY <1>3, <1>7, <2>1, <2>5
  <2>8. y.g = h /\ Visiting(y)
    BY <2>7 DEF Done, Visiting
  <2> QED  BY <1>1, <2>6, <2>8 DEF NodeReplaced
<1> QED  BY <1>5, <1>6, <1>7

LEMMA StrengthReduceKeeps ==
  ASSUME NEW g, WellMade(g)
  PROVE  WellMade(strength_reduce(g).g)
<1>1. PICK s : s = nodes(g)
  OBVIOUS
<1>2. s \in Seq(Ids(g)) /\ Len(s) \in Nat /\ \A i \in 1..Len(s) : s[i] \in Ids(g)
  BY <1>1, NodesOrdered DEF WellMade
<1>3. PICK base : base = Done(g, FALSE, "none")
  OBVIOUS
<1>4. base.g = g /\ Visiting(base)
  BY <1>3 DEF Done, Visiting
<1>5. KeptByReduces(0, base, s, 0, base)
  BY <1>4 DEF KeptByReduces
<1>6. \A i \in 1..Len(s) : \A x :
        KeptByReduces(0, base, s, i - 1, x) => KeptByReduces(0, base, s, i, ReduceStep(0, x, s[i]))
  BY <1>2, <1>4, ReduceVisitKeeps DEF KeptByReduces, ReduceStep
<1>7. KeptByReduces(0, base, s, Len(s), Reduces!Folded(0, base, s))
  BY <1>2, <1>5, <1>6, Reduces!FoldKeeps
<1>8. Reduces!Folded(0, base, s) = strength_reduce(g)
  BY <1>1, <1>3 DEF Reduces!Folded, strength_reduce, Fold, ReduceStep
<1> QED  BY <1>7, <1>8 DEF KeptByReduces

(***************************************************************************)
(* gvn: the keys in seen were taken when their nodes were visited.  An     *)
(* input a node had then is still its input, or is a node that was         *)
(* replaced since and that nobody uses.                                    *)
(***************************************************************************)
Normal(input) == IF input = Null THEN 0 ELSE input

Replaced(s, k, x) ==
  {d \in Ids(x.g) : /\ d # 0 /\ x.g.node[d].outs = <<>>
                    /\ \E p \in 1..k : d = s[p]
                    /\ \A f \in x.seen : f.id # d}

Remembered(s, k, x, f) ==
  /\ f.id \in Ids(x.g) /\ \E p \in 1..k : f.id = s[p]
  /\ DOMAIN f.key[3] = DOMAIN x.g.node[f.id].ins
  /\ \A j \in DOMAIN f.key[3] :
       f.key[3][j] = Normal(x.g.node[f.id].ins[j]) \/ f.key[3][j] \in Replaced(s, k, x)

Numbering(x) == x = [g |-> x.g, seen |-> x.seen, any |-> x.any]

GvnStep(c, x, i) == gvn_visit(x, i)

KeptByGvn(c, base, s, k, x) ==
  /\ Numbering(x) /\ WellMade(x.g) /\ Ids(x.g) = Ids(base.g)
  /\ \A f \in x.seen : Remembered(s, k, x, f)

Gvn == INSTANCE FoldInduction WITH Visit <- GvnStep, Kept <- KeptByGvn

\* Of two nodes with one key, the one has the inputs of the other.
LEMMA SameKeySameInputs ==
  ASSUME NEW x, WellMade(x.g), NEW s, NEW k, NEW f, Remembered(s, k, x, f),
         NEW i \in Ids(x.g), f.key = gvn_key(x.g, i)
  PROVE  InputsOf(x.g, f.id) \subseteq InputsOf(x.g, i) \cup {Null, Start}
<1>1. PICK g, ins, key : g = x.g /\ ins = g.node[i].ins /\ key = f.key[3]
  OBVIOUS
<1>2. key = [j \in DOMAIN ins |-> Normal(ins[j])]
  BY <1>1 DEF gvn_key, Normal
<1> SUFFICES ASSUME NEW e \in InputsOf(g, f.id), e \notin {Null, Start}
             PROVE  e \in InputsOf(g, i)
  BY <1>1
<1>e. PICK j \in DOMAIN g.node[f.id].ins : g.node[f.id].ins[j] = e
  BY DEF InputsOf
<1>3. j \in DOMAIN ins /\ key[j] = Normal(ins[j])
  BY <1>1, <1>2 DEF Remembered
\* A replaced node is nobody's input.
<1>4. key[j] \notin Replaced(s, k, x)
  <2> SUFFICES ASSUME key[j] \in Replaced(s, k, x) PROVE FALSE
    OBVIOUS
  <2>1. PICK d : d = key[j] /\ d \in Ids(g) /\ d # 0 /\ g.node[d].outs = <<>>
    BY <1>1 DEF Replaced
  <2>2. ins[j] = d
    BY <1>3, <2>1 DEF Normal
  <2>3. Times(ins, d) = 0
    <3>1. Times(ins, d) = Times(g.node[d].outs, i)
      BY <1>1, <2>1 DEF WellMade, Mirrored
    <3> QED  BY <2>1, <3>1, TimesEmpty
  <2>4. ins \in Seq(Ids(g) \cup {Null})
    BY <1>1, GraphLists DEF WellMade
  <2> QED  BY <1>3, <2>2, <2>3, <2>4, TimesType
<1>5. Normal(ins[j]) = Normal(g.node[f.id].ins[j])
  BY <1>1, <1>3, <1>4 DEF Remembered
<1>6. g.node[f.id].ins[j] = ins[j]
  BY <1>5, <1>e DEF Normal, Start
<1> QED  BY <1>1, <1>3, <1>6, <1>e DEF InputsOf

LEMMA GvnVisitKeeps ==
  ASSUME NEW base, NEW s \in Seq(Ids(base.g)), Increasing(s), NEW i \in 1..Len(s),
         NEW x, KeptByGvn(0, base, s, i - 1, x)
  PROVE  KeptByGvn(0, base, s, i, gvn_visit(x, s[i]))
<1>1. /\ Numbering(x) /\ WellMade(x.g) /\ Ids(x.g) = Ids(base.g)
      /\ \A f \in x.seen : Remembered(s, i - 1, x, f)
  BY DEF KeptByGvn
<1>2. PICK m, g, key, same : /\ m = s[i] /\ g = x.g /\ key = gvn_key(g, m)
                             /\ same = {f \in x.seen : f.key = key}
  OBVIOUS
<1>3. m \in Ids(g) /\ \A p \in 1..(i - 1) : s[p] # m /\ p \in 1..i
  <2>1. \A p \in 1..(i - 1) : p \in DOMAIN s /\ p \in 1..i /\ p < i
    OBVIOUS
  <2>2. i \in DOMAIN s
    OBVIOUS
  <2>3. m \in Ids(g)
    BY <1>1, <1>2, <2>2
  <2>4. \A p \in 1..(i - 1) : s[p] \in Int /\ m \in Int /\ s[p] < m
    <3>1. \A d \in Ids(g) : d \in Int
      BY <1>1, <1>2 DEF WellMade, GraphOK
    <3>2. \A p \in DOMAIN s : s[p] \in Ids(g)
      BY <1>1, <1>2
    <3> QED  BY <1>2, <2>1, <2>2, <3>1, <3>2 DEF Increasing
  <2> QED  BY <2>1, <2>3, <2>4
<1>4. \A f \in x.seen : f.id # m
  BY <1>1, <1>3 DEF Remembered
<1>5. i \in 1..i
  OBVIOUS
\* Whoever was replaced still is, if it has no users still.
<1>6. CASE gvn_visit(x, m) = x
  <2>1. Replaced(s, i - 1, x) \subseteq Replaced(s, i, x)
    BY <1>3 DEF Replaced
  <2>2. \A f \in x.seen : Remembered(s, i, x, f)
    BY <1>1, <1>3, <2>1 DEF Remembered
  <2> QED  BY <1>1, <1>2, <1>6, <2>2 DEF KeptByGvn
<1>7. CASE ~(has_side_effects(g.node[m]) \/ is_control(g.node[m])) /\ same = {}
  <2>1. PICK new : new = [key |-> key, id |-> m]
    OBVIOUS
  <2>2. PICK y : y = [g |-> g, seen |-> x.seen \cup {new}, any |-> x.any]
    OBVIOUS
  <2>3. gvn_visit(x, m) = y
    <3>1. gvn_visit(x, m) = [x EXCEPT !.seen = @ \cup {[key |-> key, id |-> m]}]
      BY <1>2, <1>7 DEF gvn_visit
    <3> QED  BY <1>1, <1>2, <2>1, <2>2, <3>1 DEF Numbering
  <2>4. y.g = g /\ y.seen = x.seen \cup {new} /\ Numbering(y)
    BY <2>2 DEF Numbering
  <2>5. Replaced(s, i - 1, x) \subseteq Replaced(s, i, y)
    BY <1>2, <1>3, <2>1, <2>4 DEF Replaced
  <2>6. \A f \in x.seen : Remembered(s, i, y, f)
    BY <1>1, <1>2, <1>3, <2>4, <2>5 DEF Remembered
  <2>7. Remembered(s, i, y, new)
    <3>1. new.id = m /\ new.key[3] = [j \in DOMAIN g.node[m].ins |-> Normal(g.node[m].ins[j])]
      BY <1>2, <2>1 DEF gvn_key, Normal
    <3> QED  BY <1>2, <1>3, <1>5, <2>4, <3>1 DEF Remembered
  <2> QED  BY <1>1, <1>2, <2>3, <2>4, <2>6, <2>7 DEF KeptByGvn
<1>8. CASE ~(has_side_effects(g.node[m]) \/ is_control(g.node[m])) /\ same # {}
  <2>1. PICK first : first = CHOOSE f \in same : TRUE
    OBVIOUS
  <2>2. first \in x.seen /\ first.key = key
    <3>1. first \in same
      BY <1>8, <2>1
    <3> QED  BY <1>2, <3>1
  <2>3. PICK new, h : new = first.id /\ h = replace_node(g, m, new)
    OBVIOUS
  <2>4. /\ new \in Ids(g) /\ new # m /\ new # Null
        /\ \E p \in 1..(i - 1) : new = s[p]
    <3>1. Null \notin Ids(g)
      BY <1>1, <1>2 DEF WellMade, GraphOK, Null
    <3> QED  BY <1>1, <1>2, <1>4, <2>2, <2>3, <3>1 DEF Remembered
  <2>5. m # Start
    BY <1>1, <1>2, <1>8 DEF WellMade, is_control
  <2>6. InputsOf(g, new) \subseteq InputsOf(g, m) \cup {Null, Start}
    BY <1>1, <1>2, <1>3, <2>2, <2>3, SameKeySameInputs
  <2>7. WellMade(h) /\ NodeReplaced(g, h, m, new)
    BY <1>1, <1>2, <1>3, <2>3, <2>4, <2>5, <2>6, ReplacingKeeps
  <2>8. PICK y : y = [g |-> h, seen |-> x.seen, any |-> TRUE]
    OBVIOUS
  <2>9. gvn_visit(x, m) = y
    <3>1. gvn_visit(x, m) = [x EXCEPT !.g = h, !.any = TRUE]
      BY <1>2, <1>8, <2>1, <2>3 DEF gvn_visit
    <3> QED  BY <1>1, <2>8, <3>1 DEF Numbering
  <2>10. y.g = h /\ y.seen = x.seen /\ Numbering(y)
    BY <2>8 DEF Numbering
  <2>11. Ids(h) = Ids(g) /\ \A d \in Ids(g) : /\ h.node[d].ins = Redirected(g.node[d].ins, m, new)
                                              /\ d = m => h.node[d].outs = <<>>
                                              /\ d \notin {m, new} => h.node[d].outs = g.node[d].outs
    BY <2>7 DEF NodeReplaced
  <2>12. Replaced(s, i - 1, x) \cup {m} \subseteq Replaced(s, i, y)
    <3>1. m \in Replaced(s, i, y)
      BY <1>2, <1>3, <1>4, <1>5, <2>5, <2>10, <2>11 DEF Replaced, Start
    <3>2. ASSUME NEW d \in Replaced(s, i - 1, x) PROVE d \in Replaced(s, i, y)
      <4>1. /\ d \in Ids(g) /\ d # 0 /\ g.node[d].outs = <<>>
            /\ \E p \in 1..(i - 1) : d = s[p]
            /\ \A f \in x.seen : f.id # d
        BY <1>2 DEF Replaced
      <4>2. d # new /\ d # m
        BY <1>3, <2>2, <2>3, <4>1
      <4> QED  BY <1>3, <2>10, <2>11, <4>1, <4>2 DEF Replaced
    <3> QED  BY <3>1, <3>2
  <2>13. ASSUME NEW f \in y.seen PROVE Remembered(s, i, y, f)
    <3>1. PICK ins : ins = g.node[f.id].ins
      OBVIOUS
    <3>2. /\ f.id \in Ids(g) /\ \E p \in 1..i : f.id = s[p]
          /\ DOMAIN f.key[3] = DOMAIN ins
          /\ \A j \in DOMAIN ins :
               f.key[3][j] = Normal(ins[j]) \/ f.key[3][j] \in Replaced(s, i - 1, x)
      BY <1>1, <1>2, <1>3, <2>10, <3>1 DEF Remembered
    <3>3. PICK to : to = h.node[f.id].ins
      OBVIOUS
    <3>4. DOMAIN to = DOMAIN ins /\ \A j \in DOMAIN ins : to[j] = IF ins[j] = m THEN new ELSE ins[j]
      <4>1. to = Redirected(ins, m, new)
        BY <2>11, <3>1, <3>2, <3>3
      <4> QED  BY <4>1 DEF Redirected
    <3>5. ASSUME NEW j \in DOMAIN ins
          PROVE  f.key[3][j] = Normal(to[j]) \/ f.key[3][j] \in Replaced(s, i, y)
      <4>1. CASE ins[j] = m
        <5>1. Normal(ins[j]) = m
          <6>1. m # Null
            BY <1>1, <1>2, <1>3 DEF WellMade, GraphOK, Null
          <6> QED  BY <4>1, <6>1 DEF Normal
        <5> QED  BY <2>12, <3>2, <5>1
      <4>2. CASE ins[j] # m
        BY <2>12, <3>2, <3>4, <4>2
      <4> QED  BY <4>1, <4>2
    <3> QED  BY <2>10, <2>11, <3>2, <3>3, <3>4, <3>5 DEF Remembered
  <2> QED  BY <1>1, <1>2, <2>7, <2>9, <2>10, <2>11, <2>13 DEF KeptByGvn
<1>9. CASE has_side_effects(g.node[m]) \/ is_control(g.node[m])
  <2>1. gvn_visit(x, m) = x
    BY <1>2, <1>9 DEF gvn_visit
  <2> QED  BY <1>6, <2>1
<1> QED  BY <1>2, <1>7, <1>8, <1>9

LEMMA GvnKeeps ==
  ASSUME NEW g, WellMade(g)
  PROVE  WellMade(gvn(g).g)
<1>1. PICK s : s = nodes(g)
  OBVIOUS
<1>2. s \in Seq(Ids(g)) /\ Increasing(s) /\ Len(s) \in Nat
  BY <1>1, NodesOrdered DEF WellMade
<1>3. PICK base : base = [g |-> g, seen |-> {}, any |-> FALSE]
  OBVIOUS
<1>4. base.g = g /\ base.seen = {} /\ Numbering(base)
  BY <1>3 DEF Numbering
<1>5. KeptByGvn(0, base, s, 0, base)
  BY <1>4 DEF KeptByGvn
<1>6. \A i \in 1..Len(s) : \A x :
        KeptByGvn(0, base, s, i - 1, x) => KeptByGvn(0, base, s, i, GvnStep(0, x, s[i]))
  <2>1. s \in Seq(Ids(base.g))
    BY <1>2, <1>4
  <2> QED  BY <1>2, <2>1, GvnVisitKeeps DEF GvnStep
<1>7. KeptByGvn(0, base, s, Len(s), Gvn!Folded(0, base, s))
  BY <1>2, <1>5, <1>6, Gvn!FoldKeeps
<1>8. Gvn!Folded(0, base, s).g = gvn(g).g
  BY <1>1, <1>3 DEF Gvn!Folded, gvn, Fold, GvnStep, Done
<1> QED  BY <1>7, <1>8 DEF KeptByGvn

-----------------------------------------------------------------------------
(***************************************************************************)
(* The optimizer                                                           *)
(***************************************************************************)
\* The passes leave a graph well made, also one they crash on.
OptimizerIInv == pass \in 1..7 /\ WellMade(ir)

LEMMA ResultWellMade ==
  ASSUME WellMade(ir), pass \in 1..6
  PROVE  WellMade(Result.g)
<1>1. CASE pass = 1
  BY <1>1, ConstantFoldKeeps DEF Result
<1>2. CASE pass = 2
  BY <1>2, StrengthReduceKeeps DEF Result
<1>3. CASE pass = 3
  BY <1>3, GvnKeeps DEF Result
<1>4. CASE pass = 4
  <2>1. PICK fold : fold = constant_fold(ir)
    OBVIOUS
  <2>2. PICK gv : gv = gvn(fold.g)
    OBVIOUS
  <2>3. WellMade(gv.g)
    BY <2>1, <2>2, ConstantFoldKeeps, GvnKeeps
  <2>4. sccp_round(ir).g = gv.g
    BY <2>1, <2>2 DEF sccp_round
  <2> QED  BY <1>4, <2>3, <2>4 DEF Result
<1>5. CASE pass = 5
  BY <1>5 DEF Result, licm, Done
<1>6. CASE pass = 6
  BY <1>6, DceKeeps DEF Result
<1> QED  BY <1>1, <1>2, <1>3, <1>4, <1>5, <1>6

LEMMA OptimizerStep == OptimizerIInv /\ [RunPasses]_optVars => OptimizerIInv'
<1> SUFFICES ASSUME OptimizerIInv, [RunPasses]_optVars PROVE OptimizerIInv'
  OBVIOUS
<1>1. CASE Optimize
  <2>1. /\ pass \in 1..6 /\ ir' = Result.g
        /\ pass' = pass \/ pass' = pass + 1
    BY <1>1 DEF Optimize, OptimizerIInv
  <2>2. WellMade(Result.g)
    BY <2>1, ResultWellMade DEF OptimizerIInv
  <2> QED  BY <2>1, <2>2 DEF OptimizerIInv
<1>2. CASE Crash
  BY <1>2 DEF Crash, OptimizerIInv
<1>3. CASE Iterate
  BY <1>3 DEF Iterate, OptimizerIInv
<1>4. CASE UNCHANGED optVars
  BY <1>4 DEF optVars, OptimizerIInv
<1> QED  BY <1>1, <1>2, <1>3, <1>4 DEF RunPasses

\* Whatever well made graph the optimizer begins with, after any number of
\* passes its nodes list their users and nobody uses a removed node.
THEOREM PassesKeepGraphClosed ==
  ASSUME NEW g, WellMade(g)
  PROVE  OptimizerSpec(g) => []GraphClosed
<1>1. Optimizing(g) => OptimizerIInv
  BY DEF Optimizing, OptimizerIInv
<1>2. OptimizerIInv => GraphClosed
  BY DEF OptimizerIInv, WellMade, Mirrored, GraphClosed, Closed
<1> QED  BY <1>1, <1>2, OptimizerStep, PTL DEF OptimizerSpec

-----------------------------------------------------------------------------
(***************************************************************************)
(* The builder: whatever it holds, for a register, for the control now or  *)
(* at the end of a block, is a node of the graph or null.                  *)
(***************************************************************************)
LEMMA EndIs ==
  ASSUME NEW code, Len(code) \in Nat, DOMAIN code = 1..Len(code), NEW i \in DOMAIN code
  PROVE  EndOf(code, i) \in DOMAIN code /\ i <= EndOf(code, i)
<1> DEFINE S == {j \in i..Len(code) : code[j].op \in Ends \/ j + 1 \in Leaders(code) \/ j = Len(code)}
           end == Sets!Min(S)
<1>1. S \in SUBSET Nat /\ S \subseteq i..Len(code) /\ Len(code) \in S
  OBVIOUS
<1>2. EndOf(code, i) = IF end = 1 THEN Len(code) ELSE end
  BY DEF EndOf
<1> HIDE DEF S
<1>3. \E j \in S : \A q \in S : j <= q
  BY <1>1, LeastNumber
<1>4. end \in S
  BY <1>3 DEF Sets!Min
<1> HIDE DEF end
<1> QED  BY <1>1, <1>2, <1>4

\* A block is of instructions of the code, and those before it are blocks.
BlockOK(code, blocks, b) ==
  /\ b.start \in DOMAIN code /\ b.end \in DOMAIN code /\ b.start <= b.end
  /\ b.preds \in Seq(DOMAIN blocks)

BlocksOK(code, blocks) ==
  /\ Len(blocks) \in Nat /\ DOMAIN blocks = 1..Len(blocks)
  /\ \A i \in DOMAIN blocks : BlockOK(code, blocks, blocks[i])

LEMMA LeadersAre ==
  ASSUME NEW code, Len(code) \in Nat \ {0}, DOMAIN code = 1..Len(code)
  PROVE  Leaders(code) \subseteq DOMAIN code
<1> SUFFICES ASSUME NEW l \in Leaders(code) PROVE l \in DOMAIN code
  OBVIOUS
<1>1. \/ l = 1
      \/ \E i \in {j \in DOMAIN code : code[j].op \in Jumps} : l \in {code[i].k, i + 1} \cap DOMAIN code
      \/ l \in DOMAIN code
  <2> DEFINE From == {j \in DOMAIN code : code[j].op \in Jumps}
             To(i) == {code[i].k, i + 1} \cap DOMAIN code
             Others == {i \in DOMAIN code : code[i].op \in {"LOOP_HEADER", "LOOP_BACKEDGE"}}
  <2>1. PICK all : all = {To(i) : i \in From}
    OBVIOUS
  <2>2. PICK targets : targets = UNION all
    OBVIOUS
  <2>3. Leaders(code) = {1} \cup targets \cup Others
    BY <2>1, <2>2 DEF Leaders
  <2> HIDE DEF From, To, Others
  <2>4. l = 1 \/ l \in targets \/ l \in Others
    BY <2>3
  <2>5. l \in targets => \E i \in From : l \in To(i)
    BY <2>1, <2>2
  <2> QED  BY <2>4, <2>5 DEF From, To, Others
<1> QED  BY <1>1

LEMMA BlocksAre ==
  ASSUME NEW code, Len(code) \in Nat \ {0}, DOMAIN code = 1..Len(code)
  PROVE  BlocksOK(code, build_cfg(code))
<1>1. PICK starts : starts = InOrder(Leaders(code), [pc \in DOMAIN code |-> pc])
  OBVIOUS
<1>2. [pc \in DOMAIN code |-> pc] \in Seq(Int)
  <2>1. [pc \in DOMAIN code |-> pc] \in [1..Len(code) -> Int]
    OBVIOUS
  <2> QED  BY <2>1, IsASeq
<1>3. starts \in Seq(DOMAIN code)
  BY <1>1, <1>2, InOrderIs, LeadersAre
<1>4. Len(starts) \in Nat /\ DOMAIN starts = 1..Len(starts) /\ \A i \in DOMAIN starts : starts[i] \in DOMAIN code
  BY <1>3
<1>5. PICK blocks : blocks = [i \in DOMAIN starts |-> [no |-> i, start |-> starts[i], end |-> EndOf(code, starts[i])]]
  OBVIOUS
<1>6. DOMAIN blocks = 1..Len(starts)
  BY <1>4, <1>5
<1> DEFINE Before(i) == {j \in DOMAIN blocks : Goes(code, blocks[j], blocks[i])}
           preds(i) == InOrder(Before(i), [j \in DOMAIN blocks |-> j])
           cfg == [i \in DOMAIN blocks |-> [start |-> blocks[i].start, end |-> blocks[i].end, preds |-> preds(i)]]
<1>7. build_cfg(code) = cfg
  BY <1>1, <1>5 DEF build_cfg
<1>8. \A i \in DOMAIN blocks : preds(i) \in Seq(DOMAIN blocks)
  <2>1. [j \in DOMAIN blocks |-> j] \in Seq(Int)
    <3>1. [j \in DOMAIN blocks |-> j] \in [1..Len(starts) -> Int]
      BY <1>6
    <3> QED  BY <1>4, <3>1, IsASeq
  <2> TAKE i \in DOMAIN blocks
  <2>2. PICK B : B = Before(i)
    OBVIOUS
  <2>3. B \subseteq DOMAIN blocks
    BY <2>2
  <2>4. InOrder(B, [j \in DOMAIN blocks |-> j]) \in Seq(B)
    BY <2>1, InOrderIs
  <2> QED  BY <2>2, <2>3, <2>4
<1> HIDE DEF Before, preds
<1>9. Len(cfg) = Len(starts) /\ DOMAIN cfg = 1..Len(starts)
  BY <1>4, <1>6
<1>10. ASSUME NEW i \in DOMAIN cfg PROVE BlockOK(code, cfg, cfg[i])
  <2>1. i \in DOMAIN starts /\ i \in DOMAIN blocks /\ starts[i] \in DOMAIN code
    BY <1>4, <1>6, <1>9, <1>10
  <2>2. blocks[i] = [no |-> i, start |-> starts[i], end |-> EndOf(code, starts[i])]
    BY <1>5, <2>1
  <2>3. cfg[i] = [start |-> blocks[i].start, end |-> blocks[i].end, preds |-> preds(i)]
    BY <2>1
  <2>4. EndOf(code, starts[i]) \in DOMAIN code /\ starts[i] <= EndOf(code, starts[i])
    BY <2>1, EndIs
  <2>5. DOMAIN cfg = DOMAIN blocks
    OBVIOUS
  <2> HIDE DEF cfg
  <2> QED  BY <1>8, <2>1, <2>2, <2>3, <2>4, <2>5 DEF BlockOK
<1> QED  BY <1>4, <1>7, <1>9, <1>10 DEF BlocksOK

Slots(g) == Ids(g) \cup {Null}
Registers(n, g) == [0..(n - 1) -> Slots(g)]

\* A builder as it is between instructions, with the graph g.
IsBuilder(s) ==
  s = [code |-> s.code, nregs |-> s.nregs, blocks |-> s.blocks, no |-> s.no, g |-> s.g,
       ctl |-> s.ctl, at |-> s.at, entry |-> s.entry, state |-> s.state]

For(code, nregs, s) ==
  /\ s.code = code /\ s.nregs = nregs /\ s.blocks = build_cfg(code)
  /\ s.no \in DOMAIN s.blocks

\* Whatever the builder holds is a node of the graph or null.
Holds(s, g) ==
  /\ s.ctl \in Ids(g)
  /\ s.at \in [DOMAIN s.code -> Slots(g)]
  /\ s.entry \in [DOMAIN s.blocks -> Registers(s.nregs, g)]
  /\ s.state \in Registers(s.nregs, g)

BuilderOK(code, nregs, s) == IsBuilder(s) /\ For(code, nregs, s) /\ WellMade(s.g) /\ Holds(s, s.g)

\* h has the nodes of g, and more.
LEMMA HoldsStill ==
  ASSUME NEW s, NEW g, NEW h, Ids(g) \subseteq Ids(h), Holds(s, g)
  PROVE  Holds(s, h)
<1>1. Slots(g) \subseteq Slots(h)
  BY DEF Slots
<1>2. PICK n : n = s.nregs
  OBVIOUS
<1>3. Registers(n, g) \subseteq Registers(n, h)
  BY <1>1 DEF Registers
<1> QED  BY <1>1, <1>2, <1>3 DEF Holds

LEMMA NewNodeHolds ==
  ASSUME NEW code, NEW nregs, NEW s, BuilderOK(code, nregs, s),
         NEW kind, NEW inputs \in Seq(Slots(s.g)), NEW k, NEW const,
         NEW h, h = NewNode(s.g, kind, inputs, k, const)
  PROVE  /\ WellMade(h) /\ Holds(s, h) /\ s.g.next \in Ids(h) /\ Ids(s.g) \subseteq Ids(h)
<1>1. inputs \in Seq(Ids(s.g) \cup {Null})
  BY DEF Slots
<1>2. WellMade(s.g) /\ Holds(s, s.g)
  BY DEF BuilderOK
<1>3. PICK g : g = s.g
  OBVIOUS
<1>4. WellMade(h) /\ NodeAdded(g, h, kind, inputs, k, const)
  BY <1>1, <1>2, <1>3, AddingKeeps
<1>5. Ids(g) \subseteq Ids(h) /\ g.next \in Ids(h)
  BY <1>4 DEF NodeAdded
<1> QED  BY <1>2, <1>3, <1>4, <1>5, HoldsStill

\* What holds of it is all there is to show of the next builder.
LEMMA Becomes ==
  ASSUME NEW code, NEW nregs, NEW s, BuilderOK(code, nregs, s), NEW no \in DOMAIN s.blocks,
         NEW h, WellMade(h), NEW ctl \in Ids(h), NEW at \in [DOMAIN code -> Slots(h)],
         NEW entry \in [DOMAIN s.blocks -> Registers(nregs, h)], NEW state \in Registers(nregs, h),
         NEW t, t = [code |-> s.code, nregs |-> s.nregs, blocks |-> s.blocks, no |-> no, g |-> h,
                     ctl |-> ctl, at |-> at, entry |-> entry, state |-> state]
  PROVE  BuilderOK(code, nregs, t)
<1>1. For(code, nregs, s)
  BY DEF BuilderOK
<1>2. IsBuilder(t) /\ For(code, nregs, t)
  BY <1>1 DEF IsBuilder, For
<1>3. Holds(t, h)
  <2>1. /\ t.ctl = ctl /\ t.code = code /\ t.at = at /\ t.blocks = s.blocks
        /\ t.entry = entry /\ t.nregs = nregs /\ t.state = state
    BY <1>1 DEF For
  <2> QED  BY <2>1 DEF Holds
<1> QED  BY <1>2, <1>3 DEF BuilderOK

\* What the builder holds, with its types.
LEMMA HeldAre ==
  ASSUME NEW code, NEW nregs, NEW s, BuilderOK(code, nregs, s), NEW h, Holds(s, h)
  PROVE  /\ s.no \in DOMAIN s.blocks /\ s.ctl \in Ids(h)
         /\ s.at \in [DOMAIN code -> Slots(h)]
         /\ s.entry \in [DOMAIN s.blocks -> Registers(nregs, h)]
         /\ s.state \in Registers(nregs, h)
BY DEF BuilderOK, For, Holds

\* The graph grows and ctl becomes a node of it.
LEMMA Going ==
  ASSUME NEW code, NEW nregs, NEW s, BuilderOK(code, nregs, s),
         NEW h, WellMade(h), Holds(s, h), NEW ctl \in Ids(h),
         NEW t, t = [s EXCEPT !.g = h, !.ctl = ctl]
  PROVE  BuilderOK(code, nregs, t)
<1>1. t = [code |-> s.code, nregs |-> s.nregs, blocks |-> s.blocks, no |-> s.no, g |-> h,
           ctl |-> ctl, at |-> s.at, entry |-> s.entry, state |-> s.state]
  BY DEF BuilderOK, IsBuilder
<1>2. IsBuilder(t)
  BY <1>1 DEF IsBuilder
<1>3. /\ t.code = s.code /\ t.nregs = s.nregs /\ t.blocks = s.blocks /\ t.no = s.no /\ t.g = h
      /\ t.ctl = ctl /\ t.at = s.at /\ t.entry = s.entry /\ t.state = s.state
  BY <1>1
<1>4. For(code, nregs, t)
  BY <1>3 DEF BuilderOK, For
<1>5. Holds(t, h)
  BY <1>3 DEF Holds
<1> QED  BY <1>2, <1>3, <1>4, <1>5 DEF BuilderOK

\* The graph grows and a register gets a node of it, or null.
LEMMA Setting ==
  ASSUME NEW code, NEW nregs \in Nat, NEW s, BuilderOK(code, nregs, s),
         NEW h, WellMade(h), Holds(s, h), NEW r \in 0..(nregs - 1), NEW n \in Slots(h),
         NEW state, state = [s.state EXCEPT ![r] = n],
         NEW t, t = [s EXCEPT !.g = h, !.state = state]
  PROVE  BuilderOK(code, nregs, t)
<1>1. t = [code |-> s.code, nregs |-> s.nregs, blocks |-> s.blocks, no |-> s.no, g |-> h,
           ctl |-> s.ctl, at |-> s.at, entry |-> s.entry, state |-> state]
  BY DEF BuilderOK, IsBuilder
<1>2. state \in Registers(nregs, h)
  BY HeldAre DEF Registers
<1>3. /\ s.no \in DOMAIN s.blocks /\ s.ctl \in Ids(h) /\ s.at \in [DOMAIN code -> Slots(h)]
      /\ s.entry \in [DOMAIN s.blocks -> Registers(nregs, h)]
  BY HeldAre
<1> QED  BY <1>1, <1>2, <1>3, Becomes

LEMMA DefineKeeps ==
  ASSUME NEW code, NEW nregs \in Nat, NEW s, BuilderOK(code, nregs, s),
         NEW in, in.rdest \in 0..(nregs - 1),
         NEW kind, NEW inputs \in Seq(Slots(s.g)), NEW k, NEW const
  PROVE  BuilderOK(code, nregs, Define(s, in, kind, inputs, k, const))
<1>1. PICK h : h = NewNode(s.g, kind, inputs, k, const)
  OBVIOUS
<1>2. PICK n, r : n = s.g.next /\ r = in.rdest
  OBVIOUS
<1>3. WellMade(h) /\ Holds(s, h) /\ n \in Slots(h)
  BY <1>1, <1>2, NewNodeHolds DEF Slots
<1>4. PICK state : state = [s.state EXCEPT ![in.rdest] = s.g.next]
  OBVIOUS
<1>5. Define(s, in, kind, inputs, k, const) = [s EXCEPT !.g = h, !.state = state]
  BY <1>1, <1>4 DEF Define
<1>6. state = [s.state EXCEPT ![r] = n]
  BY <1>2, <1>4
<1>7. r \in 0..(nregs - 1)
  BY <1>2
<1>8. PICK t : t = [s EXCEPT !.g = h, !.state = state]
  OBVIOUS
<1>9. BuilderOK(code, nregs, t)
  BY <1>3, <1>6, <1>7, <1>8, Setting
<1> QED  BY <1>5, <1>8, <1>9

LEMMA ActKeeps ==
  ASSUME NEW code, NEW nregs, NEW s, BuilderOK(code, nregs, s),
         NEW kind, NEW inputs \in Seq(Slots(s.g)), NEW k
  PROVE  BuilderOK(code, nregs, Act(s, kind, inputs, k))
<1>1. PICK all, n : all = <<s.ctl>> \o inputs /\ n = s.g.next
  OBVIOUS
<1>2. all \in Seq(Slots(s.g))
  BY <1>1, HeldAre DEF BuilderOK, Slots
<1>3. PICK zero : zero = 0
  OBVIOUS
<1>4. PICK h : h = NewNode(s.g, kind, all, k, zero)
  OBVIOUS
<1>5. WellMade(h) /\ Holds(s, h) /\ n \in Ids(h)
  BY <1>1, <1>2, <1>4, NewNodeHolds
<1>6. Act(s, kind, inputs, k) = [s EXCEPT !.g = h, !.ctl = n]
  BY <1>1, <1>3, <1>4 DEF Act
<1> QED  BY <1>5, <1>6, Going

\* Only the graph grows.
LEMMA Growing ==
  ASSUME NEW code, NEW nregs, NEW s, BuilderOK(code, nregs, s),
         NEW h, WellMade(h), Holds(s, h), NEW t, t = [s EXCEPT !.g = h]
  PROVE  BuilderOK(code, nregs, t)
<1>1. t = [code |-> s.code, nregs |-> s.nregs, blocks |-> s.blocks, no |-> s.no, g |-> h,
           ctl |-> s.ctl, at |-> s.at, entry |-> s.entry, state |-> s.state]
  BY DEF BuilderOK, IsBuilder
<1>2. /\ s.no \in DOMAIN s.blocks /\ s.ctl \in Ids(h) /\ s.at \in [DOMAIN code -> Slots(h)]
      /\ s.entry \in [DOMAIN s.blocks -> Registers(nregs, h)] /\ s.state \in Registers(nregs, h)
  BY HeldAre
<1> QED  BY <1>1, <1>2, Becomes

LEMMA MakingHolds ==
  ASSUME NEW code, NEW nregs, NEW s, BuilderOK(code, nregs, s),
         NEW kind, NEW inputs \in Seq(Slots(s.g)),
         NEW h, h = new_node(s.g, kind, inputs)
  PROVE  /\ WellMade(h) /\ Holds(s, h) /\ s.g.next \in Ids(h) /\ Ids(s.g) \subseteq Ids(h)
<1>1. PICK zero, none : zero = 0 /\ none = "0"
  OBVIOUS
<1>2. h = NewNode(s.g, kind, inputs, none, zero)
  BY <1>1 DEF new_node
<1> QED  BY <1>2, NewNodeHolds

\* A register gets a node there is, or null.
LEMMA MoveKeeps ==
  ASSUME NEW code, NEW nregs \in Nat, NEW s, BuilderOK(code, nregs, s),
         NEW in, in.rdest \in 0..(nregs - 1), NEW n \in Slots(s.g)
  PROVE  BuilderOK(code, nregs, Move(s, in, n)) /\ Move(s, in, n).g = s.g
<1>1. PICK state : state = [s.state EXCEPT ![in.rdest] = n]
  OBVIOUS
<1>2. Move(s, in, n) = [s EXCEPT !.state = state]
  BY <1>1 DEF Move
<1>3. PICK t : t = [s EXCEPT !.state = state]
  OBVIOUS
<1>4. IsBuilder(s) /\ WellMade(s.g) /\ Holds(s, s.g)
  BY DEF BuilderOK
<1>5. t = [code |-> s.code, nregs |-> s.nregs, blocks |-> s.blocks, no |-> s.no, g |-> s.g,
           ctl |-> s.ctl, at |-> s.at, entry |-> s.entry, state |-> state]
  BY <1>3, <1>4 DEF IsBuilder
<1>6. /\ s.no \in DOMAIN s.blocks /\ s.ctl \in Ids(s.g) /\ s.at \in [DOMAIN code -> Slots(s.g)]
      /\ s.entry \in [DOMAIN s.blocks -> Registers(nregs, s.g)] /\ s.state \in Registers(nregs, s.g)
  BY <1>4, HeldAre
<1>7. state \in Registers(nregs, s.g)
  BY <1>1, <1>6 DEF Registers
<1>8. BuilderOK(code, nregs, t)
  BY <1>4, <1>5, <1>6, <1>7, Becomes
<1> QED  BY <1>2, <1>3, <1>5, <1>8

\* The control at an instruction is a node there is.
LEMMA ControlKeeps ==
  ASSUME NEW code, NEW nregs, NEW s, BuilderOK(code, nregs, s),
         NEW pc, NEW n \in Slots(s.g),
         NEW at, at = [s.at EXCEPT ![pc] = n], NEW t, t = [s EXCEPT !.at = at]
  PROVE  BuilderOK(code, nregs, t)
<1>1. IsBuilder(s) /\ WellMade(s.g) /\ Holds(s, s.g)
  BY DEF BuilderOK
<1>2. t = [code |-> s.code, nregs |-> s.nregs, blocks |-> s.blocks, no |-> s.no, g |-> s.g,
           ctl |-> s.ctl, at |-> at, entry |-> s.entry, state |-> s.state]
  BY <1>1 DEF IsBuilder
<1>3. /\ s.no \in DOMAIN s.blocks /\ s.ctl \in Ids(s.g) /\ s.at \in [DOMAIN code -> Slots(s.g)]
      /\ s.entry \in [DOMAIN s.blocks -> Registers(nregs, s.g)] /\ s.state \in Registers(nregs, s.g)
  BY <1>1, HeldAre
<1>4. at \in [DOMAIN code -> Slots(s.g)]
  BY <1>3
<1> QED  BY <1>1, <1>2, <1>3, <1>4, Becomes

LEMMA WithEnvKeeps ==
  ASSUME NEW code, NEW nregs, NEW s, BuilderOK(code, nregs, s)
  PROVE  /\ BuilderOK(code, nregs, WithEnv(s)) /\ WithEnv(s).ctl = s.ctl /\ WithEnv(s).state = s.state
         /\ Slots(s.g) \cup {s.g.next} \subseteq Slots(WithEnv(s).g)
<1>1. PICK inputs, kind : inputs = <<s.ctl>> /\ kind = "LoadEnv"
  OBVIOUS
<1>2. PICK h : h = new_node(s.g, kind, inputs)
  OBVIOUS
<1>3. inputs \in Seq(Slots(s.g))
  BY <1>1, HeldAre DEF BuilderOK, Slots
<1>4. WellMade(h) /\ Holds(s, h) /\ s.g.next \in Ids(h) /\ Ids(s.g) \subseteq Ids(h)
  BY <1>2, <1>3, MakingHolds
<1>5. PICK t : t = [s EXCEPT !.g = h]
  OBVIOUS
<1>6. WithEnv(s) = t
  BY <1>1, <1>2, <1>5 DEF WithEnv
<1>7. BuilderOK(code, nregs, t)
  BY <1>4, <1>5, Growing
<1>8. t.g = h /\ t.ctl = s.ctl /\ t.state = s.state
  BY <1>5 DEF BuilderOK, IsBuilder
<1> QED  BY <1>4, <1>6, <1>7, <1>8 DEF Slots

LEMMA ActIs ==
  ASSUME NEW code, NEW nregs, NEW s, BuilderOK(code, nregs, s),
         NEW kind, NEW inputs \in Seq(Slots(s.g)), NEW k,
         NEW t, t = Act(s, kind, inputs, k)
  PROVE  BuilderOK(code, nregs, t) /\ t.ctl \in Ids(t.g)
<1>1. BuilderOK(code, nregs, t)
  BY ActKeeps
<1> QED  BY <1>1 DEF BuilderOK, Holds

LEMMA StateIs ==
  ASSUME NEW code, NEW nregs, NEW s, BuilderOK(code, nregs, s), NEW r \in 0..(nregs - 1)
  PROVE  s.state[r] \in Slots(s.g)
<1>1. s.state \in Registers(nregs, s.g)
  BY HeldAre DEF BuilderOK
<1> QED  BY <1>1 DEF Registers

LEMMA BranchKeeps ==
  ASSUME NEW code, NEW nregs, NEW s, BuilderOK(code, nregs, s),
         NEW in, in.ra \in 0..(nregs - 1), NEW pc
  PROVE  BuilderOK(code, nregs, Branch(s, in, pc))
<1>1. PICK a, kind, none : a = <<s.state[in.ra]>> /\ kind = "If" /\ none = "0"
  OBVIOUS
<1>2. PICK i : i = Act(s, kind, a, none)
  OBVIOUS
<1>3. a \in Seq(Slots(s.g))
  BY <1>1, StateIs
<1>4. BuilderOK(code, nregs, i) /\ i.ctl \in Ids(i.g)
  BY <1>2, <1>3, ActIs
<1>5. PICK false, true, ctl : false = "IfFalse" /\ true = "IfTrue" /\ ctl = <<i.ctl>>
  OBVIOUS
<1>6. PICK g : g = new_node(i.g, false, ctl)
  OBVIOUS
<1>7. ctl \in Seq(Slots(i.g))
  BY <1>4, <1>5 DEF Slots
<1>8. WellMade(g) /\ Holds(i, g) /\ Ids(i.g) \subseteq Ids(g)
  BY <1>4, <1>6, <1>7, MakingHolds
<1>9. PICK f : f = [i EXCEPT !.g = g]
  OBVIOUS
<1>10. BuilderOK(code, nregs, f)
  BY <1>4, <1>8, <1>9, Growing
<1>11. f.g = g
  BY <1>4, <1>9 DEF BuilderOK, IsBuilder
<1>12. ctl \in Seq(Slots(f.g))
  BY <1>4, <1>5, <1>8, <1>11 DEF Slots
<1>13. PICK h : h = new_node(f.g, true, ctl)
  OBVIOUS
<1>14. WellMade(h) /\ Holds(f, h) /\ f.g.next \in Ids(h)
  BY <1>10, <1>12, <1>13, MakingHolds
<1>15. PICK n : n = f.g.next
  OBVIOUS
<1>16. PICK t : t = [f EXCEPT !.g = h, !.ctl = n]
  OBVIOUS
<1>17. BuilderOK(code, nregs, t)
  BY <1>10, <1>14, <1>15, <1>16, Going
<1>18. t.ctl \in Slots(t.g)
  BY <1>17, HeldAre DEF BuilderOK, Slots
<1>19. PICK at : at = [t.at EXCEPT ![pc] = t.ctl]
  OBVIOUS
<1>20. PICK u : u = [t EXCEPT !.at = at]
  OBVIOUS
<1>21. BuilderOK(code, nregs, u)
  BY <1>17, <1>18, <1>19, <1>20, ControlKeeps
<1>22. Branch(s, in, pc) = u
  BY <1>1, <1>2, <1>5, <1>6, <1>9, <1>13, <1>15, <1>16, <1>19, <1>20 DEF Branch
<1> QED  BY <1>21, <1>22

LEMMA CallingKeeps ==
  ASSUME NEW code, NEW nregs \in Nat, NEW s, BuilderOK(code, nregs, s),
         NEW in, in.ra \in 0..(nregs - 1), in.rdest \in 0..(nregs - 1),
         in.k \in Nat, in.ra + in.k < nregs
  PROVE  BuilderOK(code, nregs, Calling(s, in))
<1>1. PICK inputs, kind, k : /\ inputs = [i \in 1..(in.k + 1) |-> s.state[in.ra + i - 1]]
                             /\ kind = "Call" /\ k = ToString(in.k)
  OBVIOUS
<1>2. PICK call : call = Act(s, kind, inputs, k)
  OBVIOUS
<1>3. inputs \in Seq(Slots(s.g))
  <2>1. \A i \in 1..(in.k + 1) : in.ra + i - 1 \in 0..(nregs - 1)
    OBVIOUS
  <2>2. inputs \in [1..(in.k + 1) -> Slots(s.g)]
    BY <1>1, <2>1, StateIs
  <2>3. in.k + 1 \in Nat
    OBVIOUS
  <2> QED  BY <2>2, <2>3, IsASeq
<1>4. BuilderOK(code, nregs, call) /\ call.ctl \in Slots(call.g)
  BY <1>2, <1>3, ActIs DEF Slots
<1>5. Calling(s, in) = Move(call, in, call.ctl)
  BY <1>1, <1>2 DEF Calling
<1> QED  BY <1>4, <1>5, MoveKeeps

LEMMA ReturnNilKeeps ==
  ASSUME NEW code, NEW nregs, NEW s, BuilderOK(code, nregs, s)
  PROVE  BuilderOK(code, nregs, ReturnNil(s))
<1>1. PICK ctl, kind, ret, none, nil : /\ ctl = <<s.ctl>> /\ kind = "ConstNil" /\ ret = "Return"
                                       /\ none = "0" /\ nil = <<s.g.next>>
  OBVIOUS
<1>2. PICK h : h = new_node(s.g, kind, ctl)
  OBVIOUS
<1>3. ctl \in Seq(Slots(s.g))
  BY <1>1, HeldAre DEF BuilderOK, Slots
<1>4. WellMade(h) /\ Holds(s, h) /\ s.g.next \in Ids(h)
  BY <1>2, <1>3, MakingHolds
<1>5. PICK t : t = [s EXCEPT !.g = h]
  OBVIOUS
<1>6. BuilderOK(code, nregs, t)
  BY <1>4, <1>5, Growing
<1>7. t.g = h
  BY <1>5 DEF BuilderOK, IsBuilder
<1>8. nil \in Seq(Slots(t.g))
  BY <1>1, <1>4, <1>7 DEF Slots
<1>9. BuilderOK(code, nregs, Act(t, ret, nil, none))
  BY <1>6, <1>8, ActKeeps
<1>10. ReturnNil(s) = Act(t, ret, nil, none)
  BY <1>1, <1>2, <1>5 DEF ReturnNil
<1> QED  BY <1>9, <1>10

\* Whatever the instruction, every node it adds has nodes of the graph, or null,
\* for inputs.
LEMMA TranslateKeeps ==
  ASSUME NEW code, NEW nregs, InFrame(code, nregs), NEW s, BuilderOK(code, nregs, s),
         NEW pc \in DOMAIN code
  PROVE  BuilderOK(code, nregs, translate(s, pc))
<1>1. PICK in : in = code[pc]
  OBVIOUS
<1>2. /\ nregs \in Nat \ {0} /\ 0 \in 0..(nregs - 1)
      /\ in.rdest \in 0..(nregs - 1) /\ in.ra \in 0..(nregs - 1) /\ in.rb \in 0..(nregs - 1)
      /\ in.op = "CALL" => in.k \in Nat /\ in.ra + in.k < nregs
  BY <1>1 DEF InFrame
<1>3. PICK a, b : a = s.state[in.ra] /\ b = s.state[in.rb]
  OBVIOUS
<1>4. /\ s.ctl \in Slots(s.g) /\ a \in Slots(s.g) /\ b \in Slots(s.g) /\ s.state[0] \in Slots(s.g)
  BY <1>2, <1>3, StateIs, HeldAre DEF BuilderOK, Slots
<1>5. /\ <<>> \in Seq(Slots(s.g)) /\ <<a>> \in Seq(Slots(s.g))
      /\ <<s.ctl>> \in Seq(Slots(s.g)) /\ <<s.ctl, a>> \in Seq(Slots(s.g))
      /\ <<s.ctl, a, b>> \in Seq(Slots(s.g)) /\ <<s.ctl, s.state[0]>> \in Seq(Slots(s.g))
  BY <1>4
<1>6. s.code[pc] = in
  BY <1>1 DEF BuilderOK, For
<1>7. \A inputs \in Seq(Slots(s.g)) : \A kind, k, const :
        BuilderOK(code, nregs, Define(s, in, kind, inputs, k, const))
  BY <1>2, DefineKeeps
<1>8. \A inputs \in Seq(Slots(s.g)) : \A kind, k : BuilderOK(code, nregs, Act(s, kind, inputs, k))
  BY ActKeeps
<1>9. PICK env : env = WithEnv(s)
  OBVIOUS
<1>10. /\ BuilderOK(code, nregs, env) /\ env.ctl = s.ctl
       /\ Slots(s.g) \cup {s.g.next} \subseteq Slots(env.g)
  BY <1>9, WithEnvKeeps
<1>11. <<s.ctl, s.g.next>> \in Seq(Slots(env.g)) /\ <<s.g.next, a>> \in Seq(Slots(env.g))
  BY <1>4, <1>10
<1>12. \A k, kind, zero : BuilderOK(code, nregs, Define(env, in, kind, <<s.ctl, s.g.next>>, k, zero))
  BY <1>2, <1>10, <1>11, DefineKeeps
<1>13. \A k, kind : BuilderOK(code, nregs, Act(env, kind, <<s.g.next, a>>, k))
  BY <1>10, <1>11, ActKeeps
<1>14. BuilderOK(code, nregs, Move(s, in, a))
  BY <1>2, <1>4, MoveKeeps
<1>15. BuilderOK(code, nregs, Branch(s, in, pc))
  BY <1>2, BranchKeeps
<1>16. in.op = "CALL" => BuilderOK(code, nregs, Calling(s, in))
  BY <1>2, CallingKeeps
<1>17. BuilderOK(code, nregs, ReturnNil(s))
  BY ReturnNilKeeps
<1>18. BuilderOK(code, nregs, [s EXCEPT !.g = new_node(s.g, "Return", <<s.ctl, s.state[0]>>)])
  <2>1. PICK h, t, kind : /\ h = new_node(s.g, kind, <<s.ctl, s.state[0]>>)
                          /\ t = [s EXCEPT !.g = h] /\ kind = "Return"
    OBVIOUS
  <2>2. WellMade(h) /\ Holds(s, h)
    BY <1>5, <2>1, MakingHolds
  <2>3. BuilderOK(code, nregs, t)
    BY <2>1, <2>2, Growing
  <2> QED  BY <2>1, <2>3
<1> QED  BY <1>3, <1>5, <1>6, <1>7, <1>8, <1>9, <1>12, <1>13, <1>14, <1>15, <1>16, <1>17, <1>18 DEF translate

LEMMA BlockIs ==
  ASSUME NEW code, NEW nregs, InFrame(code, nregs), NEW s, BuilderOK(code, nregs, s), NEW i \in DOMAIN s.blocks
  PROVE  BlockOK(code, s.blocks, s.blocks[i])
<1>1. BlocksOK(code, build_cfg(code))
  BY BlocksAre DEF InFrame
<1> QED  BY <1>1 DEF BuilderOK, For, BlocksOK

\* The blocks before the current one are blocks, and so is where they end.
LEMMA PredsAre ==
  ASSUME NEW code, NEW nregs, InFrame(code, nregs), NEW s, BuilderOK(code, nregs, s)
  PROVE  /\ Preds(s) \in Seq(DOMAIN s.blocks)
         /\ Len(Preds(s)) \in Nat /\ DOMAIN Preds(s) = 1..Len(Preds(s))
         /\ \A j \in DOMAIN Preds(s) : Preds(s)[j] \in DOMAIN s.blocks
         /\ \A p \in DOMAIN s.blocks : Exit(s, p) \in Slots(s.g)
         /\ s.blocks[s.no].start \in DOMAIN code /\ s.blocks[s.no].end \in DOMAIN code
<1>1. s.no \in DOMAIN s.blocks
  BY DEF BuilderOK, For
<1>2. Preds(s) \in Seq(DOMAIN s.blocks)
  BY <1>1, BlockIs DEF BlockOK, Preds
<1>3. s.at \in [DOMAIN code -> Slots(s.g)]
  BY HeldAre DEF BuilderOK
<1>4. \A p \in DOMAIN s.blocks : Exit(s, p) \in Slots(s.g)
  BY <1>3, BlockIs DEF BlockOK, Exit
<1>5. s.blocks[s.no].start \in DOMAIN code /\ s.blocks[s.no].end \in DOMAIN code
  BY <1>1, BlockIs DEF BlockOK
<1> QED  BY <1>2, <1>4, <1>5

LEMMA RegionKeeps ==
  ASSUME NEW code, NEW nregs, InFrame(code, nregs), NEW s, BuilderOK(code, nregs, s)
  PROVE  BuilderOK(code, nregs, Region(s))
<1>1. PICK inputs, kind, n : /\ inputs = [j \in DOMAIN Preds(s) |-> Exit(s, Preds(s)[j])]
                             /\ kind = "Region" /\ n = s.g.next
  OBVIOUS
<1>2. inputs \in Seq(Slots(s.g))
  <2>1. inputs \in [1..Len(Preds(s)) -> Slots(s.g)]
    BY <1>1, PredsAre
  <2> QED  BY <2>1, PredsAre, IsASeq
<1>3. PICK h : h = new_node(s.g, kind, inputs)
  OBVIOUS
<1>4. WellMade(h) /\ Holds(s, h) /\ n \in Ids(h)
  BY <1>1, <1>2, <1>3, MakingHolds
<1>5. PICK at : at = [s.at EXCEPT ![s.blocks[s.no].start] = n]
  OBVIOUS
<1>6. PICK t : t = [s EXCEPT !.g = h, !.ctl = n, !.at = at]
  OBVIOUS
<1>7. Region(s) = t
  BY <1>1, <1>3, <1>5, <1>6 DEF Region
<1>8. t = [code |-> s.code, nregs |-> s.nregs, blocks |-> s.blocks, no |-> s.no, g |-> h,
           ctl |-> n, at |-> at, entry |-> s.entry, state |-> s.state]
  BY <1>6 DEF BuilderOK, IsBuilder
<1>9. /\ s.no \in DOMAIN s.blocks /\ s.at \in [DOMAIN code -> Slots(h)]
      /\ s.entry \in [DOMAIN s.blocks -> Registers(nregs, h)] /\ s.state \in Registers(nregs, h)
  BY <1>4, HeldAre
<1>10. at \in [DOMAIN code -> Slots(h)]
  BY <1>4, <1>5, <1>9 DEF Slots
<1>11. BuilderOK(code, nregs, t)
  BY <1>4, <1>8, <1>9, <1>10, Becomes
<1> QED  BY <1>7, <1>11

LEMMA PhiKeeps ==
  ASSUME NEW code, NEW nregs, InFrame(code, nregs), NEW s, BuilderOK(code, nregs, s), NEW r \in 0..(nregs - 1)
  PROVE  BuilderOK(code, nregs, Phi(s, r))
<1>1. PICK held, inputs, kind, n : /\ held = [j \in DOMAIN Preds(s) |-> s.entry[Preds(s)[j]][r]]
                                   /\ inputs = <<s.ctl>> \o held
                                   /\ kind = "Phi" /\ n = s.g.next
  OBVIOUS
<1>2. inputs \in Seq(Slots(s.g))
  <2>1. s.entry \in [DOMAIN s.blocks -> Registers(nregs, s.g)] /\ s.ctl \in Slots(s.g)
    BY HeldAre DEF BuilderOK, Slots
  <2>2. \A p \in DOMAIN s.blocks : s.entry[p][r] \in Slots(s.g)
    BY <2>1 DEF Registers
  <2>3. held \in [1..Len(Preds(s)) -> Slots(s.g)]
    BY <1>1, <2>2, PredsAre
  <2>4. held \in Seq(Slots(s.g)) /\ <<s.ctl>> \in Seq(Slots(s.g))
    BY <2>1, <2>3, PredsAre, IsASeq
  <2> QED  BY <1>1, <2>4
<1>3. PICK h : h = new_node(s.g, kind, inputs)
  OBVIOUS
<1>4. WellMade(h) /\ Holds(s, h) /\ n \in Ids(h)
  BY <1>1, <1>2, <1>3, MakingHolds
<1>5. PICK registers : registers = [s.entry[s.no] EXCEPT ![r] = n]
  OBVIOUS
<1>6. PICK entry : entry = [s.entry EXCEPT ![s.no] = registers]
  OBVIOUS
<1>7. PICK t : t = [s EXCEPT !.g = h, !.entry = entry]
  OBVIOUS
<1>8. Phi(s, r) = t
  <2>1. new_node(s.g, "Phi", <<s.ctl>> \o [j \in DOMAIN Preds(s) |-> s.entry[Preds(s)[j]][r]]) = h
    BY <1>1, <1>3
  <2>2. [s.entry EXCEPT ![s.no] = [s.entry[s.no] EXCEPT ![r] = s.g.next]] = entry
    BY <1>1, <1>5, <1>6
  <2> QED  BY <1>7, <2>1, <2>2 DEF Phi
<1>9. t = [code |-> s.code, nregs |-> s.nregs, blocks |-> s.blocks, no |-> s.no, g |-> h,
           ctl |-> s.ctl, at |-> s.at, entry |-> entry, state |-> s.state]
  BY <1>7 DEF BuilderOK, IsBuilder
<1>10. /\ s.no \in DOMAIN s.blocks /\ s.at \in [DOMAIN code -> Slots(h)] /\ s.ctl \in Ids(h)
       /\ s.entry \in [DOMAIN s.blocks -> Registers(nregs, h)] /\ s.state \in Registers(nregs, h)
  BY <1>4, HeldAre
<1>11. registers \in Registers(nregs, h)
  BY <1>4, <1>5, <1>10 DEF Registers, Slots
<1>12. entry \in [DOMAIN s.blocks -> Registers(nregs, h)]
  BY <1>6, <1>10, <1>11
<1>13. BuilderOK(code, nregs, t)
  BY <1>4, <1>9, <1>10, <1>12, Becomes
<1> QED  BY <1>8, <1>13

KeptBuilding(c, base, s, i, x) == BuilderOK(c[1], c[2], x)

PhiStep(c, x, r)       == Phi(x, r)
TranslateStep(c, x, pc) == translate(x, pc)

Phis    == INSTANCE FoldInduction WITH Visit <- PhiStep, Kept <- KeptBuilding
Instrs  == INSTANCE FoldInduction WITH Visit <- TranslateStep, Kept <- KeptBuilding

LEMMA InheritKeeps ==
  ASSUME NEW code, NEW nregs, InFrame(code, nregs), NEW s, BuilderOK(code, nregs, s), Len(Preds(s)) = 1
  PROVE  BuilderOK(code, nregs, Inherit(s))
<1>1. PICK p : p = Preds(s)[1]
  OBVIOUS
<1>2. p \in DOMAIN s.blocks /\ Exit(s, p) \in Slots(s.g)
  BY <1>1, PredsAre
<1>3. PICK ctl : ctl = IF Exit(s, p) = Null THEN Start ELSE Exit(s, p)
  OBVIOUS
<1>4. WellMade(s.g) /\ Holds(s, s.g)
  BY DEF BuilderOK
<1>5. ctl \in Ids(s.g)
  BY <1>2, <1>3, <1>4 DEF WellMade, Slots
<1>6. PICK entry : entry = [s.entry EXCEPT ![s.no] = s.entry[p]]
  OBVIOUS
<1>7. PICK t : t = [s EXCEPT !.entry = entry, !.ctl = ctl]
  OBVIOUS
<1>8. Inherit(s) = t
  BY <1>1, <1>3, <1>6, <1>7 DEF Inherit
<1>9. t = [code |-> s.code, nregs |-> s.nregs, blocks |-> s.blocks, no |-> s.no, g |-> s.g,
           ctl |-> ctl, at |-> s.at, entry |-> entry, state |-> s.state]
  BY <1>7 DEF BuilderOK, IsBuilder
<1>10. /\ s.no \in DOMAIN s.blocks /\ s.at \in [DOMAIN code -> Slots(s.g)]
       /\ s.entry \in [DOMAIN s.blocks -> Registers(nregs, s.g)] /\ s.state \in Registers(nregs, s.g)
  BY <1>4, HeldAre
<1>11. entry \in [DOMAIN s.blocks -> Registers(nregs, s.g)]
  BY <1>2, <1>6, <1>10
<1>12. BuilderOK(code, nregs, t)
  BY <1>4, <1>5, <1>9, <1>10, <1>11, Becomes
<1> QED  BY <1>8, <1>12

\* A Phi for every register, in the order of the registers.
LEMMA PhisKeep ==
  ASSUME NEW code, NEW nregs, InFrame(code, nregs), NEW s, BuilderOK(code, nregs, s)
  PROVE  BuilderOK(code, nregs, Fold(Phi, s, [r \in 1..nregs |-> r - 1]))
<1>1. PICK c, regs : c = <<code, nregs>> /\ regs = [r \in 1..nregs |-> r - 1]
  OBVIOUS
<1>2. nregs \in Nat /\ Len(regs) = nregs /\ \A i \in 1..nregs : regs[i] \in 0..(nregs - 1)
  BY <1>1 DEF InFrame
<1>3. c[1] = code /\ c[2] = nregs
  BY <1>1
<1>4. KeptBuilding(c, s, regs, 0, s)
  BY <1>3 DEF KeptBuilding
<1>5. \A i \in 1..Len(regs) : \A x :
        KeptBuilding(c, s, regs, i - 1, x) => KeptBuilding(c, s, regs, i, PhiStep(c, x, regs[i]))
  BY <1>2, <1>3, PhiKeeps DEF KeptBuilding, PhiStep
<1>6. KeptBuilding(c, s, regs, Len(regs), Phis!Folded(c, s, regs))
  BY <1>2, <1>4, <1>5, Phis!FoldKeeps
<1>7. Phis!Folded(c, s, regs) = Fold(Phi, s, regs)
  BY DEF Phis!Folded, Fold, PhiStep
<1> QED  BY <1>1, <1>3, <1>6, <1>7 DEF KeptBuilding

LEMMA EnterKeeps ==
  ASSUME NEW code, NEW nregs, InFrame(code, nregs), NEW s, BuilderOK(code, nregs, s)
  PROVE  BuilderOK(code, nregs, enter(s))
<1>1. PICK regs : regs = [r \in 1..nregs |-> r - 1]
  OBVIOUS
<1>2. PICK in : in = CASE Len(Preds(s)) > 1 -> Fold(Phi, Region(s), regs)
                       [] Len(Preds(s)) = 1 -> Inherit(s)
                       [] OTHER -> s
  OBVIOUS
<1>3. BuilderOK(code, nregs, in)
  <2>1. PICK met : met = Fold(Phi, Region(s), regs)
    OBVIOUS
  <2>2. BuilderOK(code, nregs, met)
    BY <1>1, <2>1, RegionKeeps, PhisKeep
  <2>3. Len(Preds(s)) = 1 => BuilderOK(code, nregs, Inherit(s))
    BY InheritKeeps
  <2>4. in = CASE Len(Preds(s)) > 1 -> met [] Len(Preds(s)) = 1 -> Inherit(s) [] OTHER -> s
    BY <1>2, <2>1
  <2> QED  BY <2>2, <2>3, <2>4
<1>4. s.nregs = nregs /\ s.no \in DOMAIN s.blocks /\ s.blocks = in.blocks
  BY <1>3 DEF BuilderOK, For
<1>5. PICK n : n = s.no
  OBVIOUS
<1>6. PICK state : state = in.entry[n]
  OBVIOUS
<1>7. PICK t : t = [in EXCEPT !.state = state]
  OBVIOUS
<1>8. enter(s) = t
  BY <1>1, <1>2, <1>4, <1>5, <1>6, <1>7 DEF enter
<1>9. WellMade(in.g) /\ Holds(in, in.g)
  BY <1>3 DEF BuilderOK
<1>10. /\ in.no \in DOMAIN in.blocks /\ in.at \in [DOMAIN code -> Slots(in.g)] /\ in.ctl \in Ids(in.g)
       /\ in.entry \in [DOMAIN in.blocks -> Registers(nregs, in.g)]
  BY <1>3, <1>9, HeldAre
<1>11. state \in Registers(nregs, in.g)
  BY <1>4, <1>5, <1>6, <1>10
<1>12. t = [code |-> in.code, nregs |-> in.nregs, blocks |-> in.blocks, no |-> in.no, g |-> in.g,
           ctl |-> in.ctl, at |-> in.at, entry |-> in.entry, state |-> state]
  BY <1>3, <1>7 DEF BuilderOK, IsBuilder
<1>13. BuilderOK(code, nregs, t)
  BY <1>3, <1>9, <1>10, <1>11, <1>12, Becomes
<1> QED  BY <1>8, <1>13

LEMMA LeaveKeeps ==
  ASSUME NEW code, NEW nregs, InFrame(code, nregs), NEW s, BuilderOK(code, nregs, s)
  PROVE  BuilderOK(code, nregs, leave(s))
<1>1. WellMade(s.g) /\ Holds(s, s.g)
  BY DEF BuilderOK
<1>2. /\ s.no \in DOMAIN s.blocks /\ s.at \in [DOMAIN code -> Slots(s.g)] /\ s.ctl \in Ids(s.g)
      /\ s.entry \in [DOMAIN s.blocks -> Registers(nregs, s.g)] /\ s.state \in Registers(nregs, s.g)
  BY <1>1, HeldAre
<1>3. PICK at : at = [s.at EXCEPT ![s.blocks[s.no].end] = s.ctl]
  OBVIOUS
<1>4. PICK entry : entry = IF s.no < Len(s.blocks) THEN [s.entry EXCEPT ![s.no + 1] = s.state] ELSE s.entry
  OBVIOUS
<1>5. PICK t : t = [s EXCEPT !.at = at, !.entry = entry]
  OBVIOUS
<1>6. leave(s) = t
  BY <1>3, <1>4, <1>5 DEF leave
<1>7. t = [code |-> s.code, nregs |-> s.nregs, blocks |-> s.blocks, no |-> s.no, g |-> s.g,
           ctl |-> s.ctl, at |-> at, entry |-> entry, state |-> s.state]
  BY <1>5 DEF BuilderOK, IsBuilder
<1>8. at \in [DOMAIN code -> Slots(s.g)]
  BY <1>2, <1>3 DEF Slots
<1>9. entry \in [DOMAIN s.blocks -> Registers(nregs, s.g)]
  BY <1>2, <1>4
<1>10. BuilderOK(code, nregs, t)
  BY <1>1, <1>2, <1>7, <1>8, <1>9, Becomes
<1> QED  BY <1>6, <1>10

LEMMA InstructionsKeep ==
  ASSUME NEW code, NEW nregs, InFrame(code, nregs), NEW s, BuilderOK(code, nregs, s),
         NEW pcs, Len(pcs) \in Nat, \A j \in 1..Len(pcs) : pcs[j] \in DOMAIN code
  PROVE  BuilderOK(code, nregs, Fold(translate, s, pcs))
<1>1. PICK c : c = <<code, nregs>>
  OBVIOUS
<1>2. c[1] = code /\ c[2] = nregs
  BY <1>1
<1>3. KeptBuilding(c, s, pcs, 0, s)
  BY <1>2 DEF KeptBuilding
<1>4. \A i \in 1..Len(pcs) : \A x :
        KeptBuilding(c, s, pcs, i - 1, x) => KeptBuilding(c, s, pcs, i, TranslateStep(c, x, pcs[i]))
  BY <1>2, TranslateKeeps DEF KeptBuilding, TranslateStep
<1>5. KeptBuilding(c, s, pcs, Len(pcs), Instrs!Folded(c, s, pcs))
  BY <1>3, <1>4, Instrs!FoldKeeps
<1>6. Instrs!Folded(c, s, pcs) = Fold(translate, s, pcs)
  BY DEF Instrs!Folded, Fold, TranslateStep
<1> QED  BY <1>2, <1>5, <1>6 DEF KeptBuilding

LEMMA BlockKeeps ==
  ASSUME NEW code, NEW nregs, InFrame(code, nregs), NEW s, BuilderOK(code, nregs, s), NEW i \in DOMAIN s.blocks
  PROVE  BuilderOK(code, nregs, build_block(s, i))
<1>1. PICK b : b = s.blocks[i]
  OBVIOUS
<1>2. b.start \in DOMAIN code /\ b.end \in DOMAIN code /\ b.start <= b.end
  BY <1>1, BlockIs DEF BlockOK
<1>3. DOMAIN code = 1..Len(code) /\ Len(code) \in Nat
  BY DEF InFrame
<1>4. PICK pcs : pcs = [j \in 1..(b.end - b.start + 1) |-> b.start + j - 1]
  OBVIOUS
<1>5. Len(pcs) \in Nat /\ \A j \in 1..Len(pcs) : pcs[j] \in DOMAIN code
  <2>1. b.end - b.start + 1 \in Nat /\ Len(pcs) = b.end - b.start + 1
    BY <1>2, <1>3, <1>4
  <2>2. \A j \in 1..(b.end - b.start + 1) : b.start + j - 1 \in DOMAIN code
    BY <1>2, <1>3
  <2> QED  BY <1>4, <2>1, <2>2
<1>6. PICK t : t = [s EXCEPT !.no = i]
  OBVIOUS
<1>7. t = [code |-> s.code, nregs |-> s.nregs, blocks |-> s.blocks, no |-> i, g |-> s.g,
           ctl |-> s.ctl, at |-> s.at, entry |-> s.entry, state |-> s.state]
  BY <1>6 DEF BuilderOK, IsBuilder
<1>8. WellMade(s.g) /\ Holds(s, s.g)
  BY DEF BuilderOK
<1>9. /\ s.at \in [DOMAIN code -> Slots(s.g)] /\ s.ctl \in Ids(s.g)
      /\ s.entry \in [DOMAIN s.blocks -> Registers(nregs, s.g)] /\ s.state \in Registers(nregs, s.g)
  BY <1>8, HeldAre
<1>10. BuilderOK(code, nregs, t)
  BY <1>7, <1>8, <1>9, Becomes
<1>11. BuilderOK(code, nregs, leave(Fold(translate, enter(t), pcs)))
  BY <1>5, <1>10, EnterKeeps, InstructionsKeep, LeaveKeeps
<1>12. build_block(s, i) = leave(Fold(translate, enter(t), pcs))
  BY <1>1, <1>4, <1>6 DEF build_block
<1> QED  BY <1>11, <1>12

BlockStep(c, x, i) == build_block(x, i)

KeptBlocks(c, base, s, i, x) ==
  WellMade(x.g) /\ (Len(s) > 0 => BuilderOK(c[1], c[2], x))

Blocks == INSTANCE FoldInduction WITH Visit <- BlockStep, Kept <- KeptBlocks

LEMMA StartsWell ==
  ASSUME NEW g, g = NewGraph
  PROVE  WellMade(g)
<1>1. /\ GraphOK(g) /\ Mirrored(g) /\ Ids(g) = {0, 1}
      /\ g.node[0].ins = <<>> /\ g.node[0].kind = "Start" /\ g.node[1].ins = <<>>
  BY NewGraphIs
<1>2. \A i \in Ids(g) : InputsOf(g, i) = {}
  BY <1>1 DEF InputsOf
<1>3. Acyclic(g)
  BY <1>2 DEF Acyclic
<1> QED  BY <1>1, <1>3 DEF WellMade, Start

LEMMA BuilderStarts ==
  ASSUME NEW code, NEW nregs, InFrame(code, nregs)
  PROVE  /\ WellMade(Builder(code, nregs).g)
         /\ Builder(code, nregs).blocks = build_cfg(code)
         /\ 1 \in DOMAIN build_cfg(code) => BuilderOK(code, nregs, Builder(code, nregs))
<1>1. PICK blocks, g, s : blocks = build_cfg(code) /\ g = NewGraph /\ s = Builder(code, nregs)
  OBVIOUS
<1>2. PICK at, entry, state : /\ at = [pc \in DOMAIN code |-> IF pc = 1 THEN Start ELSE Null]
                              /\ state = Unset(nregs) /\ entry = [i \in DOMAIN blocks |-> Unset(nregs)]
  OBVIOUS
<1>3. s = [code |-> code, nregs |-> nregs, blocks |-> blocks, no |-> 1, g |-> g, ctl |-> Start,
           at |-> at, entry |-> entry, state |-> state]
  BY <1>1, <1>2 DEF Builder
<1>4. WellMade(g)
  BY <1>1, StartsWell
<1>5. Start \in Ids(g)
  BY <1>4 DEF WellMade
<1>6. state \in Registers(nregs, g)
  BY <1>2 DEF Unset, Registers, Slots
<1>7. entry \in [DOMAIN blocks -> Registers(nregs, g)]
  BY <1>2, <1>6
<1>8. at \in [DOMAIN code -> Slots(g)]
  BY <1>2, <1>5 DEF Slots
<1>9. IsBuilder(s) /\ (1 \in DOMAIN blocks => For(code, nregs, s))
  BY <1>1, <1>3 DEF IsBuilder, For
<1>10. Holds(s, g)
  BY <1>3, <1>5, <1>6, <1>7, <1>8 DEF Holds
<1>11. s.g = g /\ s.blocks = blocks
  BY <1>3
<1> QED  BY <1>1, <1>4, <1>9, <1>10, <1>11 DEF BuilderOK

LEMMA BuildsWell ==
  ASSUME NEW code, NEW nregs, InFrame(code, nregs)
  PROVE  WellMade(build(code, nregs))
<1>1. PICK c, new, blocks : c = <<code, nregs>> /\ new = Builder(code, nregs) /\ blocks = build_cfg(code)
  OBVIOUS
<1>2. PICK all : all = [i \in DOMAIN blocks |-> i]
  OBVIOUS
<1>3. Len(blocks) \in Nat /\ DOMAIN blocks = 1..Len(blocks)
  BY <1>1, BlocksAre DEF BlocksOK, InFrame
<1>4. Len(all) \in Nat /\ \A i \in 1..Len(all) : all[i] \in DOMAIN blocks /\ 1 \in DOMAIN blocks
  BY <1>2, <1>3
<1>5. c[1] = code /\ c[2] = nregs
  BY <1>1
<1>6. KeptBlocks(c, new, all, 0, new)
  BY <1>1, <1>4, <1>5, BuilderStarts DEF KeptBlocks
<1>7. \A i \in 1..Len(all) : \A x :
        KeptBlocks(c, new, all, i - 1, x) => KeptBlocks(c, new, all, i, BlockStep(c, x, all[i]))
  <2> TAKE i \in 1..Len(all)
  <2> TAKE x
  <2> HAVE KeptBlocks(c, new, all, i - 1, x)
  <2>1. BuilderOK(code, nregs, x)
    BY <1>4, <1>5 DEF KeptBlocks
  <2>2. all[i] \in DOMAIN x.blocks
    BY <1>1, <1>4, <2>1 DEF BuilderOK, For
  <2>3. BuilderOK(code, nregs, build_block(x, all[i]))
    BY <2>1, <2>2, BlockKeeps
  <2> QED  BY <1>5, <2>3 DEF KeptBlocks, BlockStep, BuilderOK
<1>8. KeptBlocks(c, new, all, Len(all), Blocks!Folded(c, new, all))
  BY <1>4, <1>6, <1>7, Blocks!FoldKeeps
<1>9. Blocks!Folded(c, new, all) = Fold(build_block, new, all)
  BY DEF Blocks!Folded, Fold, BlockStep
<1>10. build(code, nregs) = Fold(build_block, new, all).g
  BY <1>1, <1>2, BuilderStarts DEF build
<1> QED  BY <1>8, <1>9, <1>10 DEF KeptBlocks

\* Whatever code the builder is given, if it stays inside its frame: the nodes
\* of its graph list their users and nobody uses a node that was removed, as it
\* is built and after any number of passes.
THEOREM BuiltGraphsStayClosed ==
  ASSUME NEW code, NEW nregs, InFrame(code, nregs)
  PROVE  OptimizerSpec(build(code, nregs)) => []GraphClosed
<1>1. PICK g : g = build(code, nregs)
  OBVIOUS
<1>2. WellMade(g)
  BY <1>1, BuildsWell
<1>3. OptimizerSpec(g) => []GraphClosed
  BY <1>2, PassesKeepGraphClosed
<1> QED  BY <1>1, <1>3

\* And dead code elimination (dce) leaves no node that nothing uses: a round
\* per node is enough for the longest chain of them.
THEOREM DceLeavesNothingUseless ==
  ASSUME NEW code, NEW nregs, InFrame(code, nregs)
  PROVE  OptimizerSpec(build(code, nregs)) => NothingUseless
<1>1. PICK g : g = build(code, nregs)
  OBVIOUS
<1>2. Optimizing(g) => OptimizerIInv
  BY <1>1, BuildsWell DEF Optimizing, OptimizerIInv
<1>3. OptimizerIInv /\ [RunPasses]_optVars
        => [pass = 6 /\ pass' = 7 => \A i \in Ids(ir') : ~Useless(ir', i)]_optVars
  <2> SUFFICES ASSUME OptimizerIInv, RunPasses, pass = 6, pass' = 7
               PROVE  \A i \in Ids(ir') : ~Useless(ir', i)
    BY DEF optVars
  <2>1. Optimize
    BY DEF RunPasses, Crash, Iterate
  <2>2. ir' = dce(ir).g
    BY <2>1 DEF Optimize, Result
  <2>3. PICK h : h = ir'
    OBVIOUS
  <2>4. Neat(h)
    BY <2>2, <2>3, DceKeeps DEF OptimizerIInv
  <2> QED  BY <2>3, <2>4 DEF Neat
<1>4. OptimizerSpec(g) => NothingUseless
  BY <1>2, <1>3, OptimizerStep, PTL DEF OptimizerSpec, NothingUseless
<1> QED  BY <1>1, <1>4
=============================================================================
