------------------------- MODULE EnvironmentsProofs -------------------------
(***************************************************************************)
(* Proofs about environments, for any finite set of symbols and any number *)
(* of environments and shapes.  First everything class Environment offers: *)
(* the shape table alone, an environment's define, the steps.  Then what   *)
(* programs make of it, without remove: shapes are interned, slots are     *)
(* bindings, and environments implement the chain of scopes.               *)
(***************************************************************************)
EXTENDS Environments, FiniteSetTheorems, SequenceTheorems, TLAPS

-----------------------------------------------------------------------------
(***************************************************************************)
(* The shape table                                                         *)
(***************************************************************************)

\* TransitionsSound, of any table.
TableSound(table) ==
  \A sh \in DOMAIN table, s \in Sym :
    LET to == table[sh].next[s]
    IN  to # NoShape =>
          /\ to \in (sh + 1)..Len(table)
          /\ table[to].slots = Extended(table[sh], s).slots
          /\ table[to].deopt = table[sh].deopt

LEMMA SizeType ==
  ASSUME NEW slots \in [Sym -> Nat]
  PROVE  Size(slots) \in Nat
<1>1. Keys(slots) \in SUBSET Sym
  BY DEF Keys
<1> QED  BY <1>1, SymAssumption, FS_Subset, FS_CardinalityType DEF Size

LEMMA ExtendedType ==
  ASSUME NEW from \in Shape, NEW s \in Sym
  PROVE  /\ Extended(from, s) \in Shape
         /\ Extended(from, s).slots[s] = Size(from.slots) + 1
         /\ Extended(from, s).slots[s] # NoSlot
         /\ \A u \in Sym \ {s} : Extended(from, s).slots[u] = from.slots[u]
         /\ Extended(from, s).deopt = from.deopt
         /\ Extended(from, s).next = NoTransition
<1>1. Size(from.slots) \in Nat
  BY SizeType DEF Shape
<1> QED  BY <1>1 DEF Extended, Shape, NoTransition, NoShape, NoSlot

\* What transition_add leaves: an extension of the table, and a shape that is
\* not earlier, has a slot for s and agrees on every other symbol.
AddResult(table, sh, s, t) ==
  /\ t.table \in Seq(Shape)
  /\ Len(t.table) >= Len(table)
  /\ \A k \in 1..Len(table) : t.table[k].slots = table[k].slots
  /\ t.shape \in sh..Len(t.table)
  /\ table[sh].slots[s] = NoSlot => t.shape > sh
  /\ t.table[t.shape].slots[s] # NoSlot
  /\ \A u \in Sym \ {s} : t.table[t.shape].slots[u] = table[sh].slots[u]
  /\ TableSound(t.table)

LEMMA TransitionAddSound ==
  ASSUME NEW table \in Seq(Shape), TableSound(table),
         NEW sh \in 1..Len(table), NEW s \in Sym,
         NEW t, t = TransitionAdd(table, sh, s)
  PROVE  AddResult(table, sh, s, t)
<1> USE DEF AddResult
<1> DEFINE new == Len(table) + 1
           marked == [table EXCEPT ![sh].next[s] = new]
           grown == Append(marked, Extended(table[sh], s))
<1>1. /\ Len(table) \in Nat
      /\ DOMAIN table = 1..Len(table)
      /\ \A k \in 1..Len(table) : table[k] \in Shape
  BY LenProperties, ElementOfSeq
<1>2. CASE table[sh].next[s] # NoShape
  <2>1. t = [table |-> table, shape |-> table[sh].next[s]]
    BY <1>2 DEF TransitionAdd
  <2>2. /\ t.shape \in (sh + 1)..Len(table)
        /\ table[t.shape].slots = Extended(table[sh], s).slots
    BY <1>1, <1>2, <2>1 DEF TableSound
  <2>3. t.shape \in sh..Len(table) /\ t.shape > sh
    BY <1>1, <2>2
  <2>4. /\ table[t.shape].slots[s] # NoSlot
        /\ \A u \in Sym \ {s} : table[t.shape].slots[u] = table[sh].slots[u]
    BY <1>1, <2>2, ExtendedType
  <2>5. t.table = table
    BY <2>1
  <2> QED  BY <1>1, <2>3, <2>4, <2>5
<1>3. CASE table[sh].next[s] = NoShape /\ table[sh].slots[s] # NoSlot
  BY <1>1, <1>3 DEF TransitionAdd
<1>4. CASE table[sh].next[s] = NoShape /\ table[sh].slots[s] = NoSlot
  <2>1. t = [table |-> grown, shape |-> new]
    BY <1>4 DEF TransitionAdd
  <2>2. [table[sh] EXCEPT !.next[s] = new] \in Shape
    <3>1. new \in Nat /\ table[sh] \in Shape
      BY <1>1
    <3>2. [table[sh].next EXCEPT ![s] = new] \in [Sym -> Nat]
      BY <3>1 DEF Shape
    <3> HIDE DEF new
    <3> QED  BY <3>1, <3>2 DEF Shape
  <2>3. marked = [table EXCEPT ![sh] = [table[sh] EXCEPT !.next[s] = new]]
    OBVIOUS
  <2>4. /\ marked \in Seq(Shape)
        /\ Len(marked) = Len(table)
        /\ \A k \in 1..Len(table) :
             marked[k] = IF k = sh THEN [table[sh] EXCEPT !.next[s] = new]
                                   ELSE table[k]
    BY <2>2, <2>3, ExceptSeq
  <2>5. /\ grown \in Seq(Shape)
        /\ Len(grown) = new
        /\ DOMAIN grown = 1..new
        /\ \A k \in 1..Len(table) : grown[k] = marked[k]
        /\ grown[new] = Extended(table[sh], s)
    BY <1>1, <2>4, ExtendedType
  <2>6. \A k \in 1..Len(table) : /\ grown[k].slots = table[k].slots
                                 /\ grown[k].deopt = table[k].deopt
    BY <1>1, <2>4, <2>5 DEF Shape
  <2>7. TableSound(grown)
    <3> SUFFICES ASSUME NEW k \in 1..new, NEW u \in Sym,
                        grown[k].next[u] # NoShape
                 PROVE  /\ grown[k].next[u] \in (k + 1)..new
                        /\ grown[grown[k].next[u]].slots = Extended(grown[k], u).slots
                        /\ grown[grown[k].next[u]].deopt = grown[k].deopt
      BY <2>5 DEF TableSound
    <3>1. k # new
      BY <1>1, <2>5, ExtendedType DEF NoTransition
    <3>2. k \in 1..Len(table)
      BY <1>1, <3>1
    <3>3. Extended(grown[k], u).slots = Extended(table[k], u).slots
      BY <2>6, <3>2 DEF Extended
    <3>4. CASE k = sh /\ u = s
      <4>1. grown[k].next[u] = new
        BY <1>1, <2>4, <2>5, <3>4 DEF Shape
      <4> QED  BY <1>1, <2>5, <2>6, <3>2, <3>3, <3>4, <4>1, ExtendedType
    <3>5. CASE ~(k = sh /\ u = s)
      <4>1. grown[k].next[u] = table[k].next[u]
        BY <1>1, <2>4, <2>5, <3>2, <3>5 DEF Shape
      <4>2. /\ table[k].next[u] \in (k + 1)..Len(table)
            /\ table[table[k].next[u]].slots = Extended(table[k], u).slots
            /\ table[table[k].next[u]].deopt = table[k].deopt
        BY <1>1, <3>2, <4>1 DEF TableSound
      <4>3. table[k].next[u] \in 1..Len(table)
        BY <1>1, <3>2, <4>2
      <4> QED  BY <1>1, <2>6, <3>2, <3>3, <4>1, <4>2, <4>3
    <3> QED  BY <3>4, <3>5
  <2> QED  BY <1>1, <2>1, <2>5, <2>6, <2>7, ExtendedType
<1> QED  BY <1>2, <1>3, <1>4

-----------------------------------------------------------------------------
(***************************************************************************)
(* One environment                                                         *)
(***************************************************************************)

LEMMA GrownToSound ==
  ASSUME NEW bs \in Seq(Binding), NEW slot \in Nat
  PROVE  /\ GrownTo(bs, slot) \in Seq(Binding)
         /\ Len(GrownTo(bs, slot)) >= Len(bs)
         /\ Len(GrownTo(bs, slot)) >= slot
         /\ \A k \in 1..Len(bs) : GrownTo(bs, slot)[k] = bs[k]
<1> DEFINE n == IF Len(bs) > slot THEN Len(bs) ELSE slot
<1>1. Len(bs) \in Nat /\ \A k \in 1..Len(bs) : bs[k] \in Binding
  BY LenProperties, ElementOfSeq
<1>2. n \in Nat /\ n >= Len(bs) /\ n >= slot
  BY <1>1
<1>3. EmptyBinding \in Binding
  BY NilAssumption DEF EmptyBinding, Binding
<1>4. GrownTo(bs, slot) = [k \in 1..n |-> IF k <= Len(bs) THEN bs[k] ELSE EmptyBinding]
  BY DEF GrownTo
<1> HIDE DEF n
<1>5. GrownTo(bs, slot) \in [1..n -> Binding]
  BY <1>1, <1>2, <1>3, <1>4
<1>6. GrownTo(bs, slot) \in Seq(Binding) /\ Len(GrownTo(bs, slot)) = n
  BY <1>2, <1>5
<1> QED  BY <1>1, <1>2, <1>4, <1>6

\* Every slot of a slot map is within a vector of bindings.
Backed(slots, bs) == \A u \in Sym : slots[u] <= Len(bs)

\* What a define of s leaves: an extension of the table, a shape that is not
\* earlier and differs in the slot of s alone, and bindings for its slots that
\* differ at that slot alone.
DefineResult(table, sh, bs, s, v, d) ==
  /\ d.table \in Seq(Shape)
  /\ Len(d.table) >= Len(table)
  /\ \A k \in 1..Len(table) : d.table[k].slots = table[k].slots
  /\ TableSound(d.table)
  /\ d.shape \in sh..Len(d.table)
  /\ d.table[d.shape].slots[s] # NoSlot
  /\ \A u \in Sym \ {s} : d.table[d.shape].slots[u] = table[sh].slots[u]
  /\ d.bindings \in Seq(Binding)
  /\ Len(d.bindings) >= Len(bs)
  /\ Backed(d.table[d.shape].slots, d.bindings)
  /\ d.bindings[d.table[d.shape].slots[s]] = [state |-> "kValue", value |-> v]
  /\ \A k \in 1..Len(bs) :
       k # d.table[d.shape].slots[s] => d.bindings[k] = bs[k]

LEMMA DefinedSound ==
  ASSUME NEW table \in Seq(Shape), TableSound(table),
         NEW sh \in 1..Len(table), NEW bs \in Seq(Binding),
         NEW s \in Sym, NEW v \in Val,
         Backed(table[sh].slots, bs),
         NEW d, d = Defined(table, sh, bs, s, v)
  PROVE  DefineResult(table, sh, bs, s, v, d)
<1> DEFINE t == IF table[sh].slots[s] # NoSlot
                  THEN [table |-> table, shape |-> sh]
                  ELSE TransitionAdd(table, sh, s)
           slot == t.table[t.shape].slots[s]
           bound == [state |-> "kValue", value |-> v]
<1>1. d = [table |-> t.table, shape |-> t.shape,
           bindings |-> [GrownTo(bs, slot) EXCEPT ![slot] = bound]]
  BY DEF Defined
<1>2. Len(table) \in Nat /\ Len(bs) \in Nat /\ table[sh] \in Shape
  BY LenProperties, ElementOfSeq
<1>3. AddResult(table, sh, s, t)
  <2>1. CASE table[sh].slots[s] # NoSlot
    BY <1>2, <2>1 DEF AddResult
  <2>2. CASE table[sh].slots[s] = NoSlot
    BY <2>2, TransitionAddSound
  <2> QED  BY <2>1, <2>2
<1> USE <1>3 DEF AddResult
<1> HIDE DEF t
<1>4. slot \in Nat \ {0}
  <2>1. t.shape \in 1..Len(t.table)
    BY <1>2, <1>3
  <2>2. t.table[t.shape] \in Shape
    BY <1>3, <2>1, ElementOfSeq
  <2> QED  BY <1>3, <2>2 DEF Shape, NoSlot
<1> HIDE DEF slot
<1>5. bound \in Binding
  BY DEF Binding
<1> HIDE DEF bound
<1>6. /\ GrownTo(bs, slot) \in Seq(Binding)
      /\ Len(GrownTo(bs, slot)) >= Len(bs)
      /\ Len(GrownTo(bs, slot)) >= slot
      /\ \A k \in 1..Len(bs) : GrownTo(bs, slot)[k] = bs[k]
  BY <1>4, GrownToSound
<1>7. /\ d.bindings \in Seq(Binding)
      /\ Len(d.bindings) = Len(GrownTo(bs, slot))
      /\ \A k \in 1..Len(d.bindings) :
           d.bindings[k] = IF k = slot THEN bound ELSE GrownTo(bs, slot)[k]
  <2>1. Len(GrownTo(bs, slot)) \in Nat
    BY <1>6, LenProperties
  <2>2. slot \in 1..Len(GrownTo(bs, slot))
    BY <1>4, <1>6, <2>1
  <2>3. d.bindings = [GrownTo(bs, slot) EXCEPT ![slot] = bound]
    BY <1>1
  <2> QED  BY <1>5, <1>6, <2>2, <2>3, ExceptSeq
<1>8. Len(d.bindings) \in Nat /\ Len(d.bindings) >= Len(bs) /\ Len(d.bindings) >= slot
  BY <1>6, <1>7, LenProperties
<1>9. d.table = t.table /\ d.shape = t.shape /\ slot = t.table[t.shape].slots[s]
  BY <1>1 DEF slot
<1>10. \A u \in Sym : d.table[d.shape].slots[u] <= Len(d.bindings)
  <2> SUFFICES ASSUME NEW u \in Sym
               PROVE  d.table[d.shape].slots[u] <= Len(d.bindings)
    OBVIOUS
  <2>1. CASE u = s
    BY <1>8, <1>9, <2>1
  <2>2. CASE u # s
    <3>1. table[sh].slots[u] \in Nat /\ table[sh].slots[u] <= Len(bs)
      BY <1>2 DEF Shape, Backed
    <3> QED  BY <1>2, <1>3, <1>8, <1>9, <2>2, <3>1
  <2> QED  BY <2>1, <2>2
<1>11. d.bindings[slot] = bound
  BY <1>4, <1>7, <1>8
<1>12. \A k \in 1..Len(bs) : k # slot => d.bindings[k] = bs[k]
  BY <1>2, <1>6, <1>7, <1>8
<1> QED  BY <1>3, <1>7, <1>8, <1>9, <1>10, <1>11, <1>12 DEF bound, Backed, DefineResult

-----------------------------------------------------------------------------
(***************************************************************************)
(* The specification                                                       *)
(***************************************************************************)

\* The shape new environments start with, ShapeTable::root_, stays empty.
RootEmpty == \A s \in Sym : shapes[1].slots[s] = NoSlot

\* Types, the table and the vectors hold one another up: the table's shapes
\* tell define which slot to use, and define's growth keeps it in range.
EnvIInv == TypeOK /\ TransitionsSound /\ SlotsBacked /\ RootEmpty

LEMMA EnvInitial == EnvInit => EnvIInv
<1> SUFFICES ASSUME EnvInit PROVE EnvIInv
  OBVIOUS
<1>1. EmptyShape \in Shape /\ EmptyShape.slots = [s \in Sym |-> NoSlot]
  BY DEF EmptyShape, Shape, NoTransition, NoSlot, NoShape
<1>2. shapes \in Seq(Shape) /\ Len(shapes) = 1 /\ shapes[1] = EmptyShape
  BY <1>1 DEF EnvInit
<1>3. /\ parent \in Seq(Nat) /\ Len(parent) = 3 /\ Envs = 1..3
      /\ \A e \in 1..3 : parent[e] < e
  BY DEF EnvInit, Envs, NoEnv, Empty, Base
<1>4. shape \in Seq(1..1) /\ Len(shape) = 3 /\ \A e \in 1..3 : shape[e] = 1
  BY DEF EnvInit
<1>5. /\ bindings \in Seq(Seq(Binding)) /\ Len(bindings) = 3
      /\ \A e \in 1..3 : bindings[e] = <<>>
  BY DEF EnvInit
<1>6. TypeOK
  BY <1>2, <1>3, <1>4, <1>5 DEF TypeOK, Global
<1>7. TransitionsSound
  BY <1>2 DEF TransitionsSound, EmptyShape, NoTransition
<1>8. SlotsBacked
  BY <1>1, <1>2, <1>3, <1>4, <1>5 DEF SlotsBacked, SlotOf, NoSlot
<1>9. RootEmpty
  BY <1>1, <1>2 DEF RootEmpty
<1> QED  BY <1>6, <1>7, <1>8, <1>9 DEF EnvIInv

\* TypeOK, in the form the steps use it.
LEMMA EnvTypes ==
  ASSUME TypeOK
  PROVE  /\ Len(shapes) \in Nat \ {0} /\ DOMAIN shapes = 1..Len(shapes)
         /\ Len(parent) \in Nat /\ Len(parent) >= 3 /\ Envs = 1..Len(parent)
         /\ Len(shape) = Len(parent) /\ Len(bindings) = Len(parent)
         /\ \A e \in Envs : /\ parent[e] \in Nat /\ parent[e] < e
                            /\ shape[e] \in 1..Len(shapes)
                            /\ bindings[e] \in Seq(Binding)
                            /\ Len(bindings[e]) \in Nat
         /\ \A k \in 1..Len(shapes) : shapes[k] \in Shape
         /\ \A e \in Envs, s \in Sym : SlotOf(e, s) \in Nat
<1>1. /\ Len(shapes) \in Nat \ {0} /\ DOMAIN shapes = 1..Len(shapes)
      /\ \A k \in 1..Len(shapes) : shapes[k] \in Shape
  BY LenProperties, ElementOfSeq DEF TypeOK
<1>2. Len(parent) \in Nat /\ Len(parent) >= 3 /\ Envs = 1..Len(parent)
  BY LenProperties DEF TypeOK, Envs, Global
<1>3. \A e \in Envs : /\ parent[e] \in Nat /\ parent[e] < e
                     /\ shape[e] \in 1..Len(shapes)
                     /\ bindings[e] \in Seq(Binding)
  BY <1>2, ElementOfSeq DEF TypeOK
<1>4. \A e \in Envs : Len(bindings[e]) \in Nat
  BY <1>3, LenProperties
<1>5. \A e \in Envs, s \in Sym : SlotOf(e, s) \in Nat
  BY <1>1, <1>3 DEF SlotOf, Shape
<1> QED  BY <1>1, <1>2, <1>3, <1>4, <1>5 DEF TypeOK

\* What every step keeps: environments and shapes stay, and an environment
\* that keeps its shape keeps its bindings bound.
StepKeeps ==
  /\ Envs \subseteq Envs'
  /\ Len(shapes') >= Len(shapes)
  /\ \A k \in 1..Len(shapes) : shapes'[k].slots = shapes[k].slots
  /\ \A e \in Envs :
       /\ shape'[e] >= shape[e]
       /\ shape'[e] = shape[e] =>
            \A k \in 1..Len(bindings[e]) :
              bindings[e][k].state = "kValue" => bindings'[e][k].state = "kValue"

LEMMA DefineStep ==
  ASSUME EnvIInv, NEW e \in Envs, NEW s \in Sym, NEW v \in Val, define(e, s, v)
  PROVE  EnvIInv' /\ StepKeeps
<1> DEFINE d == Defined(shapes, shape[e], bindings[e], s, v)
<1>1. /\ shapes' = d.table
      /\ shape' = [shape EXCEPT ![e] = d.shape]
      /\ bindings' = [bindings EXCEPT ![e] = d.bindings]
      /\ parent' = parent
  BY DEF define
<1>2. /\ Len(shapes) \in Nat \ {0} /\ DOMAIN shapes = 1..Len(shapes)
      /\ Envs = 1..Len(parent) /\ Len(shape) = Len(parent)
      /\ Len(bindings) = Len(parent) /\ Len(parent) \in Nat
      /\ \A k \in Envs : /\ shape[k] \in 1..Len(shapes)
                         /\ bindings[k] \in Seq(Binding)
                         /\ Len(bindings[k]) \in Nat
      /\ \A k \in Envs, u \in Sym : SlotOf(k, u) \in Nat
  BY EnvTypes DEF EnvIInv
<1>3. /\ shapes \in Seq(Shape) /\ TableSound(shapes)
      /\ Backed(shapes[shape[e]].slots, bindings[e])
  BY DEF Backed, EnvIInv, TypeOK, TransitionsSound, TableSound, SlotsBacked, SlotOf
<1>4. DefineResult(shapes, shape[e], bindings[e], s, v, d)
  BY <1>2, <1>3, DefinedSound
<1> USE <1>4 DEF DefineResult, Backed
<1> HIDE DEF d
<1>5. Len(d.table) \in Nat
  BY <1>4, LenProperties
<1>6. shape' \in Seq(1..Len(d.table)) /\ Len(shape') = Len(parent)
  <2>1. shape \in Seq(1..Len(d.table))
    <3>1. shape \in Seq(1..Len(shapes))
      BY DEF EnvIInv, TypeOK
    <3>2. 1..Len(shapes) \subseteq 1..Len(d.table)
      BY <1>2, <1>4, <1>5
    <3> QED  BY <3>1, <3>2, SeqMonotonic
  <2>2. d.shape \in 1..Len(d.table)
    BY <1>2, <1>4, <1>5
  <2> QED  BY <1>1, <1>2, <2>1, <2>2, ExceptSeq
<1>7. bindings' \in Seq(Seq(Binding)) /\ Len(bindings') = Len(parent)
  <2>1. bindings \in Seq(Seq(Binding))
    BY DEF EnvIInv, TypeOK
  <2> QED  BY <1>1, <1>2, <1>4, <2>1, ExceptSeq
<1>8. TypeOK'
  <2>1. shapes' \in Seq(Shape) /\ Len(shapes') > 0
    BY <1>1, <1>2, <1>4, <1>5
  <2>2. shape' \in Seq(1..Len(shapes')) /\ Len(shape') = Len(parent')
    BY <1>1, <1>6
  <2>3. /\ parent' \in Seq(Nat) /\ Len(parent') >= Global
        /\ \A k \in Envs' : parent'[k] < k
    BY <1>1 DEF EnvIInv, TypeOK, Envs
  <2> QED  BY <1>1, <1>7, <2>1, <2>2, <2>3 DEF TypeOK
<1>9. TransitionsSound'
  BY <1>1, <1>4 DEF TransitionsSound, TableSound
<1>10. /\ shape'[e] = d.shape /\ bindings'[e] = d.bindings
       /\ \A k \in Envs \ {e} : shape'[k] = shape[k] /\ bindings'[k] = bindings[k]
  <2>1. DOMAIN shape = Envs /\ DOMAIN bindings = Envs
    BY <1>2, LenProperties DEF EnvIInv, TypeOK
  <2> QED  BY <1>1, <2>1
<1>11. SlotsBacked'
  <2> SUFFICES ASSUME NEW k \in Envs, NEW u \in Sym
               PROVE  shapes'[shape'[k]].slots[u] <= Len(bindings'[k])
    BY <1>1 DEF SlotsBacked, SlotOf, Envs
  <2>1. CASE k = e
    BY <1>1, <1>4, <1>10, <2>1
  <2>2. CASE k # e
    <3>1. shapes[shape[k]].slots[u] <= Len(bindings[k])
      BY DEF EnvIInv, SlotsBacked, SlotOf
    <3> QED  BY <1>1, <1>2, <1>4, <1>10, <2>2, <3>1
  <2> QED  BY <2>1, <2>2
<1>12. \A k \in Envs : shape'[k] >= shape[k]
  BY <1>2, <1>4, <1>5, <1>10
<1>14. StepKeeps
  <2>1. Envs' = Envs
    BY <1>1 DEF Envs
  <2>2. \A k \in 1..Len(bindings[e]) :
          bindings[e][k].state = "kValue" => bindings'[e][k].state = "kValue"
    BY <1>10
  <2>3. Len(shapes') >= Len(shapes)
        /\ \A k \in 1..Len(shapes) : shapes'[k].slots = shapes[k].slots
    BY <1>1
  <2> QED  BY <1>10, <1>12, <2>1, <2>2, <2>3 DEF StepKeeps
<1>13. RootEmpty'
  BY <1>1, <1>2, <1>4 DEF EnvIInv, RootEmpty
<1> QED  BY <1>8, <1>9, <1>11, <1>13, <1>14 DEF EnvIInv

LEMMA SetExistingStep ==
  ASSUME EnvIInv, NEW e \in Envs, NEW s \in Sym, NEW v \in Val, set_existing(e, s, v)
  PROVE  EnvIInv' /\ StepKeeps
<1>1. PICK b \in Slotted(s) :
        /\ bindings' = [bindings EXCEPT ![b] = [@ EXCEPT ![SlotOf(b, s)] =
                          [state |-> "kValue", value |-> v]]]
        /\ UNCHANGED <<shapes, parent, shape>>
  BY DEF set_existing
<1>2. /\ b \in Envs /\ SlotOf(b, s) # NoSlot
      /\ SlotOf(b, s) \in Nat /\ SlotOf(b, s) <= Len(bindings[b])
      /\ bindings[b] \in Seq(Binding) /\ Len(bindings[b]) \in Nat
      /\ Envs = 1..Len(bindings)
  BY EnvTypes DEF Slotted, EnvIInv, SlotsBacked
<1> DEFINE new == [bindings[b] EXCEPT ![SlotOf(b, s)] = [state |-> "kValue", value |-> v]]
<1>3. /\ new \in Seq(Binding) /\ Len(new) = Len(bindings[b])
      /\ \A k \in 1..Len(bindings[b]) :
           bindings[b][k].state = "kValue" => new[k].state = "kValue"
  <2>1. SlotOf(b, s) \in 1..Len(bindings[b])
    BY <1>2 DEF NoSlot
  <2>2. [state |-> "kValue", value |-> v] \in Binding
    BY DEF Binding
  <2> QED  BY <1>2, <2>1, <2>2, ExceptSeq
<1>4. bindings' = [bindings EXCEPT ![b] = new]
  BY <1>1
<1> HIDE DEF new
<1>5. /\ bindings' \in Seq(Seq(Binding)) /\ Len(bindings') = Len(bindings)
      /\ \A k \in Envs : /\ bindings'[k] = IF k = b THEN new ELSE bindings[k]
                         /\ Len(bindings'[k]) = Len(bindings[k])
  <2>1. bindings \in Seq(Seq(Binding))
    BY DEF EnvIInv, TypeOK
  <2> QED  BY <1>2, <1>3, <1>4, <2>1, ExceptSeq
<1>6. TypeOK'
  BY <1>1, <1>5 DEF EnvIInv, TypeOK, Envs
<1>7. TransitionsSound' /\ SlotsBacked' /\ RootEmpty'
  BY <1>1, <1>5 DEF EnvIInv, TransitionsSound, SlotsBacked, SlotOf, Envs, RootEmpty
<1>8. StepKeeps
  <2>1. \A k \in Envs : shape[k] \in Nat
    BY EnvTypes DEF EnvIInv
  <2>2. Len(shapes) \in Nat
    BY EnvTypes DEF EnvIInv
  <2> QED  BY <1>1, <1>3, <1>5, <2>1, <2>2 DEF StepKeeps, Envs
<1> QED  BY <1>6, <1>7, <1>8 DEF EnvIInv

LEMMA NewEnvironmentStep ==
  ASSUME EnvIInv, NEW p \in Envs, NewEnvironment(p)
  PROVE  EnvIInv' /\ StepKeeps
<1>1. /\ shapes' = shapes
      /\ parent' = Append(parent, p)
      /\ shape' = Append(shape, 1)
      /\ bindings' = Append(bindings, <<>>)
  BY DEF NewEnvironment
<1>2. /\ Len(shapes) \in Nat \ {0}
      /\ Len(parent) \in Nat /\ Len(parent) >= 3 /\ Envs = 1..Len(parent)
      /\ Len(shape) = Len(parent) /\ Len(bindings) = Len(parent)
      /\ \A e \in Envs : parent[e] < e
  BY EnvTypes DEF EnvIInv
<1>3. /\ parent \in Seq(Nat) /\ shape \in Seq(1..Len(shapes))
      /\ bindings \in Seq(Seq(Binding)) /\ <<>> \in Seq(Binding)
  BY DEF EnvIInv, TypeOK
<1>4. /\ parent' \in Seq(Nat) /\ shape' \in Seq(1..Len(shapes))
      /\ bindings' \in Seq(Seq(Binding))
      /\ Len(parent') = Len(parent) + 1 /\ Len(shape') = Len(parent) + 1
      /\ Len(bindings') = Len(parent) + 1
      /\ Envs' = 1..(Len(parent) + 1)
  BY <1>1, <1>2, <1>3 DEF Envs
<1>5. /\ \A e \in Envs : /\ parent'[e] = parent[e]
                         /\ shape'[e] = shape[e]
                         /\ bindings'[e] = bindings[e]
      /\ parent'[Len(parent) + 1] = p
      /\ shape'[Len(parent) + 1] = 1
      /\ bindings'[Len(parent) + 1] = <<>>
  BY <1>1, <1>2, <1>3
<1>6. TypeOK'
  <2>1. \A k \in Envs' : parent'[k] < k
    <3> SUFFICES ASSUME NEW k \in 1..(Len(parent) + 1) PROVE parent'[k] < k
      BY <1>4
    <3>1. CASE k \in Envs
      BY <1>2, <1>5, <3>1
    <3>2. CASE k \notin Envs
      <4>1. k = Len(parent) + 1 /\ p <= Len(parent)
        BY <1>2, <3>2
      <4> QED  BY <1>2, <1>5, <4>1
    <3> QED  BY <3>1, <3>2
  <2>4. Len(parent') >= Global
    BY <1>2, <1>4 DEF Global
  <2>2. shapes' \in Seq(Shape) /\ Len(shapes') > 0
    BY <1>1 DEF EnvIInv, TypeOK
  <2>3. shape' \in Seq(1..Len(shapes'))
    BY <1>1, <1>4
  <2> QED  BY <1>4, <2>1, <2>2, <2>3, <2>4 DEF TypeOK
<1>7. TransitionsSound' /\ RootEmpty'
  BY <1>1 DEF EnvIInv, TransitionsSound, RootEmpty
<1>8. SlotsBacked'
  <2> SUFFICES ASSUME NEW k \in 1..(Len(parent) + 1), NEW u \in Sym
               PROVE  shapes[shape'[k]].slots[u] <= Len(bindings'[k])
    BY <1>1, <1>4 DEF SlotsBacked, SlotOf
  <2>1. CASE k = Len(parent) + 1
    BY <1>5, <2>1 DEF EnvIInv, RootEmpty, NoSlot
  <2>2. CASE k # Len(parent) + 1
    <3>1. k \in Envs
      BY <1>2, <2>2
    <3> QED  BY <1>5, <3>1 DEF EnvIInv, SlotsBacked, SlotOf
  <2> QED  BY <2>1, <2>2
<1>9. StepKeeps
  <2>1. \A k \in Envs : shape[k] \in Nat
    BY EnvTypes DEF EnvIInv
  <2>2. Envs \subseteq Envs'
    BY <1>2, <1>4
  <2>3. Len(shapes') >= Len(shapes)
        /\ \A k \in 1..Len(shapes) : shapes'[k].slots = shapes[k].slots
    BY <1>1, <1>2
  <2>4. \A k \in Envs : shape'[k] >= shape[k] /\ bindings'[k] = bindings[k]
    BY <1>5, <2>1
  <2> QED  BY <2>2, <2>3, <2>4 DEF StepKeeps
<1> QED  BY <1>6, <1>7, <1>8, <1>9 DEF EnvIInv

LEMMA RemoveStep ==
  ASSUME EnvIInv, NEW e \in Envs, NEW s \in Sym, remove(e, s)
  PROVE  EnvIInv' /\ StepKeeps
<1> DEFINE from == shapes[shape[e]]
           new == Len(shapes) + 1
           cleared == [bindings[e] EXCEPT ![SlotOf(e, s)] = EmptyBinding]
<1>1. /\ shapes' = Append(shapes, Without(from, s))
      /\ shape' = [shape EXCEPT ![e] = new]
      /\ bindings' = [bindings EXCEPT ![e] = cleared]
      /\ parent' = parent
      /\ SlotOf(e, s) # NoSlot
  BY DEF remove
<1>2. /\ Len(shapes) \in Nat \ {0} /\ DOMAIN shapes = 1..Len(shapes)
      /\ Len(parent) \in Nat /\ Envs = 1..Len(parent)
      /\ Len(shape) = Len(parent) /\ Len(bindings) = Len(parent)
      /\ \A k \in Envs : /\ shape[k] \in 1..Len(shapes)
                         /\ bindings[k] \in Seq(Binding)
                         /\ Len(bindings[k]) \in Nat
      /\ \A k \in 1..Len(shapes) : shapes[k] \in Shape
      /\ \A k \in Envs, u \in Sym : SlotOf(k, u) \in Nat
      /\ \A k \in Envs, u \in Sym : SlotOf(k, u) <= Len(bindings[k])
      /\ shapes \in Seq(Shape) /\ shape \in Seq(1..Len(shapes))
      /\ bindings \in Seq(Seq(Binding))
  BY EnvTypes DEF EnvIInv, TypeOK, SlotsBacked
<1>3. /\ Without(from, s) \in Shape
      /\ Without(from, s).next = NoTransition
      /\ \A u \in Sym : Without(from, s).slots[u] \in {NoSlot, from.slots[u]}
  <2>1. from \in Shape
    BY <1>2
  <2> HIDE DEF from
  <2> QED  BY <2>1 DEF Without, Shape, NoTransition, NoSlot, NoShape
<1>4. /\ shapes' \in Seq(Shape) /\ Len(shapes') = new
      /\ DOMAIN shapes' = 1..new
      /\ \A k \in 1..Len(shapes) : shapes'[k] = shapes[k]
      /\ shapes'[new] = Without(from, s)
  BY <1>1, <1>2, <1>3
<1>5. /\ shape' \in Seq(1..new) /\ Len(shape') = Len(parent)
      /\ \A k \in Envs : shape'[k] = IF k = e THEN new ELSE shape[k]
  <2>1. shape \in Seq(1..new) /\ new \in 1..new
    <3>1. 1..Len(shapes) \subseteq 1..new /\ new \in 1..new
      BY <1>2
    <3> QED  BY <1>2, <3>1, SeqMonotonic
  <2>2. shape' = [shape EXCEPT ![e] = new]
    BY <1>1
  <2>3. Envs = 1..Len(shape) /\ Len(shape) = Len(parent)
    BY <1>2
  <2> HIDE DEF new
  <2>4. /\ shape' \in Seq(1..new) /\ Len(shape') = Len(shape)
        /\ \A k \in 1..Len(shape) : shape'[k] = IF k = e THEN new ELSE shape[k]
    BY <2>1, <2>2, <2>3, ExceptSeq
  <2> QED  BY <2>3, <2>4
<1>6. cleared \in Seq(Binding) /\ Len(cleared) = Len(bindings[e])
  <2>1. SlotOf(e, s) \in 1..Len(bindings[e])
    BY <1>1, <1>2 DEF NoSlot
  <2>2. EmptyBinding \in Binding
    BY NilAssumption DEF EmptyBinding, Binding
  <2> QED  BY <1>2, <2>1, <2>2, ExceptSeq
<1>7. /\ bindings' \in Seq(Seq(Binding)) /\ Len(bindings') = Len(parent)
      /\ \A k \in Envs : Len(bindings'[k]) = Len(bindings[k])
  <2> HIDE DEF cleared
  <2> QED  BY <1>1, <1>2, <1>6, ExceptSeq
<1>8. TypeOK'
  BY <1>1, <1>2, <1>4, <1>5, <1>7 DEF EnvIInv, TypeOK, Envs
<1>9. TransitionsSound'
  <2> SUFFICES ASSUME NEW k \in 1..new, NEW u \in Sym,
                      shapes'[k].next[u] # NoShape
               PROVE  /\ shapes'[k].next[u] \in (k + 1)..new
                      /\ shapes'[shapes'[k].next[u]].slots = Extended(shapes'[k], u).slots
                      /\ shapes'[shapes'[k].next[u]].deopt = shapes'[k].deopt
    BY <1>4 DEF TransitionsSound
  <2>1. k \in 1..Len(shapes)
    BY <1>2, <1>3, <1>4 DEF NoTransition
  <2>2. /\ shapes[k].next[u] \in (k + 1)..Len(shapes)
        /\ shapes[shapes[k].next[u]].slots = Extended(shapes[k], u).slots
        /\ shapes[shapes[k].next[u]].deopt = shapes[k].deopt
    BY <1>2, <1>4, <2>1 DEF EnvIInv, TransitionsSound
  <2> DEFINE to == shapes[k].next[u]
  <2>3. Len(shapes) \in Nat
    BY <1>2
  <2>4. to \in 1..Len(shapes) /\ to \in (k + 1)..new
    BY <2>1, <2>2, <2>3
  <2>5. shapes'[k] = shapes[k] /\ shapes'[to] = shapes[to]
    BY <1>4, <2>1, <2>4
  <2> HIDE DEF new
  <2> QED  BY <2>2, <2>4, <2>5
<1>10. SlotsBacked'
  <2> SUFFICES ASSUME NEW k \in Envs, NEW u \in Sym
               PROVE  shapes'[shape'[k]].slots[u] <= Len(bindings'[k])
    BY <1>1 DEF SlotsBacked, SlotOf, Envs
  <2>1. shapes[shape[k]].slots[u] <= Len(bindings[k])
    BY <1>2 DEF SlotOf
  <2>2. Len(bindings'[k]) = Len(bindings[k]) /\ Len(bindings[k]) \in Nat
    BY <1>2, <1>7
  <2>3. CASE k = e
    <3>1. shapes'[shape'[k]] = Without(from, s)
      BY <1>4, <1>5, <2>3
    <3>2. Without(from, s).slots[u] \in {0, shapes[shape[k]].slots[u]}
      BY <1>3, <2>3 DEF NoSlot
    <3> HIDE DEF from
    <3> QED  BY <2>1, <2>2, <3>1, <3>2
  <2>4. CASE k # e
    <3>1. shape[k] \in 1..Len(shapes) /\ shape'[k] = shape[k]
      BY <1>2, <1>5, <2>4
    <3> QED  BY <1>4, <2>1, <2>2, <3>1
  <2> QED  BY <2>3, <2>4
<1>11. RootEmpty'
  BY <1>2, <1>4 DEF EnvIInv, RootEmpty
<1>12. \A k \in Envs : shape'[k] >= shape[k] /\ (shape'[k] = shape[k] => k # e)
  <2> SUFFICES ASSUME NEW k \in Envs
               PROVE  shape'[k] >= shape[k] /\ (shape'[k] = shape[k] => k # e)
    OBVIOUS
  <2>1. shape[k] \in 1..Len(shapes) /\ Len(shapes) \in Nat
    BY <1>2
  <2>2. shape'[k] = IF k = e THEN new ELSE shape[k]
    BY <1>5
  <2> QED  BY <2>1, <2>2
<1>13. \A k \in Envs \ {e} : bindings'[k] = bindings[k]
  BY <1>1, <1>2
<1>14. StepKeeps
  BY <1>1, <1>2, <1>4, <1>12, <1>13 DEF StepKeeps, Envs
<1> QED  BY <1>8, <1>9, <1>10, <1>11, <1>14 DEF EnvIInv

LEMMA ApiStep ==
  ASSUME EnvIInv, ApiNext
  PROVE  EnvIInv' /\ StepKeeps
<1>1. {Base, Global} \subseteq Envs /\ RunEnvs \subseteq Envs
  BY EnvTypes DEF EnvIInv, Base, Global, RunEnvs
<1>2. CASE \E e \in Envs, s \in Sym, v \in Val : define(e, s, v)
  BY <1>2, DefineStep
<1>3. CASE \E e \in Envs, s \in Sym, v \in Val : set_existing(e, s, v)
  BY <1>1, <1>3, SetExistingStep
<1>4. CASE \E p \in Envs : NewEnvironment(p)
  BY <1>1, <1>4, NewEnvironmentStep
<1>5. CASE \E e \in Envs, s \in Sym : remove(e, s)
  BY <1>5, RemoveStep
<1> QED  BY <1>1, <1>2, <1>3, <1>4, <1>5 DEF ApiNext, EnvNext, slow_set_super

LEMMA EnvStuttering ==
  ASSUME EnvIInv, UNCHANGED envVars
  PROVE  EnvIInv'
  BY DEF EnvIInv, TypeOK, Envs, TransitionsSound, SlotsBacked, SlotOf, RootEmpty,
         envVars

\* Whatever the callers of class Environment do, remove included, the table
\* remembers only correct transitions and no binding vector is ever indexed
\* out of range.
THEOREM EnvironmentsSound ==
  ApiSpec => [](TypeOK /\ TransitionsSound /\ SlotsBacked)
<1>1. EnvIInv /\ [ApiNext]_envVars => EnvIInv'
  BY ApiStep, EnvStuttering
<1>2. EnvIInv => TypeOK /\ TransitionsSound /\ SlotsBacked
  BY DEF EnvIInv
<1> QED  BY EnvInitial, <1>1, <1>2, PTL DEF ApiSpec

\* The types are right, ...
THEOREM EnvironmentTypes == ApiSpec => []TypeOK
<1>1. TypeOK /\ TransitionsSound /\ SlotsBacked => TypeOK
  OBVIOUS
<1> QED  BY EnvironmentsSound, <1>1, PTL

\* ... and bindings_[slot] never indexes past the end of the vector.
THEOREM BindingsInRange == ApiSpec => []SlotsBacked
<1>1. TypeOK /\ TransitionsSound /\ SlotsBacked => SlotsBacked
  OBVIOUS
<1> QED  BY EnvironmentsSound, <1>1, PTL

\* An environment never returns to a shape it has left.
THEOREM ShapesAdvance ==
  ApiSpec => ShapesOnlyAdvance
<1>1. EnvIInv /\ [ApiNext]_envVars => EnvIInv'
  BY ApiStep, EnvStuttering
<1>2. EnvIInv /\ [ApiNext]_envVars =>
        [\A e \in Envs : shape'[e] >= shape[e]]_envVars
  BY ApiStep DEF StepKeeps
<1> QED  BY EnvInitial, <1>1, <1>2, PTL DEF ApiSpec, ShapesOnlyAdvance

\* What compiled programs do is a part of what the interface allows, so both
\* theorems hold of them.
THEOREM ProgramsUseTheInterface ==
  EnvSpec => ApiSpec
<1>1. [EnvNext]_envVars => [ApiNext]_envVars
  BY DEF ApiNext
<1> QED  BY <1>1, PTL DEF EnvSpec, ApiSpec

-----------------------------------------------------------------------------
(***************************************************************************)
(* Shapes without remove                                                   *)
(***************************************************************************)

\* SlotsDense and ShapesInterned, of any table, and what they need: a
\* transition leads only from shapes without the symbol, and every shape but
\* the root, which is empty, is where some transition leads.
TableDense(table) ==
  \A sh \in DOMAIN table :
    LET slots == table[sh].slots
    IN  /\ \A s \in Keys(slots) : slots[s] <= Size(slots)
        /\ \A s, t \in Keys(slots) : slots[s] = slots[t] => s = t

TableOnce(table) ==
  \A j, k \in DOMAIN table : table[j].slots = table[k].slots => j = k

TableReached(table) ==
  /\ Len(table) > 0
  /\ \A s \in Sym : table[1].slots[s] = NoSlot
  /\ \A k \in DOMAIN table, s \in Sym :
       table[k].next[s] # NoShape => table[k].slots[s] = NoSlot
  /\ \A k \in DOMAIN table : k # 1 =>
       \E j \in DOMAIN table, s \in Sym : table[j].next[s] = k

TableInterned(table) ==
  TableSound(table) /\ TableDense(table) /\ TableOnce(table) /\ TableReached(table)

\* The table transition_add leaves when it makes a shape.
Grown(table, sh, s) ==
  LET new == Len(table) + 1
  IN  Append([table EXCEPT ![sh].next[s] = new], Extended(table[sh], s))

LEMMA GrownTable ==
  ASSUME NEW table \in Seq(Shape), NEW sh \in 1..Len(table), NEW s \in Sym,
         NEW new, new = Len(table) + 1,
         NEW grown, grown = Grown(table, sh, s)
  PROVE  /\ DOMAIN table = 1..Len(table) /\ Len(table) \in Nat
         /\ \A k \in 1..Len(table) : table[k] \in Shape
         /\ grown \in Seq(Shape) /\ Len(grown) = new /\ DOMAIN grown = 1..new
         /\ grown[new] = Extended(table[sh], s)
         /\ \A k \in 1..Len(table) :
              /\ grown[k].slots = table[k].slots
              /\ \A u \in Sym : grown[k].next[u] = IF k = sh /\ u = s THEN new ELSE table[k].next[u]
<1> DEFINE changed == [table[sh] EXCEPT !.next[s] = new]
<1>1. /\ Len(table) \in Nat /\ DOMAIN table = 1..Len(table)
      /\ \A k \in 1..Len(table) : table[k] \in Shape
  BY LenProperties, ElementOfSeq
<1>2. /\ changed \in Shape /\ changed.slots = table[sh].slots
      /\ \A u \in Sym : changed.next[u] = IF u = s THEN new ELSE table[sh].next[u]
  <2>1. new \in Nat /\ table[sh] \in Shape
    BY <1>1
  <2>2. [table[sh].next EXCEPT ![s] = new] \in [Sym -> Nat]
    BY <2>1 DEF Shape
  <2> QED  BY <2>1, <2>2 DEF Shape
<1> DEFINE marked == [table EXCEPT ![sh] = changed]
<1>3. grown = Append(marked, Extended(table[sh], s))
  BY DEF Grown
<1> HIDE DEF changed
<1>4. /\ marked \in Seq(Shape) /\ Len(marked) = Len(table)
      /\ \A k \in 1..Len(table) : marked[k] = IF k = sh THEN changed ELSE table[k]
  <2>1. changed \in Shape
    BY <1>2
  <2> QED  BY <2>1, ExceptSeq
<1>5. Extended(table[sh], s) \in Shape
  BY <1>1, ExtendedType
<1> HIDE DEF marked
<1> DEFINE last == Extended(table[sh], s)
<1>6. /\ grown \in Seq(Shape) /\ Len(grown) = new /\ DOMAIN grown = 1..new
      /\ grown[new] = last
      /\ \A k \in 1..Len(table) : grown[k] = marked[k]
  <2>1. grown = Append(marked, last) /\ last \in Shape
    BY <1>3, <1>5
  <2> HIDE DEF last
  <2>2. grown \in Seq(Shape) /\ Len(grown) = Len(marked) + 1
    BY <1>4, <2>1
  <2>3. /\ grown[Len(marked) + 1] = last
        /\ \A k \in 1..Len(marked) : grown[k] = marked[k]
    BY <1>4, <2>1
  <2> QED  BY <1>4, <2>2, <2>3
<1> QED  BY <1>1, <1>2, <1>4, <1>6

\* One symbol more, one slot more.
LEMMA ExtendedSize ==
  ASSUME NEW from \in Shape, NEW s \in Sym, from.slots[s] = NoSlot
  PROVE  /\ Size(from.slots) \in Nat
         /\ Size(Extended(from, s).slots) = Size(from.slots) + 1
         /\ Keys(Extended(from, s).slots) = Keys(from.slots) \cup {s}
         /\ s \notin Keys(from.slots)
<1>1. /\ Keys(Extended(from, s).slots) = Keys(from.slots) \cup {s}
      /\ s \notin Keys(from.slots)
  BY ExtendedType DEF Keys
<1>2. IsFiniteSet(Keys(from.slots))
  <2>1. Keys(from.slots) \in SUBSET Sym
    BY DEF Keys
  <2> QED  BY <2>1, SymAssumption, FS_Subset
<1>3. Size(from.slots) \in Nat
  BY <1>2, FS_CardinalityType DEF Size
<1>4. Cardinality(Keys(from.slots) \cup {s}) = Cardinality(Keys(from.slots)) + 1
  BY <1>1, <1>2, FS_AddElement
<1> QED  BY <1>1, <1>3, <1>4 DEF Size

\* A transition that is not remembered leads to a map that no shape has.
LEMMA MapIsNew ==
  ASSUME NEW table \in Seq(Shape), TableInterned(table),
         NEW sh \in 1..Len(table), NEW s \in Sym,
         table[sh].next[s] = NoShape, table[sh].slots[s] = NoSlot,
         NEW k \in 1..Len(table)
  PROVE  table[k].slots # Extended(table[sh], s).slots
<1> SUFFICES ASSUME table[k].slots = Extended(table[sh], s).slots PROVE FALSE
  OBVIOUS
<1>1. /\ Len(table) \in Nat /\ DOMAIN table = 1..Len(table)
      /\ \A i \in 1..Len(table) : table[i] \in Shape
  BY LenProperties, ElementOfSeq
<1>2. table[k].slots[s] = Size(table[sh].slots) + 1 /\ table[k].slots[s] # NoSlot
  BY <1>1, ExtendedType
<1>3. k # 1
  BY <1>2 DEF TableInterned, TableReached
<1>4. PICK j \in 1..Len(table), u \in Sym : table[j].next[u] = k
  BY <1>1, <1>3 DEF TableInterned, TableReached
<1>5. /\ table[k].slots = Extended(table[j], u).slots
      /\ table[j].slots[u] = NoSlot
  <2>1. table[j].next[u] # NoShape
    BY <1>1, <1>4 DEF NoShape
  <2> QED  BY <1>1, <1>4, <2>1 DEF TableInterned, TableReached, TableSound
<1>6. /\ Size(table[j].slots) \in Nat /\ Size(table[sh].slots) \in Nat
      /\ Size(table[k].slots) = Size(table[j].slots) + 1
      /\ Size(table[k].slots) = Size(table[sh].slots) + 1
  BY <1>1, <1>5, ExtendedSize
<1>7. u = s
  <2> SUFFICES ASSUME u # s PROVE FALSE
    OBVIOUS
  <2>1. table[j].slots[s] = table[k].slots[s]
    BY <1>1, <1>5, ExtendedType
  <2>2. table[j].slots[s] <= Size(table[j].slots)
    BY <1>1, <1>2, <2>1 DEF TableInterned, TableDense, Keys
  <2> QED  BY <1>2, <1>6, <2>1, <2>2
<1>8. table[j].slots = table[sh].slots
  <2>1. table[j] \in Shape /\ table[sh] \in Shape
    BY <1>1
  <2>2. \A t \in Sym \ {s} : table[j].slots[t] = table[sh].slots[t]
    <3>1. \A t \in Sym \ {s} : table[k].slots[t] = table[j].slots[t]
      BY <1>5, <1>7, <2>1, ExtendedType
    <3>2. \A t \in Sym \ {s} : table[k].slots[t] = table[sh].slots[t]
      BY <2>1, ExtendedType
    <3> QED  BY <3>1, <3>2
  <2>3. table[j].slots[s] = table[sh].slots[s]
    BY <1>5, <1>7
  <2>4. table[j].slots \in [Sym -> Nat] /\ table[sh].slots \in [Sym -> Nat]
    BY <2>1 DEF Shape
  <2>5. \A t \in Sym : table[j].slots[t] = table[sh].slots[t]
    BY <2>2, <2>3
  <2> QED  BY <2>4, <2>5
<1>9. j = sh
  BY <1>1, <1>8 DEF TableInterned, TableOnce
<1> QED  BY <1>1, <1>4, <1>7, <1>9 DEF NoShape

LEMMA TransitionAddInterned ==
  ASSUME NEW table \in Seq(Shape), TableInterned(table),
         NEW sh \in 1..Len(table), NEW s \in Sym,
         NEW t, t = TransitionAdd(table, sh, s)
  PROVE  TableInterned(t.table)
<1> DEFINE new == Len(table) + 1
           grown == Grown(table, sh, s)
<1>1. CASE ~(table[sh].next[s] = NoShape /\ table[sh].slots[s] = NoSlot)
  BY <1>1 DEF TransitionAdd
<1>2. CASE table[sh].next[s] = NoShape /\ table[sh].slots[s] = NoSlot
  <2>1. t.table = grown
    BY <1>2 DEF TransitionAdd, Grown
  <2>2. TableSound(grown)
    <3>1. TableSound(table)
      BY DEF TableInterned
    <3>2. AddResult(table, sh, s, t)
      BY <3>1, TransitionAddSound
    <3> QED  BY <2>1, <3>2 DEF AddResult
  <2>3. new = Len(table) + 1
    OBVIOUS
  <2> HIDE DEF new
  <2>4. /\ DOMAIN table = 1..Len(table) /\ Len(table) \in Nat
        /\ \A k \in 1..Len(table) : table[k] \in Shape
        /\ grown \in Seq(Shape) /\ Len(grown) = new /\ DOMAIN grown = 1..new
        /\ grown[new] = Extended(table[sh], s)
        /\ \A k \in 1..Len(table) :
             /\ grown[k].slots = table[k].slots
             /\ \A u \in Sym : grown[k].next[u] = IF k = sh /\ u = s THEN new ELSE table[k].next[u]
    BY <2>3, GrownTable
  <2> HIDE DEF grown
  <2>5. \A k \in 1..new : k = new \/ k \in 1..Len(table)
    BY <2>3, <2>4
  <2>6. new \in Nat \ {0, 1} /\ 1 \in 1..Len(table) /\ \A k \in 1..Len(table) : k # new /\ k \in 1..new
    BY <2>3, <2>4 DEF TableInterned, TableReached
  <2> DEFINE from == table[sh]
             more == Extended(from, s)
  <2>7. from \in Shape /\ from.slots[s] = NoSlot
    BY <1>2, <2>4
  <2>8. TableDense(grown)
    <3> SUFFICES ASSUME NEW k \in 1..new
                 PROVE  LET slots == grown[k].slots
                        IN  /\ \A u \in Keys(slots) : slots[u] <= Size(slots)
                            /\ \A u, w \in Keys(slots) : slots[u] = slots[w] => u = w
      BY <2>4 DEF TableDense
    <3>1. CASE k \in 1..Len(table)
      BY <2>4, <3>1 DEF TableInterned, TableDense
    <3>2. CASE k = new
      <4> HIDE DEF from
      <4>1. /\ Size(from.slots) \in Nat /\ Size(more.slots) = Size(from.slots) + 1
            /\ Keys(more.slots) = Keys(from.slots) \cup {s} /\ s \notin Keys(from.slots)
        BY <2>7, ExtendedSize
      <4>2. /\ more.slots[s] = Size(from.slots) + 1
            /\ \A u \in Keys(from.slots) : more.slots[u] = from.slots[u] /\ from.slots[u] \in Nat
        BY <2>7, <4>1, ExtendedType DEF Keys, Shape
      <4>3. /\ \A u \in Keys(from.slots) : from.slots[u] <= Size(from.slots)
            /\ \A u, w \in Keys(from.slots) : from.slots[u] = from.slots[w] => u = w
        BY <2>4 DEF TableInterned, TableDense, from
      <4>4. grown[k].slots = more.slots
        BY <2>4, <3>2 DEF from
      <4> HIDE DEF more
      <4>5. \A u \in Keys(more.slots) : more.slots[u] <= Size(more.slots)
        BY <4>1, <4>2, <4>3
      <4>6. \A u, w \in Keys(more.slots) : more.slots[u] = more.slots[w] => u = w
        BY <4>1, <4>2, <4>3
      <4> QED  BY <4>4, <4>5, <4>6
    <3> QED  BY <2>5, <3>1, <3>2
  <2>9. TableOnce(grown)
    <3>1. \A k \in 1..Len(table) : grown[k].slots # grown[new].slots
      BY <1>2, <2>4, MapIsNew
    <3>2. \A j, k \in 1..Len(table) : grown[j].slots = grown[k].slots => j = k
      BY <2>4 DEF TableInterned, TableOnce
    <3> QED  BY <2>4, <2>5, <3>1, <3>2 DEF TableOnce
  <2>10. TableReached(grown)
    <3>1. Len(grown) > 0 /\ \A u \in Sym : grown[1].slots[u] = NoSlot
      BY <2>4, <2>6 DEF TableInterned, TableReached
    <3>2. ASSUME NEW k \in 1..new, NEW u \in Sym, grown[k].next[u] # NoShape
          PROVE  grown[k].slots[u] = NoSlot
      <4>1. CASE k = new
        BY <2>4, <2>7, <3>2, <4>1, ExtendedType DEF NoTransition
      <4>2. CASE k \in 1..Len(table)
        BY <1>2, <2>4, <3>2, <4>2 DEF TableInterned, TableReached
      <4> QED  BY <2>5, <4>1, <4>2
    <3>3. ASSUME NEW k \in 1..new, k # 1
          PROVE  \E j \in 1..new, u \in Sym : grown[j].next[u] = k
      <4>1. CASE k = new
        BY <2>4, <2>6, <4>1
      <4>2. CASE k \in 1..Len(table)
        <5>1. PICK j \in 1..Len(table), u \in Sym : table[j].next[u] = k
          BY <2>4, <3>3, <4>2 DEF TableInterned, TableReached
        <5>2. ~(j = sh /\ u = s)
          BY <1>2, <4>2, <5>1 DEF NoShape
        <5> QED  BY <2>4, <2>6, <5>1, <5>2
      <4> QED  BY <2>5, <4>1, <4>2
    <3> QED  BY <2>4, <3>1, <3>2, <3>3 DEF TableReached
  <2> QED  BY <2>1, <2>2, <2>8, <2>9, <2>10 DEF TableInterned
<1> QED  BY <1>1, <1>2
LEMMA DefinedInterned ==
  ASSUME NEW table \in Seq(Shape), TableInterned(table),
         NEW sh \in 1..Len(table), NEW bs, NEW s \in Sym, NEW v,
         NEW d, d = Defined(table, sh, bs, s, v)
  PROVE  TableInterned(d.table)
<1>1. CASE table[sh].slots[s] # NoSlot
  BY <1>1 DEF Defined
<1>2. CASE table[sh].slots[s] = NoSlot
  <2> DEFINE t == TransitionAdd(table, sh, s)
  <2>1. d.table = t.table
    BY <1>2 DEF Defined
  <2>2. TableInterned(t.table)
    BY TransitionAddInterned
  <2> QED  BY <2>1, <2>2
<1> QED  BY <1>1, <1>2

\* Slots of an interned table do not collide.
LEMMA SlotsDiffer ==
  ASSUME NEW table \in Seq(Shape), TableInterned(table), NEW sh \in 1..Len(table),
         NEW s \in Sym, NEW u \in Sym, s # u, table[sh].slots[s] # NoSlot
  PROVE  table[sh].slots[s] # table[sh].slots[u]
<1>1. DOMAIN table = 1..Len(table)
  BY LenProperties
<1> QED  BY <1>1 DEF TableInterned, TableDense, Keys

-----------------------------------------------------------------------------
(***************************************************************************)
(* What programs do, remove left out: shapes are interned, and a slot is a *)
(* binding.                                                                *)
(***************************************************************************)

EnvRunInv == EnvIInv /\ TableInterned(shapes) /\ SlotsBound

\* What e binds s to, when a slot is a binding.
BoundTo(e, s) ==
  IF SlotOf(e, s) # NoSlot THEN bindings[e][SlotOf(e, s)].value ELSE Unbound

\* A step that binds s to v in e and nothing else.
Binds(e, s, v) ==
  /\ UNCHANGED parent
  /\ \A k \in Envs, u \in Sym :
       BoundTo(k, u)' = IF k = e /\ u = s THEN v ELSE BoundTo(k, u)

LEMMA RunInitial == EnvInit => EnvRunInv
<1> SUFFICES ASSUME EnvInit PROVE EnvRunInv
  OBVIOUS
<1>1. EnvIInv
  BY EnvInitial
<1>2. /\ Len(shapes) = 1 /\ DOMAIN shapes = {1}
      /\ \A s \in Sym : shapes[1].slots[s] = NoSlot /\ shapes[1].next[s] = NoShape
  BY DEF EnvInit, EmptyShape, NoTransition
<1>3. TableSound(shapes)
  BY <1>1 DEF EnvIInv, TransitionsSound, TableSound
<1>4. TableDense(shapes) /\ TableOnce(shapes) /\ TableReached(shapes)
  BY <1>2 DEF TableDense, TableOnce, TableReached, Keys
<1>5. SlotsBound
  <2>1. \A e \in Envs : shape[e] = 1
    BY DEF EnvInit, Envs
  <2> QED  BY <1>2, <2>1 DEF SlotsBound, SlotOf
<1> QED  BY <1>1, <1>3, <1>4, <1>5 DEF EnvRunInv, TableInterned

LEMMA DefineBinds ==
  ASSUME EnvRunInv, NEW e \in Envs, NEW s \in Sym, NEW v \in Val, define(e, s, v)
  PROVE  EnvRunInv' /\ Binds(e, s, v)
<1> DEFINE d == Defined(shapes, shape[e], bindings[e], s, v)
           slots == d.table[d.shape].slots
<1>1. /\ shapes' = d.table
      /\ shape' = [shape EXCEPT ![e] = d.shape]
      /\ bindings' = [bindings EXCEPT ![e] = d.bindings]
      /\ parent' = parent
  BY DEF define
<1>2. /\ Len(shapes) \in Nat \ {0} /\ DOMAIN shapes = 1..Len(shapes)
      /\ Envs = 1..Len(parent) /\ Len(shape) = Len(parent)
      /\ Len(bindings) = Len(parent) /\ Len(parent) \in Nat
      /\ \A k \in Envs : /\ shape[k] \in 1..Len(shapes)
                         /\ bindings[k] \in Seq(Binding)
                         /\ Len(bindings[k]) \in Nat
      /\ \A k \in Envs, u \in Sym : SlotOf(k, u) \in Nat /\ SlotOf(k, u) <= Len(bindings[k])
      /\ shapes \in Seq(Shape)
  BY EnvTypes DEF EnvRunInv, EnvIInv, TypeOK, SlotsBacked
<1>3. TableSound(shapes) /\ Backed(shapes[shape[e]].slots, bindings[e])
  BY DEF EnvRunInv, Backed, EnvIInv, TypeOK, TransitionsSound, TableSound, SlotsBacked, SlotOf
<1>4. DefineResult(shapes, shape[e], bindings[e], s, v, d)
  BY <1>2, <1>3, DefinedSound
<1>5. TableInterned(d.table)
  BY <1>2, DefinedInterned DEF EnvRunInv
<1>6. EnvIInv'
  BY DefineStep DEF EnvRunInv
<1> HIDE DEF d
<1>7. /\ d.shape \in 1..Len(d.table) /\ d.table \in Seq(Shape)
      /\ slots[s] # NoSlot
      /\ \A u \in Sym \ {s} : slots[u] = SlotOf(e, u)
      /\ d.bindings[slots[s]] = [state |-> "kValue", value |-> v]
      /\ \A k \in 1..Len(bindings[e]) : k # slots[s] => d.bindings[k] = bindings[e][k]
      /\ \A k \in 1..Len(shapes) : d.table[k].slots = shapes[k].slots
  BY <1>2, <1>4, LenProperties DEF DefineResult, SlotOf
<1>8. \A u \in Sym \ {s} : slots[u] # slots[s]
  BY <1>5, <1>7, SlotsDiffer
<1>9. /\ shape'[e] = d.shape /\ bindings'[e] = d.bindings
      /\ \A k \in Envs \ {e} : shape'[k] = shape[k] /\ bindings'[k] = bindings[k]
  <2>1. DOMAIN shape = Envs /\ DOMAIN bindings = Envs
    BY <1>2, LenProperties DEF EnvRunInv, EnvIInv, TypeOK
  <2> QED  BY <1>1, <2>1
<1>10. \A u \in Sym : SlotOf(e, u)' = slots[u]
  BY <1>1, <1>9 DEF SlotOf
<1>11. \A k \in Envs \ {e}, u \in Sym : SlotOf(k, u)' = SlotOf(k, u)
  BY <1>1, <1>2, <1>7, <1>9 DEF SlotOf
<1> HIDE DEF slots
<1>12. ASSUME NEW u \in Sym \ {s}, SlotOf(e, u) # NoSlot
       PROVE  d.bindings[SlotOf(e, u)] = bindings[e][SlotOf(e, u)]
  <2>1. SlotOf(e, u) \in 1..Len(bindings[e])
    BY <1>2, <1>12 DEF NoSlot
  <2> QED  BY <1>7, <1>8, <2>1
<1>13. SlotsBound'
  <2> SUFFICES ASSUME NEW k \in Envs, NEW u \in Sym, SlotOf(k, u)' # NoSlot
               PROVE  bindings'[k][SlotOf(k, u)'].state = "kValue"
    BY <1>1 DEF SlotsBound, Envs
  <2>1. CASE k = e /\ u = s
    BY <1>7, <1>9, <1>10, <2>1
  <2>2. CASE k = e /\ u # s
    BY <1>7, <1>9, <1>10, <1>12, <2>2 DEF EnvRunInv, SlotsBound
  <2>3. CASE k # e
    BY <1>9, <1>11, <2>3 DEF EnvRunInv, SlotsBound
  <2> QED  BY <2>1, <2>2, <2>3
<1>14. ASSUME NEW k \in Envs, NEW u \in Sym
       PROVE  BoundTo(k, u)' = IF k = e /\ u = s THEN v ELSE BoundTo(k, u)
  <2>1. CASE k = e /\ u = s
    BY <1>7, <1>9, <1>10, <2>1 DEF BoundTo
  <2>2. CASE k = e /\ u # s
    BY <1>7, <1>9, <1>10, <1>12, <2>2 DEF BoundTo
  <2>3. CASE k # e
    BY <1>9, <1>11, <2>3 DEF BoundTo
  <2> QED  BY <2>1, <2>2, <2>3
<1>15. TableInterned(shapes)'
  BY <1>1, <1>5
<1> QED  BY <1>1, <1>6, <1>13, <1>14, <1>15 DEF EnvRunInv, Binds

LEMMA SetExistingBinds ==
  ASSUME EnvRunInv, NEW e \in Envs, NEW s \in Sym, NEW v \in Val, set_existing(e, s, v)
  PROVE  EnvRunInv' /\ Binds(Nearest(parent, Slotted(s), e), s, v)
<1> DEFINE b == Nearest(parent, Slotted(s), e)
           new == [bindings[b] EXCEPT ![SlotOf(b, s)] = [state |-> "kValue", value |-> v]]
<1>1. /\ b \in Slotted(s)
      /\ bindings' = [bindings EXCEPT ![b] = new]
      /\ UNCHANGED <<shapes, parent, shape>>
  BY DEF set_existing
<1> HIDE DEF b
<1>2. /\ b \in Envs /\ SlotOf(b, s) # NoSlot
      /\ \A k \in Envs, u \in Sym : SlotOf(k, u) \in Nat /\ SlotOf(k, u) <= Len(bindings[k])
      /\ bindings[b] \in Seq(Binding) /\ Len(bindings[b]) \in Nat
      /\ Envs = 1..Len(bindings) /\ bindings \in Seq(Seq(Binding))
      /\ shape[b] \in 1..Len(shapes) /\ shapes \in Seq(Shape)
  BY <1>1, EnvTypes DEF Slotted, EnvRunInv, EnvIInv, SlotsBacked, TypeOK
<1>3. /\ new[SlotOf(b, s)] = [state |-> "kValue", value |-> v]
      /\ \A k \in 1..Len(bindings[b]) : k # SlotOf(b, s) => new[k] = bindings[b][k]
  BY <1>2 DEF NoSlot
<1> HIDE DEF new
<1>4. \A k \in Envs : bindings'[k] = IF k = b THEN new ELSE bindings[k]
  BY <1>1, <1>2
<1>5. \A k \in Envs, u \in Sym : SlotOf(k, u)' = SlotOf(k, u)
  BY <1>1 DEF SlotOf
<1>6. ASSUME NEW u \in Sym \ {s}, SlotOf(b, u) # NoSlot
      PROVE  new[SlotOf(b, u)] = bindings[b][SlotOf(b, u)]
  <2>1. SlotOf(b, u) \in 1..Len(bindings[b])
    BY <1>2, <1>6 DEF NoSlot
  <2>2. SlotOf(b, u) # SlotOf(b, s)
    BY <1>2, <1>6, SlotsDiffer DEF SlotOf, EnvRunInv
  <2> QED  BY <1>3, <2>1, <2>2
<1>7. SlotsBound'
  <2> SUFFICES ASSUME NEW k \in Envs, NEW u \in Sym, SlotOf(k, u) # NoSlot
               PROVE  bindings'[k][SlotOf(k, u)].state = "kValue"
    BY <1>1, <1>5 DEF SlotsBound, Envs
  <2>1. CASE k = b /\ u = s
    BY <1>3, <1>4, <2>1
  <2>2. CASE k = b /\ u # s
    BY <1>4, <1>6, <2>2 DEF EnvRunInv, SlotsBound
  <2>3. CASE k # b
    BY <1>4, <2>3 DEF EnvRunInv, SlotsBound
  <2> QED  BY <2>1, <2>2, <2>3
<1>8. ASSUME NEW k \in Envs, NEW u \in Sym
      PROVE  BoundTo(k, u)' = IF k = b /\ u = s THEN v ELSE BoundTo(k, u)
  <2>1. CASE k = b /\ u = s
    BY <1>2, <1>3, <1>4, <1>5, <2>1 DEF BoundTo
  <2>2. CASE k = b /\ u # s
    BY <1>4, <1>5, <1>6, <2>2 DEF BoundTo
  <2>3. CASE k # b
    BY <1>4, <1>5, <2>3 DEF BoundTo
  <2> QED  BY <2>1, <2>2, <2>3
<1>9. EnvIInv' /\ TableInterned(shapes)'
  BY <1>1, SetExistingStep DEF EnvRunInv
<1> QED  BY <1>1, <1>7, <1>8, <1>9 DEF EnvRunInv, Binds, b

LEMMA NewEnvironmentBinds ==
  ASSUME EnvRunInv, NEW p \in Envs, NewEnvironment(p)
  PROVE  /\ EnvRunInv'
         /\ Len(parent) < MaxEnvs /\ parent' = Append(parent, p)
         /\ \A k \in Envs', u \in Sym :
              BoundTo(k, u)' = IF k \in Envs THEN BoundTo(k, u) ELSE Unbound
<1>1. /\ shapes' = shapes
      /\ parent' = Append(parent, p)
      /\ shape' = Append(shape, 1)
      /\ bindings' = Append(bindings, <<>>)
      /\ Len(parent) < MaxEnvs
  BY DEF NewEnvironment
<1>2. /\ Len(parent) \in Nat /\ Envs = 1..Len(parent)
      /\ Len(shape) = Len(parent) /\ Len(bindings) = Len(parent)
  BY EnvTypes DEF EnvRunInv, EnvIInv
<1>3. /\ parent \in Seq(Nat) /\ shape \in Seq(1..Len(shapes))
      /\ bindings \in Seq(Seq(Binding))
  BY DEF EnvRunInv, EnvIInv, TypeOK
<1>4. Envs' = 1..(Len(parent) + 1)
  BY <1>1, <1>2, <1>3 DEF Envs
<1>5. /\ \A e \in Envs : shape'[e] = shape[e] /\ bindings'[e] = bindings[e]
      /\ shape'[Len(parent) + 1] = 1
  <2>1. <<>> \in Seq(Binding) /\ 1 \in 1..Len(shapes)
    BY EnvTypes DEF EnvRunInv, EnvIInv
  <2>2. /\ \A e \in 1..Len(shape) : shape'[e] = shape[e]
        /\ shape'[Len(shape) + 1] = 1
    BY <1>1, <1>3, <2>1, AppendProperties
  <2>3. \A e \in 1..Len(bindings) : bindings'[e] = bindings[e]
    BY <1>1, <1>3, <2>1, AppendProperties
  <2> QED  BY <1>2, <2>2, <2>3
<1>6. \A k \in Envs', u \in Sym :
        SlotOf(k, u)' = IF k \in Envs THEN SlotOf(k, u) ELSE NoSlot
  <2> SUFFICES ASSUME NEW k \in Envs', NEW u \in Sym
               PROVE  SlotOf(k, u)' = IF k \in Envs THEN SlotOf(k, u) ELSE NoSlot
    OBVIOUS
  <2>1. CASE k \in Envs
    BY <1>1, <1>5, <2>1 DEF SlotOf
  <2>2. CASE k \notin Envs
    <3>1. shape'[k] = 1
      BY <1>2, <1>4, <1>5, <2>2
    <3> QED  BY <1>1, <2>2, <3>1 DEF SlotOf, EnvRunInv, EnvIInv, RootEmpty
  <2> QED  BY <2>1, <2>2
<1>7. SlotsBound'
  <2> SUFFICES ASSUME NEW k \in Envs', NEW u \in Sym, SlotOf(k, u)' # NoSlot
               PROVE  bindings'[k][SlotOf(k, u)'].state = "kValue"
    BY DEF SlotsBound
  <2>1. k \in Envs /\ SlotOf(k, u)' = SlotOf(k, u)
    BY <1>6
  <2> QED  BY <1>5, <2>1 DEF EnvRunInv, SlotsBound
<1>8. \A k \in Envs', u \in Sym :
        BoundTo(k, u)' = IF k \in Envs THEN BoundTo(k, u) ELSE Unbound
  BY <1>5, <1>6 DEF BoundTo
<1>9. EnvIInv' /\ TableInterned(shapes)'
  BY <1>1, NewEnvironmentStep DEF EnvRunInv
<1> QED  BY <1>1, <1>7, <1>8, <1>9 DEF EnvRunInv

LEMMA RunStep ==
  ASSUME EnvRunInv, EnvNext
  PROVE  EnvRunInv'
<1>1. {Base, Global} \subseteq Envs /\ RunEnvs \subseteq Envs
  BY EnvTypes DEF EnvRunInv, EnvIInv, Base, Global, RunEnvs
<1>2. CASE \E e \in Envs, s \in Sym, v \in Val : define(e, s, v)
  BY <1>2, DefineBinds
<1>3. CASE \E e \in Envs, s \in Sym, v \in Val : set_existing(e, s, v)
  BY <1>3, SetExistingBinds
<1>4. CASE \E p \in Envs : NewEnvironment(p)
  BY <1>4, NewEnvironmentBinds
<1> QED  BY <1>1, <1>2, <1>3, <1>4 DEF EnvNext, slow_set_super

LEMMA RunStuttering ==
  ASSUME EnvRunInv, UNCHANGED envVars
  PROVE  EnvRunInv'
<1>1. EnvIInv'
  BY EnvStuttering DEF EnvRunInv
<1>2. TableInterned(shapes)' /\ SlotsBound'
  BY DEF EnvRunInv, SlotsBound, SlotOf, Envs, envVars
<1> QED  BY <1>1, <1>2 DEF EnvRunInv

LEMMA RunInvariant == EnvSpec => []EnvRunInv
<1>1. EnvRunInv /\ [EnvNext]_envVars => EnvRunInv'
  BY RunStep, RunStuttering
<1> QED  BY RunInitial, <1>1, PTL DEF EnvSpec

\* Programs never leave a hole between slots nor give two symbols one slot:
\* ShapeTable::transition_add may take slots_.size() for the next slot.
THEOREM SlotsAreDense == EnvSpec => []SlotsDense
<1>1. EnvRunInv => SlotsDense
  BY DEF EnvRunInv, TableInterned, TableDense, SlotsDense
<1> QED  BY RunInvariant, <1>1, PTL

\* Programs make one shape for one slot map: pointers of shapes may be compared
\* for their maps.
THEOREM ShapesAreInterned == EnvSpec => []ShapesInterned
<1>1. EnvRunInv => ShapesInterned
  BY DEF EnvRunInv, TableInterned, TableOnce, ShapesInterned
<1> QED  BY RunInvariant, <1>1, PTL

\* Without remove a slot is a binding: what set_existing finds by the shape
\* alone is what lookup finds by the binding's state.
THEOREM SlotsAreBindings == EnvSpec => []SlotsBound
<1>1. EnvRunInv => SlotsBound
  BY DEF EnvRunInv
<1> QED  BY RunInvariant, <1>1, PTL

-----------------------------------------------------------------------------
(***************************************************************************)
(* The chain of scopes                                                     *)
(***************************************************************************)

\* The abstract maps, read off the slots.
LEMMA ValuesAre ==
  ASSUME EnvRunInv
  PROVE  /\ boundValues = [e \in Envs |-> [s \in Sym |-> BoundTo(e, s)]]
         /\ \A s \in Sym : Chain!Binders(s) = Slotted(s)
<1>1. \A e \in Envs, s \in Sym : e \in Visible(s) <=> SlotOf(e, s) # NoSlot
  BY DEF EnvRunInv, SlotsBound, Visible
<1>2. boundValues = [e \in Envs |-> [s \in Sym |-> BoundTo(e, s)]]
  BY <1>1 DEF boundValues, BoundTo
<1>3. \A e \in Envs, s \in Sym : boundValues[e][s] # Unbound <=> SlotOf(e, s) # NoSlot
  <2> SUFFICES ASSUME NEW e \in Envs, NEW s \in Sym
               PROVE  BoundTo(e, s) # Unbound <=> SlotOf(e, s) # NoSlot
    BY <1>2
  <2>1. CASE SlotOf(e, s) = NoSlot
    BY <2>1 DEF BoundTo
  <2>2. CASE SlotOf(e, s) # NoSlot
    <3>1. SlotOf(e, s) \in 1..Len(bindings[e]) /\ bindings[e] \in Seq(Binding)
      BY <2>2, EnvTypes DEF EnvRunInv, EnvIInv, SlotsBacked, NoSlot
    <3>2. bindings[e][SlotOf(e, s)] \in Binding
      BY <3>1, ElementOfSeq
    <3> QED  BY <2>2, <3>2, UnboundAssumption DEF BoundTo, Binding
  <2> QED  BY <2>1, <2>2
<1>4. \A s \in Sym : Chain!Binders(s) = Slotted(s)
  BY <1>3 DEF Chain!Binders, Chain!Envs, Slotted, Envs
<1> QED  BY <1>2, <1>4

\* ... and so after a step.
ValuesRead ==
  /\ boundValues = [e \in Envs |-> [s \in Sym |-> BoundTo(e, s)]]
  /\ \A s \in Sym : Chain!Binders(s) = Slotted(s)

LEMMA ValuesAreNext == EnvRunInv' => ValuesRead'
<1>1. EnvRunInv => ValuesRead
  BY ValuesAre DEF ValuesRead
<1> QED  BY <1>1, PTL

LEMMA BindsDefines ==
  ASSUME EnvRunInv, EnvRunInv', NEW e \in Envs, NEW s \in Sym, NEW v \in Val, Binds(e, s, v)
  PROVE  Chain!ChainDefine(e, s, v)
<1>1. parent' = parent /\ Envs' = Envs
  BY DEF Binds, Envs
<1>2. boundValues = [k \in Envs |-> [u \in Sym |-> BoundTo(k, u)]]
  BY ValuesAre
<1>3. boundValues' = [k \in Envs |-> [u \in Sym |-> BoundTo(k, u)']]
  BY <1>1, ValuesAreNext DEF ValuesRead
<1>4. boundValues' = [k \in Envs |-> [u \in Sym |->
                        IF k = e /\ u = s THEN v ELSE BoundTo(k, u)]]
  BY <1>3 DEF Binds
<1>5. boundValues' = [boundValues EXCEPT ![e] = [boundValues[e] EXCEPT ![s] = v]]
  BY <1>2, <1>4
<1> QED  BY <1>1, <1>5 DEF Chain!ChainDefine

LEMMA DefineMaps ==
  ASSUME EnvRunInv, NEW e \in Envs, NEW s \in Sym, NEW v \in Val, define(e, s, v)
  PROVE  Chain!ChainDefine(e, s, v)
  BY DefineBinds, BindsDefines

\* Both walks stop at the same environments, so they find the same one.
LEMMA SuperMaps ==
  ASSUME EnvRunInv, NEW e \in Envs, NEW s \in Sym, NEW v \in Val, slow_set_super(e, s, v)
  PROVE  Chain!ChainSuper(e, s, v)
<1> DEFINE b == Nearest(parent, Slotted(s), e)
<1>1. Chain!Nearest(parent, Chain!Binders(s), e) = b /\ Chain!Binders(s) = Slotted(s)
  <2>1. Chain!Binders(s) = Slotted(s)
    BY ValuesAre
  <2>2. Chain!Nearest(parent, Slotted(s), e) = b
    BY DEF Chain!Nearest, Nearest, Chain!NoEnv, NoEnv
  <2> QED  BY <2>1, <2>2
<1> HIDE DEF b
<1>2. CASE b \in Slotted(s)
  <2>1. set_existing(e, s, v)
    BY <1>2 DEF slow_set_super, b
  <2>2. EnvRunInv' /\ Binds(b, s, v) /\ b \in Envs
    BY <1>2, <2>1, SetExistingBinds DEF b, Slotted
  <2>3. Chain!ChainDefine(b, s, v)
    BY <2>2, BindsDefines
  <2> QED  BY <1>1, <1>2, <2>3 DEF Chain!ChainSuper
<1>3. CASE b \notin Slotted(s)
  <2>1. define(Global, s, v)
    BY <1>3 DEF slow_set_super, set_existing, b
  <2>2. Global \in Envs
    BY EnvTypes DEF EnvRunInv, EnvIInv, Global
  <2>3. Chain!ChainDefine(Global, s, v)
    BY <2>1, <2>2, DefineMaps
  <2> QED  BY <1>1, <1>3, <2>3 DEF Chain!ChainSuper, Chain!Global, Global
<1> QED  BY <1>2, <1>3

LEMMA AppendIs ==
  ASSUME NEW n \in Nat, NEW f, f = [k \in 1..n |-> f[k]], NEW x
  PROVE  Append(f, x) = [k \in 1..(n + 1) |-> IF k = n + 1 THEN x ELSE f[k]]
<1> DEFINE S == {f[k] : k \in 1..n} \cup {x}
<1>1. f \in [1..n -> S] /\ x \in S
  OBVIOUS
<1> HIDE DEF S
<1>2. f \in Seq(S) /\ Len(f) = n
  BY <1>1
<1>3. /\ Append(f, x) \in Seq(S) /\ Len(Append(f, x)) = n + 1
      /\ \A k \in 1..n : Append(f, x)[k] = f[k]
      /\ Append(f, x)[n + 1] = x
  BY <1>1, <1>2, AppendProperties
<1> DEFINE g == Append(f, x)
<1>4. g = [k \in 1..(n + 1) |-> g[k]]
  <2>1. g \in Seq(S) /\ Len(g) = n + 1
    BY <1>3
  <2> HIDE DEF g
  <2> QED  BY <2>1
<1>5. \A k \in 1..(n + 1) : g[k] = IF k = n + 1 THEN x ELSE f[k]
  BY <1>3
<1> HIDE DEF g
<1>6. g = [k \in 1..(n + 1) |-> IF k = n + 1 THEN x ELSE f[k]]
  BY <1>4, <1>5
<1> QED  BY <1>6 DEF g

LEMMA NewMaps ==
  ASSUME EnvRunInv, NEW p \in Envs, NewEnvironment(p)
  PROVE  Chain!ChainNew(p)
<1>1. /\ EnvRunInv'
      /\ Len(parent) < MaxEnvs /\ parent' = Append(parent, p)
      /\ \A k \in Envs', u \in Sym :
           BoundTo(k, u)' = IF k \in Envs THEN BoundTo(k, u) ELSE Unbound
  BY NewEnvironmentBinds
<1>2. boundValues = [k \in Envs |-> [u \in Sym |-> BoundTo(k, u)]]
  BY ValuesAre
<1>3. boundValues' = [k \in Envs' |-> [u \in Sym |-> BoundTo(k, u)']]
  BY <1>1, ValuesAreNext DEF ValuesRead
<1>4. boundValues' = [k \in Envs' |-> IF k \in Envs THEN boundValues[k]
                                      ELSE [u \in Sym |-> Unbound]]
  BY <1>1, <1>2, <1>3
<1>5. /\ Envs = 1..Len(parent) /\ Len(parent) \in Nat
      /\ Envs' = 1..(Len(parent) + 1)
  BY <1>1, EnvTypes DEF EnvRunInv, EnvIInv, TypeOK, Envs
<1> DEFINE n == Len(parent)  none == [u \in Sym |-> Unbound]
<1>6. boundValues' = [k \in 1..(n + 1) |-> IF k = n + 1 THEN none ELSE boundValues[k]]
  <2>1. \A k \in Envs' : k \in Envs <=> k # n + 1
    BY <1>5
  <2> QED  BY <1>4, <1>5, <2>1
<1>7. boundValues = [k \in 1..n |-> boundValues[k]]
  BY <1>2, <1>5
<1> HIDE DEF none
<1>8. boundValues' = Append(boundValues, none)
  BY <1>5, <1>6, <1>7, AppendIs
<1> QED  BY <1>1, <1>8 DEF Chain!ChainNew, none

LEMMA InitMaps == EnvInit => Chain!ChainInit
<1> SUFFICES ASSUME EnvInit PROVE Chain!ChainInit
  OBVIOUS
<1>1. boundValues = [e \in Envs |-> [s \in Sym |-> BoundTo(e, s)]]
  BY RunInitial, ValuesAre
<1>2. Envs = 1..3 /\ \A e \in Envs : shape[e] = 1
  BY DEF EnvInit, Envs
<1>3. \A e \in Envs, s \in Sym : SlotOf(e, s) = NoSlot
  BY <1>2 DEF EnvInit, SlotOf, EmptyShape
<1>4. boundValues = [e \in 1..3 |-> [s \in Sym |-> Unbound]]
  BY <1>1, <1>2, <1>3 DEF BoundTo
<1> QED  BY <1>4 DEF Chain!ChainInit, EnvInit, Chain!NoEnv, Chain!Empty, Chain!Base, NoEnv, Empty, Base

LEMMA EnvStepMaps ==
  ASSUME EnvRunInv, EnvNext
  PROVE  Chain!ChainNext
<1>1. {Base, Global} \subseteq Envs /\ RunEnvs \subseteq Envs /\ Chain!Envs = Envs
  BY EnvTypes DEF EnvRunInv, EnvIInv, Base, Global, RunEnvs, Chain!Envs, Envs
<1>2. CASE \E e \in Envs, s \in Sym, v \in Val : define(e, s, v)
  BY <1>1, <1>2, DefineMaps DEF Chain!ChainNext
<1>3. CASE \E e \in Envs, s \in Sym, v \in Val : slow_set_super(e, s, v)
  BY <1>1, <1>3, SuperMaps DEF Chain!ChainNext
<1>4. CASE \E p \in Envs : NewEnvironment(p)
  BY <1>1, <1>4, NewMaps DEF Chain!ChainNext
<1> QED  BY <1>1, <1>2, <1>3, <1>4 DEF EnvNext

\* Environments with shapes, slots and remembered transitions are, to the
\* programs that run in them, plain nested maps: every name means its nearest
\* binding.
THEOREM EnvironmentsAreChains == EnvSpec => ImplementsScopeChain
<1>1. EnvRunInv /\ [EnvNext]_envVars => [Chain!ChainNext]_<<parent, boundValues>>
  <2>1. ASSUME EnvRunInv, EnvNext PROVE Chain!ChainNext
    BY <2>1, EnvStepMaps
  <2>2. ASSUME UNCHANGED envVars PROVE UNCHANGED <<parent, boundValues>>
    BY <2>2 DEF envVars, boundValues, Visible, SlotOf, Envs
  <2> QED  BY <2>1, <2>2
<1> QED  BY InitMaps, RunInvariant, <1>1, PTL DEF EnvSpec, ImplementsScopeChain, Chain!ChainSpec, Chain!chainVars

\* x <- v is the chain's definition and x <<- v its assignment to the nearest
\* binding, whatever shapes and slots the environments of the chain have.
THEOREM AssignmentsAreChains == EnvSpec => AssignmentsImplementChain
<1>1. EnvRunInv /\ [EnvNext]_envVars =>
        [bindings' # bindings =>
           \A e \in RunEnvs, s \in Sym, v \in Val :
             /\ define(e, s, v) => Chain!ChainDefine(e, s, v)
             /\ slow_set_super(e, s, v) => Chain!ChainSuper(e, s, v)]_envVars
  BY DefineMaps, SuperMaps DEF RunEnvs
<1> QED  BY RunInvariant, <1>1, PTL DEF EnvSpec, AssignmentsImplementChain
=============================================================================
