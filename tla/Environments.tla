---------------------------- MODULE Environments ----------------------------
(***************************************************************************)
(* R environments with hidden classes (include/rjit/core/environment.hpp,  *)
(* src/core/environment.cpp).  An environment does not hold a map: it      *)
(* holds a *shape*, an immutable map from symbols to slot numbers shared   *)
(* with every environment that grew the same way, and a vector of bindings *)
(* indexed by slot.  Defining a new symbol moves the environment along a   *)
(* transition of the process-wide shape table, which remembers each        *)
(* transition so that environments that grow alike keep sharing shapes.    *)
(*                                                                         *)
(* One action per operation of class Environment that changes state.  The  *)
(* lookup, which changes nothing, is the operator Lookup.  Slots and shape *)
(* ids are numbered from 1 here and from 0 in the code; NoSlot is          *)
(* UINT32_MAX, and NoShape an absent entry of add_cache_.  Of the binding  *)
(* states only kEmpty and kValue occur: nothing in the sources stores      *)
(* kPromise or kMissing into a binding, and no code sets a binding flag.   *)
(***************************************************************************)
EXTENDS Integers, Sequences, FiniteSets

CONSTANTS
  Sym,        \* the symbols programs use (interned identifiers)
  Val,        \* the values a binding can hold
  Nil,        \* Value::nil(): a value like others, and what an empty binding
              \* holds
  Unbound,    \* what an unbound name means; not a value
  MaxEnvs,    \* bound: environments that may exist at once (nothing is freed)
  MaxShapes   \* bound: shapes the table may hold

ASSUME SymAssumption == IsFiniteSet(Sym)
ASSUME NilAssumption == Nil \in Val
ASSUME UnboundAssumption == Unbound \notin Val
ASSUME BoundsAssumption == MaxEnvs \in Nat /\ MaxShapes \in Nat

NoEnv   == 0   \* the null Environment*
NoSlot  == 0   \* UINT32_MAX
NoShape == 0   \* no entry in add_cache_

Empty  == 1    \* g_empty
Base   == 2    \* g_base
Global == 3    \* g_global

VARIABLES
  shapes,     \* ShapeTable::shapes_; a shape's "next" is its part of add_cache_
  parent,     \* parent[e]: Environment::parent_, or NoEnv
  shape,      \* shape[e]: the index in shapes of Environment::shape_
  bindings    \* bindings[e]: Environment::bindings_

envVars == <<shapes, parent, shape, bindings>>

Envs == DOMAIN parent

Binding == [state : {"kEmpty", "kValue"}, value : Val]

\* Binding(): what std::vector::resize appends.
EmptyBinding == [state |-> "kEmpty", value |-> Nil]

Shape == [slots : [Sym -> Nat], deopt : BOOLEAN, next : [Sym -> Nat]]

-----------------------------------------------------------------------------
(***************************************************************************)
(* Shapes and the shape table                                              *)
(***************************************************************************)

\* The symbols a slot map holds, and how many they are (slots_.size()).
Keys(slots) == {s \in Sym : slots[s] # NoSlot}
Size(slots) == Cardinality(Keys(slots))

NoTransition == [s \in Sym |-> NoShape]

EmptyShape ==
  [slots |-> [s \in Sym |-> NoSlot], deopt |-> FALSE, next |-> NoTransition]

\* Mutant: the new slot leaves a hole before it.
ExtendedPastEnd(from, s) ==
  [slots |-> [from.slots EXCEPT ![s] = Size(from.slots) + 2],
   deopt |-> from.deopt,
   next  |-> NoTransition]

\* The shape the first define of s makes out of from: s gets the next slot.
Extended(from, s) ==
  [slots |-> [from.slots EXCEPT ![s] = Size(from.slots) + 1],
   deopt |-> from.deopt,
   next  |-> NoTransition]

\* Mutant: add_cache_ is never written.
TransitionAddUncached(table, sh, s) ==
  IF table[sh].slots[s] # NoSlot
    THEN [table |-> table, shape |-> sh]
    ELSE [table |-> Append(table, Extended(table[sh], s)), shape |-> Len(table) + 1]

\* Mutant: add_cache_ is written with the last shape there is, before the new
\* one is made.
TransitionAddEarly(table, sh, s) ==
  IF table[sh].next[s] # NoShape
    THEN [table |-> table, shape |-> table[sh].next[s]]
  ELSE IF table[sh].slots[s] # NoSlot
    THEN [table |-> table, shape |-> sh]
  ELSE [table |-> Append([table EXCEPT ![sh].next[s] = Len(table)],
                         Extended(table[sh], s)),
        shape |-> Len(table) + 1]

\* Mutant: add_cache_'s key leaves the shape out.
TransitionAddBySymbol(table, sh, s) ==
  LET new   == Len(table) + 1
      known == {k \in DOMAIN table : table[k].next[s] # NoShape}
  IN  IF known # {}
        THEN [table |-> table, shape |-> table[CHOOSE k \in known : TRUE].next[s]]
        ELSE [table |-> Append([table EXCEPT ![sh].next[s] = new],
                               Extended(table[sh], s)),
              shape |-> new]

\* ShapeTable::transition_add: the table afterwards, and the shape returned.
\* The cache is consulted before the shape's own map.
TransitionAdd(table, sh, s) ==
  LET new == Len(table) + 1
  IN  IF table[sh].next[s] # NoShape
        THEN [table |-> table, shape |-> table[sh].next[s]]
      ELSE IF table[sh].slots[s] # NoSlot
        THEN [table |-> table, shape |-> sh]
      ELSE [table |-> Append([table EXCEPT ![sh].next[s] = new],
                             Extended(table[sh], s)),
            shape |-> new]

\* The shape removing s makes out of from: the other slots stay where they
\* are, and the shape is marked as looked up by hashing.
Without(from, s) ==
  [slots |-> [from.slots EXCEPT ![s] = NoSlot],
   deopt |-> TRUE,
   next  |-> NoTransition]

-----------------------------------------------------------------------------
(***************************************************************************)
(* Environments                                                            *)
(***************************************************************************)

SlotOf(e, s) == shapes[shape[e]].slots[s]

\* Mutant: the vector grows to the slot's index and not past it.
GrownToIndex(bs, slot) ==
  [i \in 1..(IF Len(bs) > slot - 1 THEN Len(bs) ELSE slot - 1) |->
     IF i <= Len(bs) THEN bs[i] ELSE EmptyBinding]

\* Environment::grow_to.
GrownTo(bs, slot) ==
  [i \in 1..(IF Len(bs) > slot THEN Len(bs) ELSE slot) |->
     IF i <= Len(bs) THEN bs[i] ELSE EmptyBinding]

\* Mutant: a new slot is grown but not written.
DefinedUnwritten(table, sh, bs, s, v) ==
  LET t    == IF table[sh].slots[s] # NoSlot
                THEN [table |-> table, shape |-> sh]
                ELSE TransitionAdd(table, sh, s)
      slot == t.table[t.shape].slots[s]
  IN  [table    |-> t.table,
       shape    |-> t.shape,
       bindings |-> IF slot <= Len(bs)
                      THEN [bs EXCEPT ![slot] = [state |-> "kValue", value |-> v]]
                      ELSE GrownTo(bs, slot)]

\* Environment::define, on an environment with shape sh and bindings bs: the
\* table, the shape and the bindings it leaves.
Defined(table, sh, bs, s, v) ==
  LET t    == IF table[sh].slots[s] # NoSlot
                THEN [table |-> table, shape |-> sh]
                ELSE TransitionAdd(table, sh, s)
      slot == t.table[t.shape].slots[s]
  IN  [table    |-> t.table,
       shape    |-> t.shape,
       bindings |-> [GrownTo(bs, slot) EXCEPT
                       ![slot] = [state |-> "kValue", value |-> v]]]

\* The environments a walk of the chain stops at: lookup passes over a slot
\* whose binding is kEmpty, set_existing looks at the shape alone.
Visible(s)  == {e \in Envs : /\ SlotOf(e, s) # NoSlot
                             /\ bindings[e][SlotOf(e, s)].state = "kValue"}
Slotted(s)  == {e \in Envs : SlotOf(e, s) # NoSlot}

\* The walk up the parents that lookup and set_existing share.
Nearest(par, stops, e) ==
  LET walk[x \in DOMAIN par] ==
        IF x \in stops          THEN x
        ELSE IF par[x] = NoEnv  THEN NoEnv
        ELSE walk[par[x]]
  IN  walk[e]

\* Environment::lookup: whether s was found from e, the value, and the
\* environment and slot it was found at (cache_env and cache_slot).
Lookup(e, s) ==
  LET b == Nearest(parent, Visible(s), e)
  IN  IF b \in Visible(s)
        THEN [found |-> TRUE, env |-> b, slot |-> SlotOf(b, s),
              value |-> bindings[b][SlotOf(b, s)].value]
        ELSE [found |-> FALSE, env |-> NoEnv, slot |-> NoSlot,
              value |-> Unbound]

-----------------------------------------------------------------------------
\* reset_environments: the empty, base and global environments.
EnvInit ==
  /\ shapes = <<EmptyShape>>
  /\ parent = <<NoEnv, Empty, Base>>
  /\ shape = <<1, 1, 1>>
  /\ bindings = << <<>>, <<>>, <<>> >>

\* Mutant: the constructor leaves the shape out.
NewEnvironmentUnshaped(p) ==
  /\ Len(parent) < MaxEnvs
  /\ parent' = Append(parent, p)
  /\ bindings' = Append(bindings, <<>>)
  /\ UNCHANGED <<shapes, shape>>

\* new Environment(p)
NewEnvironment(p) ==
  /\ Len(parent) < MaxEnvs
  /\ parent' = Append(parent, p)
  /\ shape' = Append(shape, 1)
  /\ bindings' = Append(bindings, <<>>)
  /\ UNCHANGED shapes

define(e, s, v) ==
  LET d == Defined(shapes, shape[e], bindings[e], s, v)
  IN  /\ UNCHANGED parent
      /\ Len(d.table) <= MaxShapes
      /\ shapes' = d.table
      /\ shape' = [shape EXCEPT ![e] = d.shape]
      /\ bindings' = [bindings EXCEPT ![e] = d.bindings]

\* set_existing, on a chain that has a slot for s.
set_existing(e, s, v) ==
  LET b == Nearest(parent, Slotted(s), e)
  IN  /\ b \in Slotted(s)
      /\ bindings' = [bindings EXCEPT ![b] = [@ EXCEPT ![SlotOf(b, s)] =
                        [state |-> "kValue", value |-> v]]]
      /\ UNCHANGED <<shapes, parent, shape>>

\* Mutant: x <<- v falls back on the environment it runs in.
slow_set_super_local(e, s, v) ==
  \/ set_existing(e, s, v)
  \/ /\ Nearest(parent, Slotted(s), e) \notin Slotted(s)
     /\ define(e, s, v)

\* Interpreter::slow_set_super: x <<- v falls back on the global environment.
slow_set_super(e, s, v) ==
  \/ set_existing(e, s, v)
  \/ /\ Nearest(parent, Slotted(s), e) \notin Slotted(s)
     /\ define(Global, s, v)

\* Mutant: removal shapes are interned like the others, so an environment may
\* return to one it had.
remove_interned(e, s) ==
  LET without == Without(shapes[shape[e]], s)
      known   == {k \in DOMAIN shapes : shapes[k].slots = without.slots}
  IN  /\ SlotOf(e, s) # NoSlot
      /\ Len(shapes) < MaxShapes
      /\ shapes' = IF known = {} THEN Append(shapes, without) ELSE shapes
      /\ shape' = [shape EXCEPT ![e] = IF known = {} THEN Len(shapes) + 1
                                       ELSE CHOOSE k \in known : TRUE]
      /\ bindings' = [bindings EXCEPT ![e] =
                        [@ EXCEPT ![SlotOf(e, s)] = EmptyBinding]]
      /\ UNCHANGED parent

\* Environment::remove: always a fresh shape, and the slot is emptied.
remove(e, s) ==
  /\ SlotOf(e, s) # NoSlot
  /\ Len(shapes) < MaxShapes
  /\ shapes' = Append(shapes, Without(shapes[shape[e]], s))
  /\ shape' = [shape EXCEPT ![e] = Len(shapes) + 1]
  /\ bindings' = [bindings EXCEPT ![e] =
                    [@ EXCEPT ![SlotOf(e, s)] = EmptyBinding]]
  /\ UNCHANGED parent

(***************************************************************************)
(* What the virtual machine does to environments.  register_primitives     *)
(* defines the builtins in the base environment; programs run in the       *)
(* global environment and in the environments of calls, never in the empty *)
(* or the base one; and the lowerer emits no RM_VAR.                       *)
(***************************************************************************)
RunEnvs == Envs \ {Empty, Base}

EnvNext ==
  \/ \E s \in Sym, v \in Val : define(Base, s, v)
  \/ \E e \in RunEnvs :
       \/ NewEnvironment(e)
       \/ \E s \in Sym, v \in Val : define(e, s, v) \/ slow_set_super(e, s, v)

EnvSpec == EnvInit /\ [][EnvNext]_envVars

(***************************************************************************)
(* Everything class Environment offers its callers, remove included.       *)
(***************************************************************************)
ApiNext ==
  \/ EnvNext
  \/ \E e \in Envs, s \in Sym : remove(e, s)

ApiSpec == EnvInit /\ [][ApiNext]_envVars

-----------------------------------------------------------------------------
(***************************************************************************)
(* Properties                                                              *)
(***************************************************************************)

\* The type invariant.
TypeOK ==
  /\ shapes \in Seq(Shape)
  /\ Len(shapes) > 0
  /\ parent \in Seq(Nat)
  /\ Len(parent) >= Global
  /\ \A e \in Envs : parent[e] < e
  /\ shape \in Seq(1..Len(shapes))
  /\ bindings \in Seq(Seq(Binding))
  /\ Len(shape) = Len(parent)
  /\ Len(bindings) = Len(parent)

\* Every remembered transition leads forward, to the shape that adding the
\* symbol makes: transition_add may return it without looking at the map.
TransitionsSound ==
  \A sh \in DOMAIN shapes, s \in Sym :
    LET to == shapes[sh].next[s]
    IN  to # NoShape =>
          /\ to \in (sh + 1)..Len(shapes)
          /\ shapes[to].slots = Extended(shapes[sh], s).slots
          /\ shapes[to].deopt = shapes[sh].deopt

\* Two symbols never share a slot and the slots have no holes, so that
\* slots_.size() is a free slot.
SlotsDense ==
  \A sh \in DOMAIN shapes :
    LET slots == shapes[sh].slots
    IN  /\ \A s \in Keys(slots) : slots[s] <= Size(slots)
        /\ \A s, t \in Keys(slots) : slots[s] = slots[t] => s = t

\* Every slot a shape names exists in the vector of each environment with
\* that shape: bindings_[slot] is never out of range.
SlotsBacked ==
  \A e \in Envs, s \in Sym : SlotOf(e, s) <= Len(bindings[e])

\* Every symbol in an environment's shape is bound there.
SlotsBound ==
  \A e \in Envs, s \in Sym :
    SlotOf(e, s) # NoSlot => bindings[e][SlotOf(e, s)].state = "kValue"

\* Shapes are interned: one shape for one slot map, so that comparing ids
\* compares maps ("All shapes are interned so pointer equality can be used
\* for shape comparisons").
ShapesInterned ==
  \A a, b \in DOMAIN shapes : shapes[a].slots = shapes[b].slots => a = b

\* An environment that leaves a shape never returns to it: an inline cache
\* that remembers a shape id cannot be fooled by remove and define.
ShapesOnlyAdvance ==
  [][\A e \in Envs : shape'[e] >= shape[e]]_envVars

\* What each environment binds, with shapes, slots and states abstracted.
boundValues ==
  [e \in Envs |-> [s \in Sym |->
     IF e \in Visible(s) THEN bindings[e][SlotOf(e, s)].value ELSE Unbound]]

Chain == INSTANCE ScopeChain WITH bound <- boundValues

\* Compiled programs see plain nested maps.
ImplementsScopeChain == Chain!ChainSpec

\* And each operation does what it promises: x <- v binds in the environment
\* that runs, x <<- v where the nearest binding is, or in the global one.
AssignmentsImplementChain ==
  [][bindings' # bindings =>
       \A e \in RunEnvs, s \in Sym, v \in Val :
         /\ define(e, s, v) => Chain!ChainDefine(e, s, v)
         /\ slow_set_super(e, s, v) => Chain!ChainSuper(e, s, v)]_envVars
=============================================================================
