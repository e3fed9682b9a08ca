------------------------- MODULE LexicalScopeProofs -------------------------
(***************************************************************************)
(* Proofs about the inline cache of LOAD_VAR, for any number of sites,     *)
(* symbols, environments and shapes, whatever is defined and removed; and  *)
(* then about programs with closures and calls over cached environments,   *)
(* for any functions, parameters, sites and depth of calls: a call's       *)
(* environment is built by as many defines as it has arguments, so what is *)
(* proved of one define is carried along the parameters.                   *)
(***************************************************************************)
EXTENDS LexicalScope, EnvironmentsProofs, LeastNumber

-----------------------------------------------------------------------------
(***************************************************************************)
(* The cache                                                               *)
(***************************************************************************)


\* What a filled entry is worth.  The shape it names is a shape of the table,
\* whose maps never change, and the slot is that map's for the site's symbol;
\* so while the environment has that shape, the slot is the symbol's there.
\* It is bound: emptying a slot always changes the shape.
CachedSlotSound ==
  \A i \in Site :
    LET c == ic[i]
    IN  c.env # NoEnv =>
          /\ c.env \in Envs
          /\ c.shape \in 1..Len(shapes)
          /\ c.shape <= shape[c.env]
          /\ c.slot # NoSlot
          /\ c.slot = shapes[c.shape].slots[SiteSym[i]]
          /\ c.shape = shape[c.env] => bindings[c.env][c.slot].state = "kValue"

IcIInv ==
  /\ EnvIInv
  /\ ic \in [Site -> CacheEntry]
  /\ acc \in Val \cup {Unbound}
  /\ CachedSlotSound

LEMMA IcInitial == IcInit => IcIInv
<1> SUFFICES ASSUME IcInit PROVE IcIInv
  OBVIOUS
<1>1. EnvIInv /\ acc \in Val \cup {Unbound}
  BY EnvInitial DEF IcInit
<1>2. ic \in [Site -> CacheEntry] /\ \A i \in Site : ic[i].env = NoEnv
  BY DEF IcInit, CacheEntry, NotCached, NoEnv, NoShape, NoSlot
<1> QED  BY <1>1, <1>2 DEF IcIInv, CachedSlotSound

\* The slot an entry's shape gives the site's symbol is in range.
LEMMA CachedInRange ==
  ASSUME IcIInv, NEW i \in Site, Hit(i)
  PROVE  /\ ic[i].env \in Envs
         /\ ic[i].slot = SlotOf(ic[i].env, SiteSym[i])
         /\ ic[i].slot \in 1..Len(bindings[ic[i].env])
         /\ bindings[ic[i].env][ic[i].slot].state = "kValue"
<1>1. /\ ic[i].env \in Envs /\ ic[i].slot # NoSlot
      /\ ic[i].slot = SlotOf(ic[i].env, SiteSym[i])
      /\ bindings[ic[i].env][ic[i].slot].state = "kValue"
  BY DEF IcIInv, CachedSlotSound, Hit, SlotOf
<1>2. /\ SiteSym[i] \in Sym
      /\ Len(bindings[ic[i].env]) \in Nat
      /\ SlotOf(ic[i].env, SiteSym[i]) \in Nat
      /\ SlotOf(ic[i].env, SiteSym[i]) <= Len(bindings[ic[i].env])
  BY <1>1, SiteSymAssumption, EnvTypes DEF IcIInv, EnvIInv, SlotsBacked
<1> QED  BY <1>1, <1>2 DEF NoSlot

\* What is needed of the types after a step.
LEMMA NextTypes ==
  ASSUME TypeOK'
  PROVE  Len(shapes') \in Nat /\ \A e \in Envs' : shape'[e] \in Nat
<1>1. /\ shapes' \in Seq(Shape) /\ shape' \in Seq(1..Len(shapes'))
      /\ parent' \in Seq(Nat) /\ Len(shape') = Len(parent')
  BY DEF TypeOK
<1>2. Len(shapes') \in Nat /\ Envs' = 1..Len(shape')
  BY <1>1, LenProperties DEF Envs
<1>3. \A e \in Envs' : shape'[e] \in 1..Len(shapes')
  BY <1>1, <1>2, ElementOfSeq
<1> QED  BY <1>2, <1>3

\* Nothing the environments do makes a filled entry wrong.
LEMMA EntriesKept ==
  ASSUME IcIInv, EnvIInv', StepKeeps, UNCHANGED <<ic, acc>>
  PROVE  IcIInv'
<1>1. EnvIInv' /\ StepKeeps
  OBVIOUS
<1>2. CachedSlotSound'
  <2> SUFFICES ASSUME NEW i \in Site, ic[i].env # NoEnv
               PROVE  /\ ic[i].env \in Envs'
                      /\ ic[i].shape \in 1..Len(shapes')
                      /\ ic[i].shape <= shape'[ic[i].env]
                      /\ ic[i].slot # NoSlot
                      /\ ic[i].slot = shapes'[ic[i].shape].slots[SiteSym[i]]
                      /\ ic[i].shape = shape'[ic[i].env] =>
                           bindings'[ic[i].env][ic[i].slot].state = "kValue"
    BY DEF CachedSlotSound
  <2> DEFINE e == ic[i].env
             k == ic[i].slot
  <2>1. /\ e \in Envs
        /\ ic[i].shape \in 1..Len(shapes)
        /\ ic[i].shape <= shape[e]
        /\ k # NoSlot
        /\ k = shapes[ic[i].shape].slots[SiteSym[i]]
        /\ ic[i].shape = shape[e] => bindings[e][k].state = "kValue"
    BY DEF IcIInv, CachedSlotSound
  <2>2. Len(shapes) \in Nat /\ Len(shapes') \in Nat /\ Envs \subseteq Envs'
        /\ shape[e] \in Nat /\ shape'[e] \in Nat
    <3>1. Len(shapes) \in Nat /\ shape[e] \in Nat
      BY <2>1, EnvTypes DEF IcIInv, EnvIInv
    <3>2. Envs \subseteq Envs'
      BY <1>1 DEF StepKeeps
    <3>3. Len(shapes') \in Nat /\ shape'[e] \in Nat
      BY <1>1, <2>1, <3>2, NextTypes DEF EnvIInv
    <3> QED  BY <3>1, <3>2, <3>3
  <2>3. /\ ic[i].shape \in 1..Len(shapes')
        /\ shapes'[ic[i].shape].slots = shapes[ic[i].shape].slots
        /\ shape'[e] >= shape[e]
    BY <1>1, <2>1, <2>2 DEF StepKeeps
  <2>4. ASSUME ic[i].shape = shape'[e]
        PROVE  bindings'[e][k].state = "kValue"
    <3>1. shape'[e] = shape[e] /\ ic[i].shape = shape[e]
      BY <2>1, <2>2, <2>3, <2>4
    <3>2. k \in 1..Len(bindings[e])
      BY <2>1, <3>1, CachedInRange DEF Hit
    <3> QED  BY <1>1, <2>1, <3>1, <3>2 DEF StepKeeps
  <2> QED  BY <2>1, <2>2, <2>3, <2>4
<1> QED  BY <1>1, <1>2 DEF IcIInv

LEMMA ChangeStep ==
  ASSUME IcIInv, ApiNext, UNCHANGED <<ic, acc>>
  PROVE  IcIInv'
  BY ApiStep, EntriesKept DEF IcIInv

\* A slow lookup fills the entry with what is true of the binding it found.
LEMMA LoadStep ==
  ASSUME IcIInv, NEW i \in Site, NEW e \in RunEnvs, LOAD_VAR(i, e)
  PROVE  IcIInv'
<1>1. EnvIInv'
  BY EnvStuttering DEF IcIInv, LOAD_VAR
<1>2. /\ \A k \in Envs : /\ bindings[k] \in Seq(Binding)
                         /\ shape[k] \in 1..Len(shapes)
                         /\ Len(bindings[k]) \in Nat
      /\ \A k \in Envs, u \in Sym : /\ SlotOf(k, u) \in Nat
                                    /\ SlotOf(k, u) <= Len(bindings[k])
      /\ Envs \subseteq Nat /\ Len(shapes) \in Nat /\ SiteSym[i] \in Sym
  BY EnvTypes, SiteSymAssumption DEF IcIInv, EnvIInv, SlotsBacked
<1>3. CASE LoadHit(i)
  <2>1. /\ ic[i].env \in Envs
        /\ ic[i].slot \in 1..Len(bindings[ic[i].env])
    BY <1>3, CachedInRange DEF LoadHit
  <2>2. bindings[ic[i].env][ic[i].slot] \in Binding
    BY <1>2, <2>1, ElementOfSeq
  <2>3. acc' \in Val
    BY <1>3, <2>2 DEF LoadHit, slot_get, Binding
  <2> QED  BY <1>1, <1>3, <2>3
           DEF LoadHit, LOAD_VAR, envVars, IcIInv, CachedSlotSound, Envs
<1>4. CASE LoadError(i, e)
  BY <1>1, <1>4 DEF LoadError, LOAD_VAR, envVars, IcIInv, CachedSlotSound, Envs
<1>5. CASE LoadMiss(i, e)
  <2> DEFINE s == SiteSym[i]
             b == Nearest(parent, Visible(s), e)
  <2>1. b \in Visible(s) /\ Lookup(e, s).found
    BY <1>5 DEF LoadMiss, Lookup
  <2>2. /\ ic' = [ic EXCEPT ![i] = [env |-> b, shape |-> shape[b],
                                    slot |-> SlotOf(b, s)]]
        /\ acc' = bindings[b][SlotOf(b, s)].value
    BY <1>5, <2>1 DEF LoadMiss, Lookup
  <2> HIDE DEF b
  <2>3. /\ b \in Envs /\ SlotOf(b, s) # NoSlot
        /\ bindings[b][SlotOf(b, s)].state = "kValue"
    BY <2>1 DEF Visible
  <2>4. SlotOf(b, s) \in 1..Len(bindings[b])
    BY <1>2, <2>3 DEF NoSlot
  <2>5. bindings[b][SlotOf(b, s)] \in Binding
    BY <1>2, <2>3, <2>4, ElementOfSeq
  <2>6. acc' \in Val
    BY <2>2, <2>5 DEF Binding
  <2>7. [env |-> b, shape |-> shape[b], slot |-> SlotOf(b, s)] \in CacheEntry
    BY <1>2, <2>3 DEF CacheEntry
  <2>8. ic' \in [Site -> CacheEntry]
    BY <2>2, <2>7 DEF IcIInv
  <2>9. UNCHANGED envVars
    BY DEF LOAD_VAR
  <2>10. CachedSlotSound'
    <3> SUFFICES ASSUME NEW j \in Site, ic'[j].env # NoEnv
                 PROVE  /\ ic'[j].env \in Envs
                        /\ ic'[j].shape \in 1..Len(shapes)
                        /\ ic'[j].shape <= shape[ic'[j].env]
                        /\ ic'[j].slot # NoSlot
                        /\ ic'[j].slot = shapes[ic'[j].shape].slots[SiteSym[j]]
                        /\ ic'[j].shape = shape[ic'[j].env] =>
                             bindings[ic'[j].env][ic'[j].slot].state = "kValue"
      BY <2>9 DEF CachedSlotSound, envVars, Envs
    <3>1. CASE j = i
      <4>1. ic'[j] = [env |-> b, shape |-> shape[b], slot |-> SlotOf(b, s)]
        BY <2>2, <3>1 DEF IcIInv
      <4>2. shape[b] \in 1..Len(shapes) /\ shape[b] \in Nat
        BY <1>2, <2>3
      <4>3. SlotOf(b, s) = shapes[shape[b]].slots[SiteSym[j]]
        BY <3>1 DEF SlotOf
      <4> QED  BY <2>3, <4>1, <4>2, <4>3
    <3>2. CASE j # i
      <4>1. ic'[j] = ic[j]
        BY <2>2, <3>2 DEF IcIInv
      <4> QED  BY <4>1 DEF IcIInv, CachedSlotSound
    <3> QED  BY <3>1, <3>2
  <2> QED  BY <1>1, <2>6, <2>8, <2>10 DEF IcIInv
<1> QED  BY <1>3, <1>4, <1>5 DEF LOAD_VAR

LEMMA IcStep == IcIInv /\ [IcNext]_icVars => IcIInv'
<1> SUFFICES ASSUME IcIInv, [IcNext]_icVars PROVE IcIInv'
  OBVIOUS
<1>1. CASE IcNext
  BY <1>1, ChangeStep, LoadStep DEF IcNext
<1>2. CASE UNCHANGED icVars
  BY <1>2, EnvStuttering
  DEF icVars, envVars, IcIInv, CachedSlotSound, Envs
<1> QED  BY <1>1, <1>2

\* The type invariant of the cache.
THEOREM CacheTypes == IcSpec => []IcTypeOK
<1>1. IcIInv => IcTypeOK
  BY DEF IcIInv, IcTypeOK, EnvIInv, CachedSlotSound
<1> QED  BY IcInitial, IcStep, <1>1, PTL DEF IcSpec

\* An entry's shape is never ahead of its environment's: the environment cannot
\* grow into it again.
THEOREM CachesAreNotAhead == IcSpec => []CacheNotAhead
<1>1. IcIInv => CacheNotAhead
  BY DEF IcIInv, CachedSlotSound, CacheNotAhead
<1> QED  BY IcInitial, IcStep, <1>1, PTL DEF IcSpec

\* A hit reads the slot of the site's own symbol, in range and bound, whatever
\* was defined and removed since the cache was filled: the shape guard of
\* op_LOAD_VAR is enough.
THEOREM HitsReadTheirOwnBinding == IcSpec => []HitReadsOwnBinding
<1>1. IcIInv => HitReadsOwnBinding
  <2> SUFFICES ASSUME IcIInv, NEW i \in Site, Hit(i)
               PROVE  /\ ic[i].slot # NoSlot
                      /\ ic[i].slot = SlotOf(ic[i].env, SiteSym[i])
                      /\ ic[i].slot <= Len(bindings[ic[i].env])
                      /\ bindings[ic[i].env][ic[i].slot].state = "kValue"
    BY DEF HitReadsOwnBinding
  <2>1. Len(bindings[ic[i].env]) \in Nat
    BY CachedInRange, EnvTypes DEF IcIInv, EnvIInv
  <2> QED  BY <2>1, CachedInRange DEF NoSlot
<1> QED  BY IcInitial, IcStep, <1>1, PTL DEF IcSpec

\* Loads change no environment, so what is proved of the interface of class
\* Environment holds under caches too.
THEOREM CachesUseTheInterface == IcSpec => ApiSpec
<1>1. [IcNext]_icVars => [ApiNext]_envVars
  BY DEF IcNext, LOAD_VAR, icVars
<1> QED  BY <1>1, PTL DEF IcSpec, IcInit, ApiSpec

-----------------------------------------------------------------------------
(***************************************************************************)
(* The walk up the parents                                                 *)
(***************************************************************************)

\* A chain of environments leads to older ones.
Older(par, n) ==
  /\ n \in Nat /\ DOMAIN par = 1..n
  /\ \A x \in 1..n : par[x] \in Nat /\ par[x] < x

\* What a walk computes at x out of what it computes at the parent, z above
\* the last one: each walk of the model is a function h.
Along(par, h, z, f, x) == h[x][IF par[x] = NoEnv THEN z ELSE f[par[x]]]

Walk(par, n, V, h, z, f) ==
  f \in [1..n -> V] /\ \A x \in 1..n : f[x] = Along(par, h, z, f, x)

\* Every walk ends, so its recursive definition defines a function.
LEMMA WalkExists ==
  ASSUME NEW n \in Nat, NEW par, Older(par, n),
         NEW V, NEW h \in [1..n -> [V -> V]], NEW z \in V
  PROVE  \E f : Walk(par, n, V, h, z, f)
<1> DEFINE Walks(m) == \E f \in [1..m -> V] : \A x \in 1..m : f[x] = Along(par, h, z, f, x)
           T == {m \in 0..n : ~Walks(m)}
<1> SUFFICES ASSUME ~Walks(n) PROVE FALSE
  BY DEF Walk
<1>1. T # {}
  <2>1. n \in T
    <3> HIDE DEF Walks
    <3> QED  OBVIOUS
  <2> QED  BY <2>1
<1>2. PICK m \in T : \A k \in T : m <= k
  <2>1. T \in SUBSET Nat
    OBVIOUS
  <2> HIDE DEF T
  <2> QED  BY <1>1, <2>1, LeastNumber
<1>3. m \in 0..n /\ ~Walks(m)
  OBVIOUS
<1>4. Walks(0)
  <2> DEFINE f == [x \in 1..0 |-> z]
  <2>1. f \in [1..0 -> V] /\ \A x \in 1..0 : f[x] = Along(par, h, z, f, x)
    OBVIOUS
  <2> QED  BY <2>1
<1>5. m - 1 \in 0..n /\ m \in 1..n /\ ~(m <= m - 1)
  <2>1. m # 0
    BY <1>3, <1>4
  <2> QED  BY <1>3, <2>1
<1>6. Walks(m - 1)
  BY <1>2, <1>5
<1>7. PICK f \in [1..(m - 1) -> V] : \A x \in 1..(m - 1) : f[x] = Along(par, h, z, f, x)
  BY <1>6
<1> DEFINE g == [x \in 1..m |-> IF x = m THEN Along(par, h, z, f, m) ELSE f[x]]
<1>8. \A x \in 1..m : x = m \/ x \in 1..(m - 1)
  BY <1>5
<1>9. \A x \in 1..m : par[x] = NoEnv \/ par[x] \in 1..(m - 1)
  BY <1>5 DEF Older, NoEnv
<1>10. \A x \in 1..(m - 1) : x \in 1..m /\ g[x] = f[x]
  BY <1>5
<1>11. \A x \in 1..m : Along(par, h, z, g, x) = Along(par, h, z, f, x)
  BY <1>9, <1>10 DEF Along
<1>12. Along(par, h, z, f, m) \in V
  <2> DEFINE w == IF par[m] = NoEnv THEN z ELSE f[par[m]]
  <2>1. w \in V /\ m \in 1..n
    BY <1>3, <1>5, <1>9
  <2>2. Along(par, h, z, f, m) = h[m][w]
    BY DEF Along
  <2> HIDE DEF w
  <2> QED  BY <2>1, <2>2
<1>13. g \in [1..m -> V]
  BY <1>8, <1>12
<1>14. \A x \in 1..m : g[x] = Along(par, h, z, g, x)
  BY <1>5, <1>7, <1>8, <1>10, <1>11
<1> HIDE DEF g
<1> QED  BY <1>3, <1>13, <1>14

\* The walk of lookup and set_existing, one step at a time.
LEMMA NearestSteps ==
  ASSUME NEW n \in Nat, NEW par, Older(par, n), NEW stops, NEW x \in 1..n
  PROVE  Nearest(par, stops, x) = IF x \in stops THEN x
                                  ELSE IF par[x] = NoEnv THEN NoEnv
                                  ELSE Nearest(par, stops, par[x])
<1> DEFINE Up(f) == [y \in DOMAIN par |-> IF y \in stops THEN y
                                          ELSE IF par[y] = NoEnv THEN NoEnv
                                          ELSE f[par[y]]]
           walk == CHOOSE f : f = Up(f)
           V == 0..n
           h == [y \in 1..n |-> [w \in V |-> IF y \in stops THEN y ELSE w]]
<1>1. \A y : Nearest(par, stops, y) = walk[y]
  BY DEF Nearest
<1>2. \E f : f = Up(f)
  <2>1. h \in [1..n -> [V -> V]] /\ 0 \in V
    OBVIOUS
  <2>2. PICK f : Walk(par, n, V, h, 0, f)
    <3> HIDE DEF h, V
    <3> QED  BY <2>1, WalkExists, Zenon
  <2>3. \A y \in 1..n : par[y] = NoEnv \/ par[y] \in 1..n
    BY DEF Older, NoEnv
  <2>4. \A y \in 1..n : f[y] = Up(f)[y]
    <3> SUFFICES ASSUME NEW y \in 1..n PROVE f[y] = Up(f)[y]
      OBVIOUS
    <3>1. y \in DOMAIN par
      BY DEF Older
    <3>2. f[y] = h[y][IF par[y] = NoEnv THEN 0 ELSE f[par[y]]]
      BY <2>2 DEF Along, Walk
    <3>3. (IF par[y] = NoEnv THEN 0 ELSE f[par[y]]) \in V
      BY <2>2, <2>3 DEF Walk
    <3>4. f[y] = IF y \in stops THEN y ELSE IF par[y] = NoEnv THEN 0 ELSE f[par[y]]
      BY <3>2, <3>3
    <3> QED  BY <3>1, <3>4 DEF NoEnv
  <2>5. f = [y \in 1..n |-> f[y]] /\ Up(f) = [y \in 1..n |-> Up(f)[y]]
    BY <2>2 DEF Older, Walk
  <2> HIDE DEF Up
  <2> QED  BY <2>4, <2>5
<1>3. walk = Up(walk)
  BY <1>2
<1>4. x \in DOMAIN par
  BY DEF Older
<1> HIDE DEF walk
<1>5. walk[x] = IF x \in stops THEN x ELSE IF par[x] = NoEnv THEN NoEnv ELSE walk[par[x]]
  BY <1>3, <1>4
<1> QED  BY <1>1, <1>5

\* The environments before top, one step at a time.
LEMMA BelowSteps ==
  ASSUME NEW n \in Nat, Envs = 1..n, Older(parent, n), NEW top, NEW x \in 1..n
  PROVE  Below(x, top) = IF x = top THEN {}
                         ELSE {x} \cup (IF parent[x] = NoEnv THEN {}
                                        ELSE Below(parent[x], top))
<1> DEFINE Up(f) == [y \in Envs |-> IF y = top THEN {}
                                    ELSE {y} \cup (IF parent[y] = NoEnv THEN {}
                                                   ELSE f[parent[y]])]
           chain == CHOOSE f : f = Up(f)
           V == SUBSET (1..n)
           h == [y \in 1..n |-> [w \in V |-> IF y = top THEN {} ELSE {y} \cup w]]
<1>1. \A y : Below(y, top) = chain[y]
  BY DEF Below
<1>2. \E f : f = Up(f)
  <2>1. h \in [1..n -> [V -> V]] /\ {} \in V
    OBVIOUS
  <2>2. PICK f : Walk(parent, n, V, h, {}, f)
    <3> HIDE DEF h, V
    <3> QED  BY <2>1, WalkExists
  <2>3. \A y \in 1..n : parent[y] = NoEnv \/ parent[y] \in 1..n
    BY DEF Older, NoEnv
  <2>4. \A y \in 1..n : f[y] = Up(f)[y]
    <3> SUFFICES ASSUME NEW y \in 1..n PROVE f[y] = Up(f)[y]
      OBVIOUS
    <3> DEFINE w == IF parent[y] = NoEnv THEN {} ELSE f[parent[y]]
    <3>1. f[y] = h[y][w]
      BY <2>2 DEF Along, Walk
    <3>2. w \in V
      BY <2>2, <2>3 DEF Walk
    <3>3. Up(f)[y] = IF y = top THEN {} ELSE {y} \cup w
      OBVIOUS
    <3> HIDE DEF w, Up
    <3>4. f[y] = IF y = top THEN {} ELSE {y} \cup w
      BY <3>1, <3>2
    <3> QED  BY <3>3, <3>4
  <2>5. f = [y \in 1..n |-> f[y]] /\ Up(f) = [y \in 1..n |-> Up(f)[y]]
    BY <2>2 DEF Walk
  <2> HIDE DEF Up
  <2> QED  BY <2>4, <2>5
<1>3. chain = Up(chain)
  BY <1>2
<1> HIDE DEF chain
<1>4. chain[x] = IF x = top THEN {} ELSE {x} \cup (IF parent[x] = NoEnv THEN {} ELSE chain[parent[x]])
  BY <1>3
<1> QED  BY <1>1, <1>4

\* What holds at the oldest environments and of each whose parent it holds of
\* holds of all: no environment is the oldest where it fails.
LEMMA NoOldestFailure ==
  ASSUME NEW n \in Nat, NEW par, Older(par, n), NEW Good \in SUBSET (1..n),
         \A x \in 1..n : (par[x] = NoEnv \/ par[x] \in Good) => x \in Good
  PROVE  Good = 1..n
<1> DEFINE T == (1..n) \ Good
<1>1. SUFFICES ASSUME T # {} PROVE FALSE
  OBVIOUS
<1>2. PICK m \in T : \A k \in T : m <= k
  <2>1. T \in SUBSET Nat
    OBVIOUS
  <2> HIDE DEF T
  <2> QED  BY <1>1, <2>1, LeastNumber
<1>3. m \in 1..n /\ par[m] # NoEnv /\ par[m] \notin Good
  OBVIOUS
<1>4. par[m] \in 1..n /\ ~(m <= par[m])
  BY <1>3 DEF Older, NoEnv
<1> QED  BY <1>2, <1>3, <1>4

\* A walk that would reach top, and passes no other environment it may stop
\* at, stops at top.
LEMMA ReachesTop ==
  ASSUME TypeOK, NEW e \in Envs, NEW top \in Envs, NEW stops,
         OnChain(e, top), Below(e, top) \cap stops = {}, top \in stops
  PROVE  Nearest(parent, stops, e) = top
<1> DEFINE n == Len(parent)
           Good == {x \in 1..n : OnChain(x, top) /\ Below(x, top) \cap stops = {}
                                   => Nearest(parent, stops, x) = top}
<1>1. n \in Nat /\ Envs = 1..n /\ Older(parent, n) /\ 0 \notin Envs
  BY EnvTypes DEF Older, Envs
<1> HIDE DEF n
<1>2. ASSUME NEW x \in 1..n, parent[x] = NoEnv \/ parent[x] \in Good
      PROVE  x \in Good
  <2> SUFFICES ASSUME OnChain(x, top), Below(x, top) \cap stops = {}
               PROVE  Nearest(parent, stops, x) = top
    OBVIOUS
  <2>1. CASE x = top
    BY <1>1, <2>1, NearestSteps
  <2>2. CASE x # top
    <3>1. Below(x, top) = {x} \cup (IF parent[x] = NoEnv THEN {} ELSE Below(parent[x], top))
      BY <1>1, <2>2, BelowSteps
    <3>2. Nearest(parent, {top}, x) = IF parent[x] = NoEnv THEN NoEnv
                                      ELSE Nearest(parent, {top}, parent[x])
      BY <1>1, <2>2, NearestSteps
    <3>3. parent[x] # NoEnv /\ OnChain(parent[x], top)
      BY <1>1, <3>2 DEF OnChain, NoEnv
    <3>4. x \notin stops /\ Below(parent[x], top) \cap stops = {}
      BY <3>1, <3>3
    <3>5. Nearest(parent, stops, x) = Nearest(parent, stops, parent[x])
      BY <1>1, <3>3, <3>4, NearestSteps
    <3> QED  BY <1>2, <3>3, <3>4, <3>5
  <2> QED  BY <2>1, <2>2
<1>3. Good = 1..n
  <2>1. Good \in SUBSET (1..n)
    OBVIOUS
  <2> HIDE DEF Good
  <2> QED  BY <1>1, <1>2, <2>1, NoOldestFailure
<1> QED  BY <1>1, <1>3

-----------------------------------------------------------------------------
\* What LOAD_VAR reads is what the name means, or it hit on an environment that
\* is off the chain or hidden by a nearer binding.
LEMMA LoadReads ==
  ASSUME IcIInv, NEW i \in Site, NEW e \in RunEnvs, LOAD_VAR(i, e)
  PROVE  \/ acc' = Lookup(e, SiteSym[i]).value
         \/ /\ Hit(i)
            /\ \/ ~OnChain(e, ic[i].env)
               \/ Below(e, ic[i].env) \cap Visible(SiteSym[i]) # {}
<1> DEFINE s == SiteSym[i]
           top == ic[i].env
<1>1. CASE LoadMiss(i, e)
  BY <1>1 DEF LoadMiss
<1>2. CASE LoadError(i, e)
  BY <1>2 DEF LoadError, Lookup
<1>3. CASE LoadHit(i)
  <2> SUFFICES ASSUME OnChain(e, top), Below(e, top) \cap Visible(s) = {}
               PROVE  acc' = Lookup(e, s).value
    BY <1>3 DEF LoadHit
  <2>1. /\ top \in Envs /\ ic[i].slot = SlotOf(top, s) /\ top \in Visible(s)
        /\ acc' = bindings[top][SlotOf(top, s)].value
    <3>1. Hit(i) /\ acc' = bindings[top][ic[i].slot].value
      BY <1>3 DEF LoadHit, slot_get
    <3>2. /\ top \in Envs /\ ic[i].slot = SlotOf(top, s)
          /\ ic[i].slot \in 1..Len(bindings[top])
          /\ bindings[top][ic[i].slot].state = "kValue"
      BY <3>1, CachedInRange
    <3> QED  BY <3>1, <3>2 DEF Visible, NoSlot
  <2>2. TypeOK /\ e \in Envs
    BY DEF IcIInv, EnvIInv, RunEnvs
  <2>3. Nearest(parent, Visible(s), e) = top
    BY <2>1, <2>2, ReachesTop
  <2> QED  BY <2>1, <2>3 DEF Lookup
<1> QED  BY <1>1, <1>2, <1>3 DEF LOAD_VAR

\* A LOAD_VAR never reads a value that is out of date or another variable's:
\* when it does not read what the name means, the binding it reads is out of
\* scope.
THEOREM ReadsWrongOnlyOutOfScope == IcSpec => WrongOnlyOutOfScope
<1>1. IcIInv /\ [IcNext]_icVars =>
        [\A i \in Site, e \in RunEnvs :
           LOAD_VAR(i, e) =>
             \/ acc' = Lookup(e, SiteSym[i]).value
             \/ /\ Hit(i)
                /\ \/ ~OnChain(e, ic[i].env)
                   \/ Below(e, ic[i].env) \cap Visible(SiteSym[i]) # {}]_icVars
  BY LoadReads
<1> QED  BY IcInitial, IcStep, <1>1, PTL DEF IcSpec, WrongOnlyOutOfScope

-----------------------------------------------------------------------------
(***************************************************************************)
(* The environment of a call                                               *)
(***************************************************************************)

\* An environment in the making, p, over a table that extends shapes: all that
\* the environments' invariant asks of its shape and bindings.
Sound(p) ==
  /\ p.table \in Seq(Shape)
  /\ Len(p.table) \in Nat /\ Len(p.table) >= Len(shapes)
  /\ \A k \in 1..Len(shapes) : p.table[k].slots = shapes[k].slots
  /\ TableInterned(p.table)
  /\ p.shape \in 1..Len(p.table)
  /\ p.bindings \in Seq(Binding)
  /\ Backed(p.table[p.shape].slots, p.bindings)
  /\ \A u \in Sym : p.table[p.shape].slots[u] # NoSlot =>
       p.bindings[p.table[p.shape].slots[u]].state = "kValue"

NoParameters == [table |-> shapes, shape |-> 1, bindings |-> <<>>]

LEMMA NoParametersSound ==
  ASSUME EnvRunInv
  PROVE  Sound(NoParameters)
<1>1. Len(shapes) \in Nat \ {0} /\ shapes \in Seq(Shape) /\ TableInterned(shapes)
  BY EnvTypes DEF EnvRunInv, EnvIInv, TypeOK
<1>2. \A u \in Sym : shapes[1].slots[u] = NoSlot
  BY DEF EnvRunInv, EnvIInv, RootEmpty
<1> QED  BY <1>1, <1>2 DEF Sound, NoParameters, Backed, NoSlot

LEMMA DefinedKeepsSound ==
  ASSUME NEW p, Sound(p), Len(shapes) \in Nat, NEW s \in Sym, NEW v \in Val,
         NEW d, d = Defined(p.table, p.shape, p.bindings, s, v)
  PROVE  Sound(d)
<1> DEFINE sh == p.shape  bs == p.bindings
           slots == d.table[d.shape].slots
           old == p.table[p.shape].slots
<1>1. /\ p.table \in Seq(Shape) /\ sh \in 1..Len(p.table) /\ bs \in Seq(Binding)
      /\ TableInterned(p.table) /\ TableSound(p.table) /\ Backed(p.table[sh].slots, bs)
      /\ Len(p.table) \in Nat /\ Len(bs) \in Nat /\ p.table[sh] \in Shape
  BY LenProperties, ElementOfSeq DEF Sound, TableInterned
<1>2. DefineResult(p.table, sh, bs, s, v, d)
  BY <1>1, DefinedSound
<1>3. TableInterned(d.table)
  BY <1>1, DefinedInterned
<1>4. /\ d.table \in Seq(Shape) /\ Len(d.table) >= Len(p.table) /\ Len(d.table) \in Nat
      /\ \A k \in 1..Len(p.table) : d.table[k].slots = p.table[k].slots
      /\ d.shape \in 1..Len(d.table) /\ d.bindings \in Seq(Binding)
      /\ Backed(slots, d.bindings)
      /\ slots[s] # NoSlot /\ \A u \in Sym \ {s} : slots[u] = old[u]
      /\ d.bindings[slots[s]].state = "kValue"
      /\ \A k \in 1..Len(bs) : k # slots[s] => d.bindings[k] = bs[k]
  <2> HIDE DEF slots, old
  <2>1. d.table \in Seq(Shape) /\ Len(d.table) >= Len(p.table) /\ d.shape \in sh..Len(d.table)
    BY <1>2 DEF DefineResult
  <2>2. Len(d.table) \in Nat
    BY <2>1, LenProperties
  <2>3. d.shape \in 1..Len(d.table)
    BY <1>1, <2>1, <2>2
  <2>4. \A k \in 1..Len(p.table) : d.table[k].slots = p.table[k].slots
    BY <1>2 DEF DefineResult
  <2>5. /\ slots[s] # NoSlot /\ \A u \in Sym \ {s} : slots[u] = old[u]
        /\ d.bindings \in Seq(Binding) /\ Backed(slots, d.bindings)
        /\ d.bindings[slots[s]] = [state |-> "kValue", value |-> v]
        /\ \A k \in 1..Len(bs) : k # slots[s] => d.bindings[k] = bs[k]
    BY <1>2 DEF DefineResult, slots, old
  <2> QED  BY <2>1, <2>2, <2>3, <2>4, <2>5
<1>5. \A u \in Sym \ {s} : slots[u] # slots[s]
  BY <1>3, <1>4, SlotsDiffer
<1>6. \A u \in Sym : old[u] \in Nat /\ old[u] <= Len(bs)
  BY <1>1 DEF Shape, Backed
<1> HIDE DEF slots
<1>7. ASSUME NEW u \in Sym, slots[u] # NoSlot
      PROVE  d.bindings[slots[u]].state = "kValue"
  <2>1. CASE u = s
    BY <1>4, <2>1
  <2>2. CASE u # s
    <3>1. slots[u] = old[u] /\ old[u] \in 1..Len(bs) /\ old[u] # slots[s]
      BY <1>1, <1>4, <1>5, <1>6, <1>7, <2>2 DEF NoSlot
    <3>2. bs[old[u]].state = "kValue"
      BY <3>1, <1>1 DEF Sound, NoSlot
    <3> QED  BY <1>4, <3>1, <3>2
  <2> QED  BY <2>1, <2>2
<1>8. /\ Len(d.table) >= Len(shapes)
      /\ \A k \in 1..Len(shapes) : d.table[k].slots = shapes[k].slots
  BY <1>1, <1>4 DEF Sound
<1> QED  BY <1>3, <1>4, <1>7, <1>8 DEF Sound, slots

\* The first i arguments, out of what the first i - 1 make.
Parameter(f, args, g, i) ==
  IF i = 0 THEN NoParameters
           ELSE Defined(g[i - 1].table, g[i - 1].shape, g[i - 1].bindings,
                        Params[f][i], args[i])

\* However many parameters there are, the recursion over them is a function:
\* no number is the least for which it is not.
LEMMA ParametersExist ==
  ASSUME NEW n \in Nat, NEW f, NEW args
  PROVE  \E g : g = [i \in 0..n |-> Parameter(f, args, g, i)]
<1> DEFINE Made(m) == \E g : g = [i \in 0..m |-> Parameter(f, args, g, i)]
           T == {m \in Nat : ~Made(m)}
<1> SUFFICES ASSUME T # {} PROVE FALSE
  OBVIOUS
<1>1. PICK m \in T : \A k \in T : m <= k
  <2>1. T \in SUBSET Nat
    OBVIOUS
  <2> HIDE DEF T
  <2> QED  BY <2>1, LeastNumber
<1>2. m \in Nat /\ ~Made(m) /\ \A k \in Nat : ~Made(k) => m <= k
  <2> HIDE DEF Made
  <2> QED  BY <1>1
<1>3. Made(0)
  <2> DEFINE g == [i \in 0..0 |-> NoParameters]
  <2>1. \A i \in 0..0 : Parameter(f, args, g, i) = NoParameters
    BY DEF Parameter
  <2>2. g = [i \in 0..0 |-> Parameter(f, args, g, i)]
    BY <2>1
  <2> QED  BY <2>2
<1>4. m - 1 \in Nat /\ ~(m <= m - 1)
  <2> HIDE DEF Made
  <2>1. m # 0
    BY <1>2, <1>3
  <2> QED  BY <1>2, <2>1
<1>5. Made(m - 1)
  <2> HIDE DEF Made
  <2> QED  BY <1>2, <1>4
<1>6. PICK g : g = [i \in 0..(m - 1) |-> Parameter(f, args, g, i)]
  BY <1>5
<1> DEFINE h == [i \in 0..m |-> IF i = m THEN Parameter(f, args, g, m) ELSE g[i]]
<1>7. \A i \in 0..m : i # 0 => i - 1 \in 0..m /\ i - 1 # m /\ h[i - 1] = g[i - 1]
  BY <1>2
<1>8. \A i \in 0..m : i # m => g[i] = Parameter(f, args, g, i)
  <2>1. \A i \in 0..m : i # m => i \in 0..(m - 1)
    BY <1>2
  <2> QED  BY <1>6, <2>1
<1>9. \A i \in 0..m : Parameter(f, args, h, i) = Parameter(f, args, g, i)
  <2> HIDE DEF h
  <2> QED  BY <1>7 DEF Parameter
<1>10. h = [i \in 0..m |-> Parameter(f, args, h, i)]
  <2>1. \A i \in 0..m : h[i] = Parameter(f, args, h, i)
    BY <1>8, <1>9
  <2>2. h = [i \in 0..m |-> h[i]]
    OBVIOUS
  <2> HIDE DEF h
  <2> QED  BY <2>1, <2>2
<1> HIDE DEF h
<1> QED  BY <1>2, <1>10

LEMMA BoundSound ==
  ASSUME EnvRunInv, NEW f \in Fn, NEW n \in 0..Len(Params[f]),
         NEW args \in [1..n -> Val]
  PROVE  Sound(Bound(f, args))
<1>1. /\ Len(Params[f]) \in Nat /\ n \in Nat /\ Len(args) = n
      /\ \A i \in 1..n : Params[f][i] \in Sym /\ args[i] \in Val
  <2>1. Params[f] \in Seq(Sym)
    BY FnAssumption
  <2>2. Len(Params[f]) \in Nat /\ \A i \in 1..Len(Params[f]) : Params[f][i] \in Sym
    BY <2>1, LenProperties, ElementOfSeq
  <2>3. Len(args) = n
    BY <2>2
  <2> QED  BY <2>2, <2>3
<1> DEFINE after == CHOOSE g : g = [i \in 0..n |-> Parameter(f, args, g, i)]
<1>2. Bound(f, args) = after[n]
  <2>1. (IF Len(args) < Len(Params[f]) THEN Len(args) ELSE Len(Params[f])) = n
    BY <1>1
  <2> QED  BY <2>1 DEF Bound, Parameter, NoParameters
<1>3. after = [i \in 0..n |-> Parameter(f, args, after, i)]
  BY <1>1, ParametersExist
<1> HIDE DEF after
<1> DEFINE T == {i \in 0..n : ~Sound(after[i])}
<1>4. SUFFICES ASSUME T # {} PROVE FALSE
  <2>1. n \in 0..n
    BY <1>1
  <2> QED  BY <1>2, <2>1
<1>5. PICK m \in T : \A k \in T : m <= k
  <2>1. T \in SUBSET Nat
    OBVIOUS
  <2> HIDE DEF T
  <2> QED  BY <1>4, <2>1, LeastNumber
<1>6. m \in 0..n /\ ~Sound(after[m]) /\ after[m] = Parameter(f, args, after, m)
  BY <1>3
<1>7. m # 0
  BY <1>6, NoParametersSound DEF Parameter
<1>8. m - 1 \in 0..n /\ m \in 1..n /\ ~(m <= m - 1)
  BY <1>6, <1>7
<1>9. Sound(after[m - 1])
  BY <1>5, <1>8
<1>10. Len(shapes) \in Nat
  BY EnvTypes DEF EnvRunInv, EnvIInv
<1>11. Sound(after[m])
  BY <1>1, <1>6, <1>7, <1>8, <1>9, <1>10, DefinedKeepsSound DEF Parameter
<1> QED  BY <1>6, <1>11

-----------------------------------------------------------------------------
(***************************************************************************)
(* The steps                                                               *)
(***************************************************************************)

\* Every environment that is not one of the three of reset_environments is
\* enclosed by one a program runs in, so every chain leads to the global one.
ScopesNest == \A e \in Envs : e > Global => parent[e] >= Global

ScopeIInv ==
  /\ IcIInv
  /\ EnvRunInv
  /\ ScopesNest
  /\ frames \in Seq(RunEnvs)

LEMMA ScopeInitial == ScopeInit => ScopeIInv
<1> SUFFICES ASSUME ScopeInit PROVE ScopeIInv
  OBVIOUS
<1>1. IcIInv /\ EnvRunInv
  BY IcInitial, RunInitial DEF ScopeInit, IcInit
<1>2. Envs = 1..3 /\ Global \in RunEnvs
  BY DEF ScopeInit, IcInit, EnvInit, Envs, RunEnvs, Global, Empty, Base
<1>3. ScopesNest
  BY <1>2 DEF ScopesNest, Global
<1>4. frames \in Seq(RunEnvs)
  BY <1>2 DEF ScopeInit
<1> QED  BY <1>1, <1>3, <1>4 DEF ScopeIInv

\* A call opens one environment more, sound like the others.
LEMMA CallStep ==
  ASSUME ScopeIInv, NEW f \in Fn \ {Top}, NEW ce \in ClosureEnvs(f),
         NEW n \in 0..Len(Params[f]), NEW args \in [1..n -> Val], CALL(f, ce, args)
  PROVE  EnvIInv' /\ StepKeeps /\ EnvRunInv' /\ ScopesNest' /\ frames' \in Seq(RunEnvs')
<1> DEFINE b == Bound(f, args)
<1>0. PICK new : new = Len(parent) + 1
  OBVIOUS
<1>1. /\ shapes' = b.table
      /\ parent' = Append(parent, ce)
      /\ shape' = Append(shape, b.shape)
      /\ bindings' = Append(bindings, b.bindings)
      /\ frames' = Append(frames, new)
  BY <1>0 DEF CALL
<1>2. Sound(b)
  BY BoundSound DEF ScopeIInv
<1> HIDE DEF b
<1>3. /\ Len(shapes) \in Nat \ {0}
      /\ Len(parent) \in Nat /\ Len(parent) >= 3 /\ Envs = 1..Len(parent)
      /\ Len(shape) = Len(parent) /\ Len(bindings) = Len(parent)
      /\ \A e \in Envs : /\ parent[e] \in Nat /\ parent[e] < e
                         /\ shape[e] \in 1..Len(shapes)
      /\ parent \in Seq(Nat) /\ shape \in Seq(1..Len(shapes)) /\ bindings \in Seq(Seq(Binding))
  BY EnvTypes DEF ScopeIInv, EnvRunInv, EnvIInv, TypeOK
<1>4. ce \in Envs /\ ce \in Nat /\ ce >= Global /\ ce < new
  <2>1. ce \in Envs \ {1, 2}
    BY DEF ClosureEnvs, RunEnvs, Empty, Base
  <2> QED  BY <1>0, <1>3, <2>1 DEF Global
<1>5. /\ b.table \in Seq(Shape) /\ Len(b.table) \in Nat /\ Len(b.table) >= Len(shapes)
      /\ \A k \in 1..Len(shapes) : b.table[k].slots = shapes[k].slots
      /\ TableInterned(b.table) /\ b.shape \in 1..Len(b.table)
      /\ b.bindings \in Seq(Binding)
  BY <1>2 DEF Sound
<1>6. shape \in Seq(1..Len(b.table))
  <2>1. 1..Len(shapes) \subseteq 1..Len(b.table)
    BY <1>3, <1>5
  <2> QED  BY <1>3, <2>1, SeqMonotonic
<1>7. /\ parent' \in Seq(Nat) /\ Len(parent') = new
      /\ \A e \in Envs : parent'[e] = parent[e]
      /\ parent'[new] = ce
  BY <1>0, <1>1, <1>3, <1>4, AppendProperties
<1>8. /\ shape' \in Seq(1..Len(b.table)) /\ Len(shape') = new
      /\ \A e \in Envs : shape'[e] = shape[e]
      /\ shape'[new] = b.shape
  <2>1. b.shape \in 1..Len(b.table)
    BY <1>5
  <2>2. /\ shape' \in Seq(1..Len(b.table)) /\ Len(shape') = Len(shape) + 1
        /\ \A e \in 1..Len(shape) : shape'[e] = shape[e]
        /\ shape'[Len(shape) + 1] = b.shape
    BY <1>1, <1>6, <2>1, AppendProperties
  <2> QED  BY <1>0, <1>3, <2>2
<1>9. /\ bindings' \in Seq(Seq(Binding)) /\ Len(bindings') = new
      /\ \A e \in Envs : bindings'[e] = bindings[e]
      /\ bindings'[new] = b.bindings
  <2>1. b.bindings \in Seq(Binding) /\ bindings \in Seq(Seq(Binding))
    BY <1>3, <1>5
  <2>2. /\ bindings' \in Seq(Seq(Binding)) /\ Len(bindings') = Len(bindings) + 1
        /\ \A e \in 1..Len(bindings) : bindings'[e] = bindings[e]
        /\ bindings'[Len(bindings) + 1] = b.bindings
    BY <1>1, <2>1, AppendProperties
  <2> QED  BY <1>0, <1>3, <2>2
<1>10. Envs' = 1..new /\ new \in Envs' /\ \A e \in Envs' : e = new \/ e \in Envs
  <2>1. Envs' = 1..new
    BY <1>7, LenProperties DEF Envs
  <2> QED  BY <1>0, <1>3, <2>1
<1>11. new \in Nat /\ new > Global /\ new \notin Envs
  BY <1>0, <1>3 DEF Global
<1>12. TypeOK'
  <2>1. \A e \in Envs' : parent'[e] < e
    BY <1>3, <1>4, <1>7, <1>10
  <2>2. Len(shapes') > 0 /\ shapes' \in Seq(Shape)
    BY <1>1, <1>3, <1>5
  <2>3. Len(parent') >= Global
    BY <1>7, <1>11 DEF Global
  <2> QED  BY <1>1, <1>7, <1>8, <1>9, <2>1, <2>2, <2>3 DEF TypeOK
<1>13. TransitionsSound' /\ TableInterned(shapes)'
  BY <1>1, <1>5 DEF TableInterned, TableSound, TransitionsSound
<1>14. ASSUME NEW u \in Sym
       PROVE  /\ SlotOf(new, u)' = b.table[b.shape].slots[u]
              /\ \A e \in Envs : SlotOf(e, u)' = SlotOf(e, u)
  <2>1. SlotOf(new, u)' = b.table[b.shape].slots[u]
    BY <1>1, <1>8 DEF SlotOf
  <2>2. ASSUME NEW e \in Envs PROVE SlotOf(e, u)' = SlotOf(e, u)
    <3>1. shape'[e] = shape[e] /\ shape[e] \in 1..Len(shapes)
      BY <1>3, <1>8
    <3>2. shapes'[shape[e]].slots = shapes[shape[e]].slots
      BY <1>1, <1>5, <3>1
    <3> QED  BY <3>1, <3>2 DEF SlotOf
  <2> QED  BY <2>1, <2>2
<1>15. SlotsBacked'
  <2> SUFFICES ASSUME NEW e \in Envs', NEW u \in Sym
               PROVE  SlotOf(e, u)' <= Len(bindings'[e])
    BY DEF SlotsBacked
  <2>1. CASE e = new
    <3>1. SlotOf(e, u)' = b.table[b.shape].slots[u] /\ bindings'[e] = b.bindings
      BY <1>9, <1>14, <2>1
    <3> QED  BY <1>2, <3>1 DEF Sound, Backed
  <2>2. CASE e \in Envs
    BY <1>9, <1>14, <2>2 DEF ScopeIInv, EnvRunInv, EnvIInv, SlotsBacked
  <2> QED  BY <1>10, <2>1, <2>2
<1>16. SlotsBound'
  <2> SUFFICES ASSUME NEW e \in Envs', NEW u \in Sym, SlotOf(e, u)' # NoSlot
               PROVE  bindings'[e][SlotOf(e, u)'].state = "kValue"
    BY DEF SlotsBound
  <2>1. CASE e = new
    <3>1. SlotOf(e, u)' = b.table[b.shape].slots[u] /\ bindings'[e] = b.bindings
      BY <1>9, <1>14, <2>1
    <3> QED  BY <1>2, <3>1 DEF Sound
  <2>2. CASE e \in Envs
    BY <1>9, <1>14, <2>2 DEF ScopeIInv, EnvRunInv, SlotsBound
  <2> QED  BY <1>10, <2>1, <2>2
<1>17. RootEmpty'
  <2>1. shapes'[1].slots = shapes[1].slots
    <3>1. 1 \in 1..Len(shapes)
      BY <1>3
    <3> QED  BY <1>1, <1>5, <3>1
  <2> QED  BY <2>1 DEF RootEmpty, ScopeIInv, EnvRunInv, EnvIInv
<1>18. EnvIInv' /\ EnvRunInv'
  BY <1>12, <1>13, <1>15, <1>16, <1>17 DEF EnvRunInv, EnvIInv
<1>19. StepKeeps
  <2>1. \A e \in Envs : shape[e] \in Nat
    BY <1>3
  <2>2. Envs \subseteq Envs'
    BY <1>3, <1>10, <1>11
  <2>3. /\ Len(shapes') >= Len(shapes)
        /\ \A k \in 1..Len(shapes) : shapes'[k].slots = shapes[k].slots
    BY <1>1, <1>5
  <2>4. \A e \in Envs : shape'[e] >= shape[e] /\ bindings'[e] = bindings[e]
    BY <1>8, <1>9, <2>1
  <2> QED  BY <2>2, <2>3, <2>4 DEF StepKeeps
<1>20. ScopesNest'
  <2> SUFFICES ASSUME NEW e \in Envs', e > Global PROVE parent'[e] >= Global
    BY DEF ScopesNest
  <2>1. CASE e = new
    BY <1>4, <1>7, <2>1
  <2>2. CASE e \in Envs
    BY <1>7, <2>2 DEF ScopeIInv, ScopesNest
  <2> QED  BY <1>10, <2>1, <2>2
<1>21. frames' \in Seq(RunEnvs')
  <2>1. RunEnvs \subseteq RunEnvs' /\ new \in RunEnvs'
    BY <1>3, <1>10, <1>11 DEF RunEnvs, Empty, Base, Global
  <2>2. frames \in Seq(RunEnvs')
    BY <2>1, SeqMonotonic DEF ScopeIInv
  <2> QED  BY <1>1, <2>1, <2>2, AppendProperties
<1> QED  BY <1>18, <1>19, <1>20, <1>21

\* Steps that change environments but open none that is not nested.
LEMMA NestingKept ==
  ASSUME ScopeIInv, [EnvNext]_envVars
  PROVE  ScopesNest' /\ RunEnvs \subseteq RunEnvs'
<1>1. /\ Len(parent) \in Nat /\ Envs = 1..Len(parent) /\ parent \in Seq(Nat)
      /\ RunEnvs = Envs \ {1, 2}
  BY EnvTypes DEF ScopeIInv, EnvRunInv, EnvIInv, TypeOK, RunEnvs, Empty, Base
<1>2. CASE parent' = parent
  BY <1>2 DEF ScopeIInv, ScopesNest, RunEnvs, Envs
<1>3. CASE \E p \in RunEnvs : NewEnvironment(p)
  <2>1. PICK p \in RunEnvs : parent' = Append(parent, p)
    BY <1>3 DEF NewEnvironment
  <2>2. p \in Nat /\ p >= Global
    BY <1>1 DEF Global
  <2>3. PICK new : new = Len(parent) + 1
    OBVIOUS
  <2>4. /\ parent' \in Seq(Nat) /\ Len(parent') = new
        /\ \A e \in Envs : parent'[e] = parent[e]
        /\ parent'[new] = p
    BY <1>1, <2>1, <2>2, <2>3, AppendProperties
  <2>5. Envs' = 1..new /\ \A e \in Envs' : e = new \/ e \in Envs
    <3>1. Envs' = 1..new
      BY <2>4, LenProperties DEF Envs
    <3> QED  BY <1>1, <2>3, <3>1
  <2>6. ScopesNest'
    <3> SUFFICES ASSUME NEW e \in Envs', e > Global PROVE parent'[e] >= Global
      BY DEF ScopesNest
    <3>1. CASE e = new
      BY <2>2, <2>4, <3>1
    <3>2. CASE e \in Envs
      BY <2>4, <3>2 DEF ScopeIInv, ScopesNest
    <3> QED  BY <2>5, <3>1, <3>2
  <2>7. RunEnvs \subseteq RunEnvs'
    BY <1>1, <2>3, <2>5 DEF RunEnvs, Empty, Base
  <2> QED  BY <2>6, <2>7
<1>4. ASSUME EnvNext PROVE parent' = parent \/ \E p \in RunEnvs : NewEnvironment(p)
  BY <1>4 DEF EnvNext, define, slow_set_super, set_existing
<1> QED  BY <1>2, <1>3, <1>4 DEF envVars

LEMMA RunningRuns ==
  ASSUME ScopeIInv, frames # <<>>
  PROVE  Running \in RunEnvs /\ Running \in Envs
<1>1. Len(frames) \in 1..Len(frames)
  BY LenProperties, EmptySeq DEF ScopeIInv
<1>2. Running \in RunEnvs
  BY <1>1, ElementOfSeq DEF Running, ScopeIInv
<1> QED  BY <1>2 DEF RunEnvs

LEMMA ScopeStep == ScopeIInv /\ [ScopeNext]_scopeVars => ScopeIInv'
<1> SUFFICES ASSUME ScopeIInv, [ScopeNext]_scopeVars PROVE ScopeIInv'
  OBVIOUS
<1>1. CASE UNCHANGED scopeVars
  <2>1. IcIInv'
    BY <1>1, IcStep DEF ScopeIInv, scopeVars
  <2>2. EnvRunInv' /\ ScopesNest' /\ frames' \in Seq(RunEnvs')
    BY <1>1, RunStuttering DEF ScopeIInv, scopeVars, icVars, envVars, ScopesNest, RunEnvs, Envs
  <2> QED  BY <2>1, <2>2 DEF ScopeIInv
<1>2. ASSUME frames # <<>>, NEW i \in Site, Load(i)
      PROVE  ScopeIInv'
  <2>1. LOAD_VAR(i, Running) /\ Running \in RunEnvs /\ UNCHANGED envVars
    BY <1>2, RunningRuns DEF Load, LOAD_VAR
  <2>2. IcIInv'
    BY <2>1, LoadStep DEF ScopeIInv
  <2>3. EnvRunInv' /\ ScopesNest' /\ RunEnvs' = RunEnvs
    BY <2>1, RunStuttering DEF ScopeIInv, envVars, ScopesNest, RunEnvs, Envs
  <2>4. frames' \in Seq(RunEnvs)
    BY <1>2 DEF Load, ScopeIInv
  <2> QED  BY <2>2, <2>3, <2>4 DEF ScopeIInv
<1>3. ASSUME frames # <<>>, NEW s \in Sym, NEW v \in Val, STORE_VAR(s, v) \/ STORE_SUPER(s, v)
      PROVE  ScopeIInv'
  <2>1. EnvNext /\ UNCHANGED <<ic, acc>> /\ frames' = frames
    BY <1>3, RunningRuns DEF STORE_VAR, STORE_SUPER, EnvNext
  <2>2. IcIInv'
    BY <2>1, ChangeStep DEF ScopeIInv, ApiNext
  <2>3. EnvRunInv'
    BY <2>1, RunStep DEF ScopeIInv
  <2>4. ScopesNest' /\ RunEnvs \subseteq RunEnvs'
    BY <2>1, NestingKept
  <2>5. frames' \in Seq(RunEnvs')
    BY <2>1, <2>4, SeqMonotonic DEF ScopeIInv
  <2> QED  BY <2>2, <2>3, <2>4, <2>5 DEF ScopeIInv
<1>4. ASSUME NEW f \in Fn \ {Top}, NEW ce \in ClosureEnvs(f), NEW n \in 0..Len(Params[f]),
             NEW args \in [1..n -> Val], CALL(f, ce, args)
      PROVE  ScopeIInv'
  <2>1. EnvIInv' /\ StepKeeps /\ EnvRunInv' /\ ScopesNest' /\ frames' \in Seq(RunEnvs')
    BY <1>4, CallStep
  <2>2. IcIInv'
    BY <1>4, <2>1, EntriesKept DEF ScopeIInv, CALL
  <2> QED  BY <2>1, <2>2 DEF ScopeIInv
<1>5. ASSUME RETURN PROVE ScopeIInv'
  <2>1. UNCHANGED <<icVars, code>> /\ frames' = SubSeq(frames, 1, Len(frames) - 1)
    BY <1>5 DEF RETURN
  <2>2. IcIInv'
    BY <2>1, IcStep DEF ScopeIInv
  <2>3. EnvRunInv' /\ ScopesNest' /\ RunEnvs' = RunEnvs
    BY <2>1, RunStuttering DEF ScopeIInv, icVars, envVars, ScopesNest, RunEnvs, Envs
  <2>4. frames' \in Seq(RunEnvs)
    <3>1. frames \in Seq(RunEnvs) /\ Len(frames) \in Nat /\ Len(frames) > 1
      BY <1>5, LenProperties DEF ScopeIInv, RETURN
    <3> QED  BY <2>1, <3>1, SubSeqProperties
  <2> QED  BY <2>2, <2>3, <2>4 DEF ScopeIInv
<1> QED  BY <1>1, <1>2, <1>3, <1>4, <1>5 DEF ScopeNext

LEMMA ScopeInvariant == ScopeSpec => []ScopeIInv
  BY ScopeInitial, ScopeStep, PTL DEF ScopeSpec

\* Calls, closures and returns included, a program's environments keep their
\* types, its shapes are interned, its slots bound, and every cached load that
\* hits reads the slot of its own symbol.
THEOREM ProgramsKeepEnvironments ==
  ScopeSpec => [](TypeOK /\ SlotsDense /\ SlotsBound /\ ShapesInterned /\ SlotsBacked
                  /\ HitReadsOwnBinding)
<1>1. ScopeIInv => TypeOK /\ SlotsDense /\ SlotsBound /\ ShapesInterned /\ SlotsBacked
  BY DEF ScopeIInv, EnvRunInv, EnvIInv, TableInterned, TableDense, SlotsDense,
         TableOnce, ShapesInterned
<1>2. ScopeIInv => HitReadsOwnBinding
  <2> SUFFICES ASSUME ScopeIInv, NEW i \in Site, Hit(i)
               PROVE  /\ ic[i].slot # NoSlot
                      /\ ic[i].slot = SlotOf(ic[i].env, SiteSym[i])
                      /\ ic[i].slot <= Len(bindings[ic[i].env])
                      /\ bindings[ic[i].env][ic[i].slot].state = "kValue"
    BY DEF HitReadsOwnBinding
  <2>1. Len(bindings[ic[i].env]) \in Nat
    BY CachedInRange, EnvTypes DEF ScopeIInv, IcIInv, EnvIInv
  <2> QED  BY <2>1, CachedInRange DEF NoSlot, ScopeIInv
<1> QED  BY ScopeInvariant, <1>1, <1>2, PTL

\* Whatever calls are active, x <- v and x <<- v are the chain's.
THEOREM ProgramsAssignAsChains == ScopeSpec => AssignmentsImplementChain
<1>1. ScopeIInv /\ [ScopeNext]_scopeVars =>
        [bindings' # bindings =>
           \A e \in RunEnvs, s \in Sym, v \in Val :
             /\ define(e, s, v) => Chain!ChainDefine(e, s, v)
             /\ slow_set_super(e, s, v) => Chain!ChainSuper(e, s, v)]_envVars
  BY DefineMaps, SuperMaps DEF RunEnvs, ScopeIInv
<1> QED  BY ScopeInvariant, <1>1, PTL DEF ScopeSpec, AssignmentsImplementChain

-----------------------------------------------------------------------------
(***************************************************************************)
(* Global names                                                            *)
(***************************************************************************)

\* Every chain of scopes leads to the global environment, and only its end is.
LEMMA ChainsEndGlobal ==
  ASSUME ScopeIInv, NEW e \in RunEnvs
  PROVE  OnChain(e, Global) /\ Global \notin Below(e, Global)
<1> DEFINE n == Len(parent)
           Good == {x \in 1..n : x >= Global => OnChain(x, Global)}
           Fine == {x \in 1..n : Global \notin Below(x, Global)}
<1>1. /\ n \in Nat /\ n >= 3 /\ Envs = 1..n /\ Older(parent, n)
      /\ e \in 1..n /\ e >= Global /\ Global \in 1..n
  BY EnvTypes DEF ScopeIInv, EnvRunInv, EnvIInv, Older, Envs, RunEnvs, Empty, Base, Global
<1> HIDE DEF n
<1>2. ASSUME NEW x \in 1..n, parent[x] = NoEnv \/ parent[x] \in Good
      PROVE  x \in Good
  <2> SUFFICES ASSUME x >= Global PROVE OnChain(x, Global)
    OBVIOUS
  <2>1. CASE x = Global
    BY <1>1, <2>1, NearestSteps DEF OnChain
  <2>2. CASE x # Global
    <3>1. x > Global
      BY <2>2 DEF Global
    <3>2. parent[x] >= Global /\ parent[x] # NoEnv
      BY <1>1, <3>1 DEF ScopeIInv, ScopesNest, Global, NoEnv
    <3>3. OnChain(parent[x], Global)
      BY <1>2, <3>2
    <3>4. Nearest(parent, {Global}, x) = Nearest(parent, {Global}, parent[x])
      BY <1>1, <2>2, <3>2, NearestSteps
    <3> QED  BY <3>3, <3>4 DEF OnChain
  <2> QED  BY <2>1, <2>2
<1>3. ASSUME NEW x \in 1..n, parent[x] = NoEnv \/ parent[x] \in Fine
      PROVE  x \in Fine
  <2>1. Below(x, Global) = IF x = Global THEN {}
                           ELSE {x} \cup (IF parent[x] = NoEnv THEN {}
                                          ELSE Below(parent[x], Global))
    BY <1>1, BelowSteps
  <2> QED  BY <1>3, <2>1
<1>4. Good = 1..n
  <2>1. Good \in SUBSET (1..n)
    OBVIOUS
  <2> HIDE DEF Good
  <2> QED  BY <1>1, <1>2, <2>1, NoOldestFailure
<1>5. Fine = 1..n
  <2>1. Fine \in SUBSET (1..n)
    OBVIOUS
  <2> HIDE DEF Fine
  <2> QED  BY <1>1, <1>3, <2>1, NoOldestFailure
<1> QED  BY <1>1, <1>4, <1>5

\* A name no call binds always reads its current global value, from whatever
\* function, at whatever depth of calls and closures, and however often the
\* global environment's shape changed.
THEOREM GlobalNamesAreCurrent == ScopeSpec => GlobalNamesCurrent
<1>1. ASSUME ScopeIInv, frames # <<>>, NEW i \in Site, Load(i),
             Visible(SiteSym[i]) \subseteq {Global}
      PROVE  acc' = Lookup(Running, SiteSym[i]).value
  <2>1. LOAD_VAR(i, Running) /\ Running \in RunEnvs
    BY <1>1, RunningRuns DEF Load
  <2>2. SUFFICES ASSUME Hit(i)
                 PROVE  OnChain(Running, ic[i].env)
                        /\ Below(Running, ic[i].env) \cap Visible(SiteSym[i]) = {}
    BY <1>1, <2>1, LoadReads DEF ScopeIInv
  <2>3. ic[i].env \in Visible(SiteSym[i])
    BY <1>1, <2>2, CachedInRange DEF ScopeIInv, Visible, NoSlot
  <2>4. ic[i].env = Global
    BY <1>1, <2>3
  <2> QED  BY <1>1, <2>1, <2>4, ChainsEndGlobal
<1>2. ScopeIInv /\ [ScopeNext]_scopeVars =>
        [\A i \in Site :
           (/\ Load(i)
            /\ Visible(SiteSym[i]) \subseteq {Global})
           => acc' = Lookup(Running, SiteSym[i]).value]_scopeVars
  BY <1>1 DEF ScopeNext
<1> QED  BY ScopeInvariant, <1>2, PTL DEF ScopeSpec, GlobalNamesCurrent
=============================================================================
