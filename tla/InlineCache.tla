---------------------------- MODULE InlineCache -----------------------------
(***************************************************************************)
(* The inline cache of LOAD_VAR (src/vm/interpreter.cpp, op_LOAD_VAR; the  *)
(* arrays are members of BytecodeFunction, include/rjit/bytecode/          *)
(* module.hpp).  Each LOAD_VAR instruction remembers the environment its   *)
(* last slow lookup found the name in, the shape that environment had and  *)
(* the slot; it reads that slot again for as long as that environment has  *)
(* that shape.                                                             *)
(*                                                                         *)
(* Environments change under the cache in every way class Environment      *)
(* allows, remove included, and any environment may execute any site: what *)
(* this module shows of the cache does not depend on the program.  Module  *)
(* LexicalScope puts it under programs, with calls and closures.           *)
(***************************************************************************)
EXTENDS Environments

CONSTANTS
  Site,       \* the LOAD_VAR instructions: a function and an index in its code
  SiteSym     \* SiteSym[i]: the symbol operand of instruction i

ASSUME SiteSymAssumption == SiteSym \in [Site -> Sym]

VARIABLES
  ic,         \* ic[i]: ic_envs, ic_shapes and ic_slots of instruction i
  acc         \* the register the last LOAD_VAR wrote; Unbound after an error

icVars == <<envVars, ic, acc>>

\* BytecodeFunction::finalize sizes the arrays with null environments.
NotCached == [env |-> NoEnv, shape |-> NoShape, slot |-> NoSlot]

\* Mutant: any environment that was found is a hit.
HitAnyShape(i) == ic[i].env # NoEnv

\* The guard of the fast path.
Hit(i) == ic[i].env # NoEnv /\ shape[ic[i].env] = ic[i].shape

\* Environment::slot_get: no state check, no symbol, just the slot.
slot_get(e, slot) == bindings[e][slot].value

-----------------------------------------------------------------------------
IcInit ==
  /\ EnvInit
  /\ ic = [i \in Site |-> NotCached]
  /\ acc = Unbound

\* Mutant: the slot itself is loaded.
LoadHitSlot(i) ==
  /\ Hit(i)
  /\ acc' = ic[i].slot
  /\ UNCHANGED ic

LoadHit(i) ==
  /\ Hit(i)
  /\ acc' = slot_get(ic[i].env, ic[i].slot)
  /\ UNCHANGED ic

\* Mutant: the shape remembered is that of the environment the code runs in.
LoadMissRunningShape(i, e) ==
  LET found == Lookup(e, SiteSym[i])
  IN  /\ ~Hit(i)
      /\ found.found
      /\ acc' = found.value
      /\ ic' = [ic EXCEPT ![i] = [env   |-> found.env,
                                  shape |-> shape[e],
                                  slot  |-> found.slot]]

\* Mutant: the lookup is not asked for the slot, which stays the first.
LoadMissFirstSlot(i, e) ==
  LET found == Lookup(e, SiteSym[i])
  IN  /\ ~Hit(i)
      /\ found.found
      /\ acc' = found.value
      /\ ic' = [ic EXCEPT ![i] = [env   |-> found.env,
                                  shape |-> shape[found.env],
                                  slot  |-> 1]]

LoadMiss(i, e) ==
  LET found == Lookup(e, SiteSym[i])
  IN  /\ ~Hit(i)
      /\ found.found
      /\ acc' = found.value
      /\ ic' = [ic EXCEPT ![i] = [env   |-> found.env,
                                  shape |-> shape[found.env],
                                  slot  |-> found.slot]]

\* slow_lookup_var raises "object not found" before the cache is written.
LoadError(i, e) ==
  /\ ~Hit(i)
  /\ ~Lookup(e, SiteSym[i]).found
  /\ acc' = Unbound
  /\ UNCHANGED ic

\* op_LOAD_VAR at instruction i, run by a frame whose environment is e.
LOAD_VAR(i, e) ==
  /\ LoadHit(i) \/ LoadMiss(i, e) \/ LoadError(i, e)
  /\ UNCHANGED envVars

IcNext ==
  \/ ApiNext /\ UNCHANGED <<ic, acc>>
  \/ \E i \in Site, e \in RunEnvs : LOAD_VAR(i, e)

IcSpec == IcInit /\ [][IcNext]_icVars

-----------------------------------------------------------------------------
(***************************************************************************)
(* Properties                                                              *)
(***************************************************************************)

CacheEntry == [env : Nat, shape : Nat, slot : Nat]

\* The type invariant.
IcTypeOK ==
  /\ TypeOK
  /\ ic \in [Site -> CacheEntry]
  /\ \A i \in Site : ic[i].env # NoEnv => ic[i].env \in Envs
  /\ acc \in Val \cup {Unbound}

\* The environment a site remembers has the shape it remembers or a later
\* one, never an earlier one it might grow into again.
CacheNotAhead ==
  \A i \in Site : ic[i].env # NoEnv => ic[i].shape <= shape[ic[i].env]

\* A hit reads the slot of the site's own symbol, which is in range and bound:
\* the shape guard is all the fast path needs to know about the environment
\* it reads ("Requires the caller to have verified shape").
HitReadsOwnBinding ==
  \A i \in Site :
    Hit(i) => /\ ic[i].slot # NoSlot
              /\ ic[i].slot = SlotOf(ic[i].env, SiteSym[i])
              /\ ic[i].slot <= Len(bindings[ic[i].env])
              /\ bindings[ic[i].env][ic[i].slot].state = "kValue"

\* The environments on the chain from e, before it reaches environment top.
Below(e, top) ==
  LET chain[x \in Envs] ==
        IF x = top THEN {} ELSE {x} \cup (IF parent[x] = NoEnv THEN {}
                                          ELSE chain[parent[x]])
  IN  chain[e]

OnChain(e, top) == Nearest(parent, {top}, e) = top

\* A LOAD_VAR reads what the name means in the environment that executes it,
\* unless the environment it remembers is not on that environment's chain, or
\* a nearer one has come to bind the name.  In particular the value is never
\* out of date: an assignment to the remembered binding is always seen ("IC
\* must return updated value after variable is reassigned").
WrongOnlyOutOfScope ==
  [][\A i \in Site, e \in RunEnvs :
       LOAD_VAR(i, e) =>
         \/ acc' = Lookup(e, SiteSym[i]).value
         \/ /\ Hit(i)
            /\ \/ ~OnChain(e, ic[i].env)
               \/ Below(e, ic[i].env) \cap Visible(SiteSym[i]) # {}]_icVars
=============================================================================
