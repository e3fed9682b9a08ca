----------------------------- MODULE ScopeChain -----------------------------
(***************************************************************************)
(* What R's environments promise the programs that run in them: an         *)
(* environment is a mutable map from symbols to values with an enclosing   *)
(* environment, and a name means its binding in the nearest environment,   *)
(* along the chain of enclosing ones, that binds it.  No shapes, no slots  *)
(* and no caches: those are the business of module Environments, which     *)
(* implements this one.                                                    *)
(***************************************************************************)
EXTENDS Naturals, Sequences

CONSTANTS
  Sym,        \* the symbols programs use (interned identifiers)
  Val,        \* the values a binding can hold
  Unbound,    \* "no binding": not a value
  MaxEnvs     \* bound: environments that may exist at once (nothing is freed)

NoEnv  == 0   \* the null Environment*
Empty  == 1   \* g_empty
Base   == 2   \* g_base
Global == 3   \* g_global

VARIABLES
  parent,     \* parent[e]: the enclosing environment, or NoEnv
  bound       \* bound[e][s]: the value e binds s to, or Unbound

chainVars == <<parent, bound>>

Envs == DOMAIN parent

-----------------------------------------------------------------------------
(***************************************************************************)
(* The first environment at or above e, along the parents par, that is in  *)
(* binders; NoEnv when the walk leaves the chain.                          *)
(***************************************************************************)
Nearest(par, binders, e) ==
  LET walk[x \in DOMAIN par] ==
        IF x \in binders        THEN x
        ELSE IF par[x] = NoEnv  THEN NoEnv
        ELSE walk[par[x]]
  IN  walk[e]

Binders(s) == {e \in Envs : bound[e][s] # Unbound}

\* What the name s means to code that runs in environment e.
Meaning(e, s) ==
  LET b == Nearest(parent, Binders(s), e)
  IN  IF b \in Binders(s) THEN bound[b][s] ELSE Unbound

-----------------------------------------------------------------------------
ChainInit ==
  /\ parent = <<NoEnv, Empty, Base>>
  /\ bound = [e \in 1..3 |-> [s \in Sym |-> Unbound]]

\* A function call opens an environment enclosed by the closure's.
ChainNew(p) ==
  /\ Len(parent) < MaxEnvs
  /\ parent' = Append(parent, p)
  /\ bound' = Append(bound, [s \in Sym |-> Unbound])

\* x <- v
ChainDefine(e, s, v) ==
  /\ bound' = [bound EXCEPT ![e] = [@ EXCEPT ![s] = v]]
  /\ UNCHANGED parent

\* x <<- v: the nearest existing binding, or a new one in the global
\* environment when the chain has none.
ChainSuper(e, s, v) ==
  LET b == Nearest(parent, Binders(s), e)
  IN  IF b \in Binders(s) THEN ChainDefine(b, s, v)
                          ELSE ChainDefine(Global, s, v)

ChainNext ==
  \E e \in Envs :
    \/ ChainNew(e)
    \/ \E s \in Sym, v \in Val : ChainDefine(e, s, v) \/ ChainSuper(e, s, v)

ChainSpec == ChainInit /\ [][ChainNext]_chainVars
=============================================================================
