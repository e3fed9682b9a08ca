---------------------------- MODULE LexicalScope ----------------------------
(***************************************************************************)
(* Programs over the cached environments: closures, calls and returns, and *)
(* the variable instructions each running function executes                *)
(* (src/vm/interpreter.cpp: op_MAKE_CLOSURE, op_CALL, op_RETURN,           *)
(* op_LOAD_VAR, op_STORE_VAR, op_STORE_SUPER).  A function's code is       *)
(* shared by all its closures and activations, and so is the cache of each *)
(* LOAD_VAR in it.                                                         *)
(*                                                                         *)
(* A closure is a pair of code and environment; the environments it may    *)
(* have are those of activations of the function it is written in.  A      *)
(* closure value outlives the activation that made it, so any of them may  *)
(* be called at any time.  The promotion of locals to registers is not     *)
(* modelled: a site stands for a name the lowerer reads with LOAD_VAR,     *)
(* which are the free names of a function and every callee name.           *)
(***************************************************************************)
EXTENDS InlineCache

CONSTANTS
  Fn,         \* the functions of the program
  Top,        \* the top-level code
  Encl,       \* Encl[f]: the function f is written in
  Params,     \* Params[f]: the parameters of f, a sequence of symbols
  SiteFn      \* SiteFn[i]: the function instruction i belongs to

ASSUME FnAssumption ==
  /\ Top \in Fn
  /\ Encl \in [Fn \ {Top} -> Fn]
  /\ Params \in [Fn -> Seq(Sym)]
  /\ SiteFn \in [Site -> Fn]

NoFn == Top   \* the empty and base environments are nobody's activation

VARIABLES
  code,       \* code[e]: the function whose activation environment e is
  frames      \* the environments of the activations on the frame stack

scopeVars == <<icVars, code, frames>>

Running == frames[Len(frames)]

\* Environments in which a closure of f can have been made.
ClosureEnvs(f) == {e \in RunEnvs : code[e] = Encl[f]}

-----------------------------------------------------------------------------
ScopeInit ==
  /\ IcInit
  /\ code = <<NoFn, NoFn, Top>>
  /\ frames = <<Global>>

\* The call environment op_CALL builds: the arguments there are, defined under
\* the parameters' names in order.
Bound(f, args) ==
  LET n == IF Len(args) < Len(Params[f]) THEN Len(args) ELSE Len(Params[f])
      after[i \in 0..n] ==
        IF i = 0
          THEN [table |-> shapes, shape |-> 1, bindings |-> <<>>]
          ELSE LET p == after[i - 1]
               IN  Defined(p.table, p.shape, p.bindings, Params[f][i], args[i])
  IN  after[n]

\* op_CALL of a closure of f over environment ce.
CALL(f, ce, args) ==
  LET b == Bound(f, args)
  IN  /\ Len(parent) < MaxEnvs
      /\ Len(b.table) <= MaxShapes
      /\ shapes' = b.table
      /\ parent' = Append(parent, ce)
      /\ shape' = Append(shape, b.shape)
      /\ bindings' = Append(bindings, b.bindings)
      /\ code' = Append(code, f)
      /\ frames' = Append(frames, Len(parent) + 1)
      /\ UNCHANGED <<ic, acc>>

\* op_RETURN of a call: the caller's environment is current again.
RETURN ==
  /\ Len(frames) > 1
  /\ frames' = SubSeq(frames, 1, Len(frames) - 1)
  /\ UNCHANGED <<icVars, code>>

STORE_VAR(s, v) ==
  /\ define(Running, s, v)
  /\ UNCHANGED <<ic, acc, code, frames>>

STORE_SUPER(s, v) ==
  /\ slow_set_super(Running, s, v)
  /\ UNCHANGED <<ic, acc, code, frames>>

\* LOAD_VAR, by the running frame: an error unwinds every frame.
Load(i) ==
  /\ SiteFn[i] = code[Running]
  /\ LOAD_VAR(i, Running)
  /\ frames' = IF acc' = Unbound THEN <<>> ELSE frames
  /\ UNCHANGED code

ScopeNext ==
  /\ frames # <<>>
  /\ \/ \E i \in Site : Load(i)
     \/ \E s \in Sym, v \in Val : STORE_VAR(s, v) \/ STORE_SUPER(s, v)
     \/ \E f \in Fn \ {Top} :
          \E ce \in ClosureEnvs(f), n \in 0..Len(Params[f]) :
            \E args \in [1..n -> Val] : CALL(f, ce, args)
     \/ RETURN

ScopeSpec == ScopeInit /\ [][ScopeNext]_scopeVars

-----------------------------------------------------------------------------
(***************************************************************************)
(* Properties                                                              *)
(***************************************************************************)

\* A name that no call binds always reads its current global value, from
\* whatever function and however often the shape of the global environment
\* changed: the names of the tests in tests/suite/ic, but for the x that
\* nested_environments.r binds in a function too.
GlobalNamesCurrent ==
  [][\A i \in Site :
       (/\ Load(i)
        /\ Visible(SiteSym[i]) \subseteq {Global})
       => acc' = Lookup(Running, SiteSym[i]).value]_scopeVars

\* A name means its binding in the nearest enclosing environment of the
\* activation that reads it ("Closures with proper lexical scoping").
LexicalScoping ==
  [][\A i \in Site :
       Load(i) => acc' = Lookup(Running, SiteSym[i]).value]_scopeVars
=============================================================================
