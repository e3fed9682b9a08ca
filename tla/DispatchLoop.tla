---------------------------- MODULE DispatchLoop ----------------------------
(***************************************************************************)
(* The handlers of the bytecode (src/vm/interpreter.cpp), for code from    *)
(* wherever: a function is its code, its register count, its parameters    *)
(* and an id of its own.                                                   *)
(*                                                                         *)
(* Registers belong to activations, as Activations promises, and what they *)
(* held stays where the next activation finds it; environments are maps,   *)
(* as ScopeChain promises.  Each LOAD_VAR of a function has its cache, for *)
(* all activations of the function: nothing takes a binding away here, so  *)
(* an environment has the shape it had if it binds the names it bound, and *)
(* a slot is a binding (what InlineCache and Environments are about).      *)
(***************************************************************************)
EXTENDS Builtins

CONSTANT MaxEnvs    \* bound: environments of an execution

\* The three that are there before any program.
ASSUME MaxEnvsAssumption == MaxEnvs \in Nat /\ MaxEnvs >= 3

VARIABLES
  frames,     \* the activations, the running one last
  left,       \* the registers behind the running activation's, as left there
  parent,     \* the environments: enclosing ones
  bound,      \*   and values
  ic,         \* ic[<<id, pc>>]: the environment that instruction remembers, and
              \*   the names that were bound there, its shape
  status      \* "running", "done", "error", or "cut" at a bound

loopVars == <<frames, left, parent, bound, ic, status>>

Store == INSTANCE ScopeChain WITH
  Sym <- {}, Val <- {}, Unbound <- Nil, parent <- parent, bound <- bound

-----------------------------------------------------------------------------
top == frames[Len(frames)]
I   == top.fn.code[top.pc]

Size(fn) == IF fn.nregs = 0 THEN 1 ELSE fn.nregs
Registers(fn) == 0..(Size(fn) - 1)

\* Registers of a new activation: the arguments, then zeroes; a parameter
\* without an argument keeps what is there, and so does the register a function
\* without registers writes its value to.
Activation(fn, env, dst, args) ==
  LET Kept(r) == IF r < Len(left) THEN left[r + 1] ELSE Nil
  IN  [fn |-> fn, env |-> env, dst |-> dst, pc |-> 1,
       regs |-> [r \in Registers(fn) |->
                   IF r < fn.nparams /\ r < Len(args) THEN args[r + 1]
                   ELSE IF r < fn.nparams \/ r >= fn.nregs THEN Kept(r)
                   ELSE Nil]]

\* execute: the function runs in the global environment, below it the base
\* environment and the empty one.
Started(fn) ==
  /\ left = <<>>
  /\ frames = <<Activation(fn, Store!Global, 0, <<>>)>>
  /\ parent = <<Store!NoEnv, Store!Empty, Store!Base>>
  /\ bound = << <<>>, register_primitives, <<>> >>
  /\ ic = <<>>
  /\ status = "running"

-----------------------------------------------------------------------------
\* The frames once register r of the running one is v and it is at pc.
With(r, v, pc) ==
  [frames EXCEPT ![Len(frames)] = [top EXCEPT !.regs = [top.regs EXCEPT ![r] = v], !.pc = pc]]

At(pc) == [frames EXCEPT ![Len(frames)] = [top EXCEPT !.pc = pc]]

Put(v) == frames' = With(I.rdest, v, top.pc + 1) /\ UNCHANGED <<left, parent, bound, status>>

raise_error == status' = "error" /\ UNCHANGED <<frames, left, parent, bound>>

\* Handlers that compute one register of others.
LOAD ==
  \/ I.op = "LOAD_NIL"   /\ Put(Nil)
  \/ I.op = "LOAD_INT"   /\ Put(Num(I.k))
  \/ I.op = "LOAD_REAL"  /\ Put(Dbl(I.k))
  \/ I.op = "LOAD_TRUE"  /\ Put(Bool(1))
  \/ I.op = "LOAD_FALSE" /\ Put(Bool(0))
  \/ I.op = "LOAD_NA"    /\ Put(Bool(NA))
  \/ I.op = "LOAD_STRING" /\ Put(Text(I.k))
  \/ I.op = "LOAD_LOCAL" /\ Put(top.regs[I.ra])

Binary == {"ADD", "SUB", "MUL", "MAKE_SEQ", "AND", "OR", "AND_SCALAR", "OR_SCALAR",
           "LT", "LE", "GT", "GE", "EQ", "NE"}

\* Mutant: operands of the wrong types are not refused.
ArithUnchecked == I.op \in Binary /\ Put(Operate(I.op, top.regs[I.ra], top.regs[I.rb]))

Arith ==
  /\ I.op \in Binary
  /\ LET v == Operate(I.op, top.regs[I.ra], top.regs[I.rb])
     IN  IF v = Raised THEN raise_error ELSE Put(v)

\* NEG leaves its register alone if there is nothing to negate.
NEG ==
  /\ I.op = "NEG"
  /\ LET v == Negated(top.regs[I.ra]) IN Put(IF v = Raised THEN top.regs[I.rdest] ELSE v)

NOT == I.op = "NOT" /\ Put(Not(top.regs[I.ra]))

LENGTH ==
  /\ I.op = "LENGTH"
  /\ LET v == top.regs[I.ra]
     IN  Put(Num(CASE v.tag = "vec" -> Len(v.items) [] v.tag = "nil" -> 0 [] OTHER -> 1))

INDEX ==
  \/ I.op \in {"INDEX", "INDEX2"} /\ Put(Element(top.regs[I.ra], top.regs[I.rb]))
  \/ I.op = "INDEX_NAMED" /\ Put(Nil)

MAKE_CLOSURE == I.op = "MAKE_CLOSURE" /\ Put(Closure(I.k, top.env))

\* The marks of loops; and the stores to elements, which store nothing.
Nothing ==
  /\ I.op \in {"LOOP_HEADER", "LOOP_BACKEDGE", "INDEX_ASSIGN", "INDEX2_ASSIGN", "INDEX_NAMED_ASSIGN"}
  /\ frames' = At(top.pc + 1)
  /\ UNCHANGED <<left, parent, bound, status>>

JUMP ==
  /\ \/ I.op = "JUMP" /\ frames' = At(I.k)
     \/ /\ I.op = "JUMP_IF_FALSE"
        /\ frames' = At(IF Truthy(top.regs[I.ra]) THEN top.pc + 1 ELSE I.k)
  /\ UNCHANGED <<left, parent, bound, status>>

\* The nearest environment from e that binds x.
Found(e, x) ==
  LET binders == {d \in DOMAIN parent : x \in DOMAIN bound[d]}
      b       == Store!Nearest(parent, binders, e)
  IN  IF b \in binders THEN b ELSE Store!NoEnv

\* The map b with x bound to v.
Defined(b, x, v) == [y \in DOMAIN b \cup {x} |-> IF y = x THEN v ELSE b[y]]

\* The instruction that executes, for all who execute it.
site == <<top.fn.id, top.pc>>

\* It remembers an environment that has the shape it had, whoever executes it.
Hit == site \in DOMAIN ic /\ DOMAIN bound[ic[site].env] = ic[site].names

LoadHit == Hit /\ Put(bound[ic[site].env][I.k]) /\ UNCHANGED ic

LoadMiss ==
  LET b == Found(top.env, I.k)
  IN  /\ ~Hit /\ b # Store!NoEnv
      /\ Put(bound[b][I.k])
      /\ ic' = Defined(ic, site, [env |-> b, names |-> DOMAIN bound[b]])

\* slow_lookup_var raises the error before anything is remembered.
LoadError == ~Hit /\ Found(top.env, I.k) = Store!NoEnv /\ raise_error /\ UNCHANGED ic

LOAD_VAR == I.op = "LOAD_VAR" /\ (LoadHit \/ LoadMiss \/ LoadError)

StoreTo(e) ==
  /\ bound' = [bound EXCEPT ![e] = Defined(@, I.k, top.regs[I.ra])]
  /\ frames' = At(top.pc + 1)
  /\ UNCHANGED <<left, parent, status>>

STORE_VAR == I.op = "STORE_VAR" /\ StoreTo(top.env)

\* set_existing searches from the running environment itself.
STORE_SUPER ==
  /\ I.op = "STORE_SUPER"
  /\ LET b == Found(top.env, I.k)
     IN  StoreTo(IF b = Store!NoEnv THEN Store!Global ELSE b)

-----------------------------------------------------------------------------
Args == [i \in 1..I.k |-> top.regs[I.ra + i]]

\* The bindings of a call of f: of parameters of one name, the last.
Bindings(f) ==
  LET n == IF I.k < f.nparams THEN I.k ELSE f.nparams
  IN  [x \in {f.params[i] : i \in 1..n} |->
         Args[CHOOSE i \in 1..n : f.params[i] = x /\ \A j \in (i + 1)..n : f.params[j] # x]]

\* A closure's code runs in an environment of its own.
Enter(c) ==
  IF Len(parent) = MaxEnvs
    THEN status' = "cut" /\ UNCHANGED <<frames, left, parent, bound>>
    ELSE /\ parent' = Append(parent, c.env)
         /\ bound' = Append(bound, Bindings(c.fn))
         /\ frames' = Append(At(top.pc + 1), Activation(c.fn, Len(parent) + 1, I.rdest, Args))
         /\ left' = SubSeq(left, Size(c.fn) + 1, Len(left))
         /\ UNCHANGED status

CALL ==
  /\ I.op = "CALL"
  /\ LET f == top.regs[I.ra]
     IN  CASE f.tag = "closure" -> Enter(f)
           [] f.tag = "builtin" -> Put(Impl(f.name, Args))
           [] OTHER             -> raise_error

RETURN ==
  /\ I.op \in {"RETURN", "RETURN_NULL"}
  /\ LET v    == IF I.op = "RETURN" THEN top.regs[I.ra] ELSE Nil
         n    == Len(frames) - 1
         regs == frames[n].regs
     IN  IF n = 0 THEN status' = "done" /\ UNCHANGED <<frames, left>>
         ELSE /\ frames' = [SubSeq(frames, 1, n) EXCEPT ![n] =
                              [@ EXCEPT !.regs = [regs EXCEPT ![top.dst] = v]]]
              /\ left' = [i \in 1..Size(top.fn) |-> top.regs[i - 1]] \o left
              /\ UNCHANGED status
  /\ UNCHANGED <<parent, bound>>

HALT == I.op = "HALT" /\ status' = "done" /\ UNCHANGED <<frames, left, parent, bound>>

Handler ==
  /\ status = "running"
  /\ \/ LOAD_VAR
     \/ /\ \/ LOAD \/ Arith \/ NEG \/ NOT \/ LENGTH \/ INDEX \/ MAKE_CLOSURE \/ Nothing \/ JUMP
           \/ STORE_VAR \/ STORE_SUPER \/ CALL \/ RETURN \/ HALT
        /\ UNCHANGED ic

\* fn, executed.
LoopSpec(fn) == Started(fn) /\ [][Handler]_loopVars

-----------------------------------------------------------------------------
(***************************************************************************)
(* Properties                                                              *)
(***************************************************************************)

\* What handlers rely on when they branch on a value's tag; envs are the
\* environments there are.
Typed(v, envs) ==
  /\ v.tag \in {"nil", "num", "real", "lgl", "str", "vec", "closure", "builtin"}
  /\ v.tag = "vec" => v.vtype \in {"num", "real", "str"}
  /\ v.tag = "closure" => v.env \in envs
  /\ v.tag = "builtin" => v.name \in DOMAIN register_primitives

\* The type invariant: every activation is at an instruction of its code, in an
\* environment that exists and with the registers its function asks for; its
\* result goes to a register of its caller; registers, those of activations that
\* have ended too, and bindings hold values; chains of environments end; and a
\* cache remembers an environment, which binds its name.
CodeTypeOK ==
  /\ status \in {"running", "done", "error", "cut"}
  /\ frames # <<>>
  /\ \A k \in DOMAIN frames :
       LET f == frames[k]
       IN  /\ f.pc \in DOMAIN f.fn.code
           /\ f.env \in DOMAIN parent
           /\ DOMAIN f.regs = Registers(f.fn)
           /\ \A r \in DOMAIN f.regs : Typed(f.regs[r], DOMAIN parent)
           /\ k > 1 => f.dst \in Registers(frames[k - 1].fn)
           /\ LET at == <<f.fn.id, f.pc>>
              IN  at \in DOMAIN ic => f.fn.code[f.pc].k \in ic[at].names
  /\ Len(parent) = Len(bound) /\ Len(parent) <= MaxEnvs
  /\ \A i \in DOMAIN left : Typed(left[i], DOMAIN parent)
  /\ \A e \in DOMAIN parent :
       /\ parent[e] \in 0..(e - 1)
       /\ \A x \in DOMAIN bound[e] : Typed(bound[e][x], DOMAIN parent)
  /\ \A at \in DOMAIN ic :
       /\ ic[at].env \in DOMAIN parent
       /\ ic[at].names \subseteq DOMAIN bound[ic[at].env]

\* Code stays inside its frame: the registers it names are allocated, the
\* arguments of a call are right after the callee, jumps lead to
\* instructions, and code ends in an instruction that leaves it.
Fits(fn) ==
  LET code == fn.code
  IN  /\ fn.nregs \in Nat /\ fn.nparams \in 0..fn.nregs /\ fn.nparams = Len(fn.params)
      /\ Len(code) \in Nat /\ DOMAIN code = 1..Len(code)
      /\ \A i \in DOMAIN code :
           LET c == code[i]
           IN  /\ {c.rdest, c.ra, c.rb} \subseteq Registers(fn)
               /\ c.op = "CALL" => c.k \in Nat /\ c.ra + c.k < fn.nregs
               /\ c.op \in {"JUMP", "JUMP_IF_FALSE"} => c.k \in DOMAIN code
      /\ code # <<>> /\ code[Len(code)].op = "HALT"

\* The code that is executed stays inside its frame: what CallStack assumes of
\* code.
CodeFits == \A k \in DOMAIN frames : Fits(frames[k].fn)
=============================================================================
