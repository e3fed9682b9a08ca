------------------------------ MODULE Meaning -------------------------------
(***************************************************************************)
(* What a program of R means, from its syntax alone: environments as maps, *)
(* no registers and no code.  The reference for lowered code.              *)
(*                                                                         *)
(* Evaluation threads a state s:                                           *)
(*   env            the environment that runs                              *)
(*   parent, bound  the environments, as in ScopeChain                     *)
(*   ctl, val       how the last evaluation ended and its value            *)
(*   fuel           bound: iterations and calls left                       *)
(*   met            the hazards of the lowerer's method the program met    *)
(* and, to know when a hazard is met: self[e], about the activation e: its *)
(* text, the name that has register 0 (first), the names it may keep in    *)
(* registers (locals), and those it always does (kept); the pairs of an    *)
(* activation and a name in clobbered (a statement before this one left    *)
(* its value in register 0), stale (x <<- v changed a local of an          *)
(* activation that has it in a register), counted (x was the variable of a *)
(* loop) and counting (it is, now); and found, what code of which text has *)
(* read which name in which environment.                                   *)
(*                                                                         *)
(* The hazards:                                                            *)
(*   "jump"          break leaves a loop, or next goes on with a for loop  *)
(*   "register 0"    a name in register 0 is read after a statement of the *)
(*                   body of its function                                  *)
(*   "empty block"   a block without a statement is evaluated              *)
(*   "super"         a local is read after an inner function's <<-         *)
(*   "own super"     x <<- v where the running activation binds x          *)
(*   "unassigned"    a local is read that this activation never assigned   *)
(*   "cached"        a function, in any of its activations, reads a name it *)
(*                   does not keep in a register, and has read that name   *)
(*                   in another environment before                         *)
(*   "loop variable" a loop's variable is used outside the loop, or        *)
(*                   assigned in it                                        *)
(*   "descending"    a loop over a range that goes down                    *)
(*   "scalar"        a loop over a value that is not a vector              *)
(*   "eager"         && or || is decided by its first operand, and the     *)
(*                   second one does something                             *)
(*   "element"       an element is assigned                                *)
(*   "indices"       an element is asked for by no or by several indices   *)
(*   "negated"       what is no number is negated                          *)
(*   "missing"       an argument of a call is left out                     *)
(*   "shadowed"      the nearest binding of a called name is no function,  *)
(*                   one further away is                                   *)
(*   "combined"      c has arguments of different types, or no scalar      *)
(*                   among integers, or nothing                            *)
(*   "empty range"   seq_len or seq_along of nothing                       *)
(*   "nan"           is.na of a double that is NaN                         *)
(***************************************************************************)
EXTENDS Lowering, FiniteSets, Builtins

Chain == INSTANCE ScopeChain WITH
  Sym <- {}, Val <- {}, Unbound <- Absent, MaxEnvs <- 0, parent <- <<>>, bound <- <<>>

Global == Chain!Global

-----------------------------------------------------------------------------
(***************************************************************************)
(* Operators and builtins mean what the interpreter computes, but for what *)
(* is given here.                                                          *)
(***************************************************************************)

\* c: the elements in order, as the widest of their types.
Combined(args) ==
  LET ts == {VType(args[i]) : i \in DOMAIN args}
  IN  IF ts \subseteq {"nil"} THEN Nil
      ELSE Vec(CASE "str" \in ts -> "str" [] "real" \in ts \ {"str"} -> "real"
                 [] "num" \in ts -> "num" [] OTHER -> "lgl",
               Collect(args, ts))

\* All doubles, or all integers and a scalar among them.
Alike(args) ==
  LET given == {args[i] : i \in DOMAIN args} \ {Nil}
  IN  \/ {VType(v) : v \in given} = {"real"}
      \/ {VType(v) : v \in given} = {"num"} /\ \E v \in given : ~IsVec(v)

Called(f, args) ==
  CASE f = "c" -> Combined(args)
    [] f = "seq_len" /\ args # <<>> -> Vec("num", Up(1, args[1].n))
    [] f = "seq_along" /\ args # <<>> -> Vec("num", Up(1, length_impl(args).n))
    [] f = "is.na" /\ args # <<>> /\ args[1].tag = "real" -> Truth(args[1].n = NA)
    [] OTHER -> Impl(f, args)

-----------------------------------------------------------------------------
(***************************************************************************)
(* The names an activation may keep in registers, those it always does,    *)
(* and which has register 0                                                *)
(***************************************************************************)

\* What is evaluated in the activation that evaluates node, in textual order.
Parts(node) ==
  CASE node.kind \in {"assign", "super"} ->
         <<node.value>> \o (IF node.target.kind = "var" THEN <<>> ELSE <<node.target>>)
    [] node.kind = "unop"   -> <<node.arg>>
    [] node.kind = "paren"  -> <<node.expr>>
    [] node.kind = "dollar" -> <<node.base>>
    [] node.kind = "index"  -> <<node.base>> \o node.args
    [] node.kind = "op"     -> <<node.lhs, node.rhs>>
    [] node.kind = "call"   -> node.args
    [] node.kind = "if"     -> <<node.cond, node.then, node.else>>
    [] node.kind = "for"    -> <<node.seq, node.body>>
    [] node.kind = "while"  -> <<node.cond, node.body>>
    [] node.kind = "repeat" -> <<node.body>>
    [] node.kind = "return" -> <<node.value>>
    [] node.kind = "block"  -> node.stmts
    [] OTHER                -> <<>>

Counts(node) == IF node.kind = "for" THEN {node.name} ELSE {}

RECURSIVE Locals(_)
Locals(node) ==
  LET own   == IF node.kind = "assign" /\ node.target.kind = "var" THEN {node.target.name} ELSE {}
      parts == Parts(node)
  IN  own \cup Counts(node) \cup UNION {Locals(parts[i]) : i \in DOMAIN parts}

\* The names that node has read at a place before any that assigns them.
RECURSIVE ReadFirst(_, _)
ReadFirst(node, assigned) ==
  LET parts     == Parts(node)
      Before(i) == UNION {Locals(parts[j]) : j \in 1..(i - 1)}
  IN  IF node.kind = "var" THEN {node.name} \ assigned
      ELSE UNION {ReadFirst(parts[i], assigned \cup Counts(node) \cup Before(i)) :
                    i \in DOMAIN parts}

NoName == "no name"

\* The first parameter; without parameters the variable of a loop that the
\* body begins with, if it does.
RECURSIVE FirstIn(_)
FirstIn(node) ==
  IF node.kind = "for" THEN node.name
  ELSE IF node.kind = "block" /\ node.stmts # <<>> THEN FirstIn(node.stmts[1])
  ELSE NoName

First(fun) == IF fun.params # <<>> THEN fun.params[1] ELSE FirstIn(fun.body)

About(text, first, body, params) ==
  LET locals == Locals(body) \cup params
  IN  [text |-> text, first |-> first, locals |-> locals, kept |-> locals \ ReadFirst(body, params)]

OfFunction(fun) == About(fun, First(fun), fun.body, {fun.params[i] : i \in DOMAIN fun.params})
OfProgram(program) == About(program, NoName, program, {})

-----------------------------------------------------------------------------
Ok(s, v)       == [s EXCEPT !.ctl = "ok", !.val = v]
Leave(s, ctl)  == [s EXCEPT !.ctl = ctl]
Meet(s, h, is) == IF is THEN [s EXCEPT !.met = @ \cup {h}] ELSE s

\* An error if v is one.
Give(s, v) == IF v = Raised THEN Leave(s, "error") ELSE Ok(s, v)

Binds(s, e, x) == x \in DOMAIN s.bound[e]

BinderFrom(s, e, x) ==
  LET binders == {d \in DOMAIN s.parent : Binds(s, d, x)}
      b       == Chain!Nearest(s.parent, binders, e)
  IN  IF b \in binders THEN b ELSE Chain!NoEnv

Bind(s, e, x, v) == [s EXCEPT !.bound = [@ EXCEPT ![e] = (x :> v) @@ @]]

\* The value of a name for the code that runs, by the nearest binding.
Read(s, x) ==
  LET b == BinderFrom(s, s.env, x)
  IN  IF b = Chain!NoEnv THEN Leave(s, "error") ELSE Ok(s, s.bound[b][x])

\* A name is found where it was, or not.
LookUp(s, x) ==
  LET b == BinderFrom(s, s.env, x)
      t == s.self[s.env].text
  IN  [Meet(s, "cached", \E d \in DOMAIN s.parent \ {b} : <<t, x, d>> \in s.found)
         EXCEPT !.found = @ \cup {<<t, x, b>>}]

\* A binding that a loop made is in a register alone, and right only in it.
ReadsLoopVariable(s, x, inLoopToo) ==
  LET b == BinderFrom(s, s.env, x)
  IN  /\ <<b, x>> \in s.counted
      /\ ~(b = s.env /\ <<b, x>> \in s.counting /\ inLoopToo)

EvalName(s, x) ==
  LET here == <<s.env, x>>
      s1 == Meet(s, "register 0", here \in s.clobbered)
      s2 == Meet(s1, "super", here \in s.stale)
      s3 == Meet(s2, "unassigned", x \in s.self[s.env].locals /\ ~Binds(s, s.env, x))
      s4 == Meet(s3, "loop variable", ReadsLoopVariable(s, x, TRUE))
  IN  Read(IF x \in s.self[s.env].kept THEN s4 ELSE LookUp(s4, x), x)

EvalAssign(s, x) ==
  LET here == <<s.env, x>>
      s1   == Meet(s, "loop variable", here \in s.counting)
  IN  Bind([s1 EXCEPT !.stale = @ \ {here}, !.counted = @ \ {here}], s.env, x, s.val)

\* The enclosing environments are searched, not the one that runs.
EvalSuper(s, x) ==
  LET up == s.parent[s.env]
      b  == IF up = Chain!NoEnv THEN up ELSE BinderFrom(s, up, x)
      to == IF b = Chain!NoEnv THEN Global ELSE b
      s1 == Meet(s, "own super", Binds(s, s.env, x))
      s2 == Meet(s1, "loop variable", <<to, x>> \in s.counted)
      s3 == IF x \in s.self[to].locals THEN [s2 EXCEPT !.stale = @ \cup {<<to, x>>}] ELSE s2
  IN  Bind(s3, to, x, s.val)

RECURSIVE Eval(_, _, _)

\* The arguments from number i on, with the values of those before; one that
\* is left out has none.
RECURSIVE EvalArgs(_, _, _, _)
EvalArgs(args, i, values, s) ==
  IF i > Len(args) THEN Ok(s, Vec("any", values))
  ELSE IF args[i] = MissingArg
    THEN EvalArgs(args, i + 1, Append(values, Raised), Meet(s, "missing", TRUE))
  ELSE LET a == Eval(args[i], FALSE, s)
       IN  IF a.ctl # "ok" THEN a
           ELSE EvalArgs(args, i + 1, Append(values, a.val), a)

\* A call of the closure c in a new environment.
EvalCall(c, args, s) ==
  LET fun   == c.fn
      n     == IF Len(args) < Len(fun.params) THEN Len(args) ELSE Len(fun.params)
      e     == Len(s.parent) + 1
      named == [x \in {fun.params[i] : i \in {j \in 1..n : args[j] # Raised}} |->
                  args[Position(SubSeq(fun.params, 1, n), x)]]
      in    == [s EXCEPT !.env = e, !.fuel = @ - 1,
                         !.parent = Append(@, c.env),
                         !.bound  = Append(@, named),
                         !.self   = Append(@, OfFunction(fun))]
      out   == Eval(fun.body, TRUE, in)
      back  == [out EXCEPT !.env = s.env]
  IN  IF s.fuel = 0 THEN Leave(s, "spent")
      ELSE IF out.ctl = "return" THEN Ok(back, out.val) ELSE back

\* A call of a builtin.
EvalBuiltin(f, args, s) ==
  LET given == SelectSeq(args, LAMBDA v : v # Raised)
      s1 == Meet(s, "combined", f = "c" /\ ~Alike(given))
      s2 == Meet(s1, "empty range", \/ f = "seq_len" /\ given # <<>> /\ given[1].n < 1
                                    \/ f = "seq_along" /\ length_impl(given).n = 0)
      s3 == Meet(s2, "nan", f = "is.na" /\ given # <<>> /\ given[1] = Dbl(NA))
  IN  Ok(s3, Called(f, given))

\* The function a name means: bindings that are not functions are passed over.
ReadFunction(s, x) ==
  LET binders == {d \in DOMAIN s.parent : Binds(s, d, x) /\ IsFunction(s.bound[d][x])}
      b       == Chain!Nearest(s.parent, binders, s.env)
      s1      == LookUp(s, x)
  IN  IF b \notin binders THEN Leave(s1, "error")
      ELSE Ok(Meet(s1, "shadowed", b # BinderFrom(s, s.env, x)), s.bound[b][x])

\* Statements in order; in the body of a function each leaves its value in
\* register 0.
RECURSIVE EvalStmts(_, _, _)
EvalStmts(stmts, tail, s) ==
  LET one == Eval(Head(stmts), tail, s)
      r0  == <<s.env, s.self[s.env].first>>
  IN  IF Len(stmts) = 1 \/ one.ctl # "ok" THEN one
      ELSE EvalStmts(Tail(stmts), tail,
             IF tail THEN [one EXCEPT !.clobbered = @ \cup {r0}] ELSE one)

\* A loop after one evaluation of its body: it ends, or goes on.
Goes(s) == s.ctl \in {"ok", "next"}
Done(s) == IF s.ctl = "break" THEN Ok(Meet(s, "jump", TRUE), Nil) ELSE s

RECURSIVE EvalFor(_, _, _, _)
EvalFor(node, items, i, s) ==
  LET here == <<s.env, node.name>>
      in   == Bind([s EXCEPT !.counted  = @ \cup {here},
                             !.stale = @ \ {here},
                             !.fuel = @ - 1], s.env, node.name, items[i])
      one  == Eval(node.body, FALSE, in)
  IN  IF i > Len(items) THEN Ok(s, Nil)
      ELSE IF s.fuel = 0 THEN Leave(s, "spent")
      ELSE IF Goes(one) THEN EvalFor(node, items, i + 1, Meet(one, "jump", one.ctl = "next"))
      ELSE Done(one)

EvalLoop(node, q, s) ==
  LET here  == <<s.env, node.name>>
      items == CASE q.tag = "vec" -> [i \in DOMAIN q.items |-> Element(q, Num(i))]
                 [] q.tag = "nil" -> <<>> [] OTHER -> <<q>>
      s1    == Meet(s, "scalar", q.tag \notin {"vec", "nil"})
      s2    == Meet(s1, "descending", /\ IsRange(node.seq)
                                      /\ Len(items) > 1
                                      /\ items[1].n > items[2].n)
      s3    == Meet(s2, "loop variable", here \in s.counting)
      out   == EvalFor(node, items, 1,
                 [s3 EXCEPT !.counting = @ \cup {here}])
  IN  [out EXCEPT !.counting = s.counting]

RECURSIVE EvalWhile(_, _, _)
EvalWhile(cond, body, s) ==
  LET c   == IF cond = Absent THEN Ok(s, Num(1)) ELSE Eval(cond, FALSE, s)
      one == Eval(body, FALSE, [c EXCEPT !.fuel = @ - 1])
  IN  IF c.ctl # "ok" THEN c
      ELSE IF ~Truthy(c.val) THEN Ok(c, Nil)
      ELSE IF c.fuel = 0 THEN Leave(c, "spent")
      ELSE IF Goes(one) THEN EvalWhile(cond, body, one)
      ELSE Done(one)

\* A decided && or || leaves its second operand alone; where it would have read
\* names is found all the same.
EvalOp(op, node, s) ==
  LET l == Eval(node.lhs, FALSE, s)
      r == Eval(node.rhs, FALSE, l)
  IN  IF l.ctl # "ok" THEN l
      ELSE IF op \in {"AND", "OR"} /\ Decides(op, l.val)
        THEN LET l1 == [l EXCEPT !.found = r.found]
             IN  Ok(Meet(l1, "eager", r # [l1 EXCEPT !.val = r.val]), Operate(op, l.val, Nil))
      ELSE IF r.ctl # "ok" THEN r
      ELSE Give(r, Operate(op, l.val, r.val))

EvalUnary(op, e) ==
  IF e.ctl # "ok" THEN e
  ELSE IF op = "!" THEN Ok(e, Not(e.val))
  ELSE LET v == Negated(e.val) IN Give(Meet(e, "negated", v = Raised), v)

\* Names of elements find none: no value has them.
EvalElement(node, s) ==
  LET base == Eval(node.base, FALSE, s)
      i    == Eval(node.args[1], FALSE, base)
  IN  IF base.ctl # "ok" \/ node.kind = "dollar" THEN Ok(base, Nil)
      ELSE IF Len(node.args) # 1 THEN Meet(base, "indices", TRUE)
      ELSE IF i.ctl # "ok" THEN i
      ELSE Ok(i, Element(base.val, i.val))

\* The vector the name has is bound to it with an element of it replaced.
EvalReplace(to, s) ==
  LET old == Eval(to.base, FALSE, s)
      i   == Eval(to.args[1], FALSE, old)
      new == [old.val EXCEPT !.items = [@ EXCEPT ![i.val.n] = s.val.n]]
  IN  IF \/ to.kind = "dollar" \/ old.ctl # "ok" \/ i.ctl # "ok"
         \/ Element(old.val, i.val) = Nil \/ s.val.tag # old.val.vtype
        THEN Meet(s, "element", TRUE)
        ELSE Bind(Meet(Ok(i, s.val), "element", TRUE), s.env, to.base.name, new)

\* tail: the value is the value of the function (register 0).
Eval(node, tail, s) ==
  CASE node.kind = "nil" -> Ok(s, Nil)
    [] node.kind = "num" -> Ok(s, Num(node.n))
    [] node.kind = "real" -> Ok(s, Dbl(node.n))
    [] node.kind = "lgl" -> Ok(s, Bool(IF node.v \in {0, 1} THEN node.v ELSE NA))
    [] node.kind = "str" -> Ok(s, Text(node.s))
    [] node.kind = "missing" -> Ok(s, Nil)
    [] node.kind = "paren" -> Eval(node.expr, tail, s)
    [] node.kind = "var" -> EvalName(s, node.name)
    [] node.kind = "op"  -> EvalOp(OpCode[node.op], node, s)
    [] node.kind = "unop" -> EvalUnary(node.op, Eval(node.arg, FALSE, s))
    [] node.kind \in {"index", "dollar"} -> EvalElement(node, s)
    [] node.kind \in {"assign", "super"} ->
         LET v == Eval(node.value, FALSE, s)
         IN  IF v.ctl # "ok" THEN v
             ELSE IF node.target.kind # "var" THEN EvalReplace(node.target, v)
             ELSE IF node.kind = "super" THEN EvalSuper(v, node.target.name)
             ELSE EvalAssign(v, node.target.name)
    [] node.kind = "call" ->
         LET as == EvalArgs(node.args, 1, <<>>, s)
             f  == ReadFunction(Meet(as, "loop variable",
                                     ReadsLoopVariable(as, node.callee.name, FALSE)),
                                node.callee.name)
         IN  IF as.ctl # "ok" THEN as
             ELSE IF f.ctl # "ok" THEN f
             ELSE IF f.val.tag = "builtin" THEN EvalBuiltin(f.val.name, as.val.items, f)
             ELSE EvalCall(f.val, as.val.items, f)
    [] node.kind = "if" ->
         LET c == Eval(node.cond, FALSE, s)
         IN  IF c.ctl # "ok" THEN c
             ELSE IF Truthy(c.val) THEN Eval(node.then, tail, c)
             ELSE IF node.else = Absent THEN Ok(c, Nil)
             ELSE Eval(node.else, tail, c)
    [] node.kind = "for" ->
         LET q == Eval(node.seq, FALSE, s)
         IN  IF q.ctl # "ok" THEN q ELSE EvalLoop(node, q.val, q)
    [] node.kind = "while"  -> EvalWhile(node.cond, node.body, s)
    [] node.kind = "repeat" -> EvalWhile(Absent, node.body, s)
    [] node.kind \in {"break", "next"} -> Leave(s, node.kind)
    [] node.kind = "return" ->
         LET v == IF node.value = Absent THEN Ok(s, Nil) ELSE Eval(node.value, TRUE, s)
         IN  IF v.ctl = "ok" THEN Leave(v, "return") ELSE v
    [] node.kind = "block" ->
         IF node.stmts = <<>> THEN Ok(Meet(s, "empty block", TRUE), Nil)
         ELSE EvalStmts(node.stmts, tail, s)
    [] node.kind = "fun" -> Ok(s, Closure(node, s.env))

\* A program in the global environment, which keeps its names in registers too.
Evaluate(program, fuel) ==
  Eval(program, FALSE,
       [env    |-> Global, parent |-> <<Chain!NoEnv, Chain!Empty, Chain!Base>>,
        bound  |-> << <<>>, register_primitives, <<>> >>, ctl |-> "ok", val |-> Nil, fuel |-> fuel,
        met    |-> {},
        self   |-> <<OfProgram(NilNode), OfProgram(NilNode), OfProgram(program)>>,
        found  |-> {}, clobbered |-> {}, stale |-> {}, counted |-> {}, counting |-> {}])
=============================================================================
