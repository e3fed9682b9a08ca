------------------------------ MODULE Lowering ------------------------------
(***************************************************************************)
(* The lowerer (src/frontend/lower.cpp) and the builder it emits code with *)
(* (src/bytecode/module.cpp): syntax trees to register code.               *)
(*                                                                         *)
(* Trees are records with a kind, as the parser builds them.               *)
(*                                                                         *)
(* A builder is the code emitted, the registers allocated, the register of *)
(* each promoted name, the targets of the loops around, the register of    *)
(* the expression lowered last, and where the function is written, which   *)
(* tells it from another of the same text.  Registers count from 0,        *)
(* instructions from 1 (from 0 in the code).                               *)
(***************************************************************************)
EXTENDS Integers, Sequences, TLC

LOCAL INSTANCE SequencesExt

\* Syntax (include/rjit/frontend/ast.hpp).
Absent         == [kind |-> "absent"]        \* a null AstPtr
NilNode        == [kind |-> "nil"]
Lit(n)         == [kind |-> "num", n |-> n]  \* 1L
Real(n)        == [kind |-> "real", n |-> n] \* 1
Lgl(v)         == [kind |-> "lgl", v |-> v]
Str(s)         == [kind |-> "str", s |-> s]
Var(x)         == [kind |-> "var", name |-> x]
BinOp(o, l, r) == [kind |-> "op", op |-> o, lhs |-> l, rhs |-> r]
UnOp(o, e)     == [kind |-> "unop", op |-> o, arg |-> e]
AssignTo(t, e, super) == [kind |-> IF super THEN "super" ELSE "assign", target |-> t, value |-> e]
Assign(x, e)   == AssignTo(Var(x), e, FALSE)
Super(x, e)    == AssignTo(Var(x), e, TRUE)
CallOf(c, as)  == [kind |-> "call", callee |-> c, args |-> as]
Call(f, as)    == CallOf(Var(f), as)
NamedArg(x, e) == [kind |-> "named", name |-> x, value |-> e]
MissingArg     == [kind |-> "missing"]
If(c, t, e)    == [kind |-> "if", cond |-> c, then |-> t, else |-> e]
For(x, q, b)   == [kind |-> "for", name |-> x, seq |-> q, body |-> b]
While(c, b)    == [kind |-> "while", cond |-> c, body |-> b]
Repeat(b)      == [kind |-> "repeat", body |-> b]
Break          == [kind |-> "break"]
Next           == [kind |-> "next"]
Return(e)      == [kind |-> "return", value |-> e]
Block(ss)      == [kind |-> "block", stmts |-> ss]
Paren(e)       == [kind |-> "paren", expr |-> e]
Index(e, as, dbl) == [kind |-> "index", base |-> e, args |-> as, dbl |-> dbl]
Dollar(e, x)   == [kind |-> "dollar", base |-> e, name |-> x]
Slot(e, x)     == [kind |-> "slot", base |-> e, name |-> x]
FunOf(ps, ds, b) == [kind |-> "fun", params |-> ps, defaults |-> ds, body |-> b]
Fun(ps, b)     == FunOf(ps, [i \in DOMAIN ps |-> Absent], b)

IsRange(node) == node.kind = "op" /\ node.op = ":"

-----------------------------------------------------------------------------
(***************************************************************************)
(* BytecodeBuilder                                                         *)
(***************************************************************************)
Instr(op, rdest, ra, rb, k) ==
  [op |-> op, rdest |-> rdest, ra |-> ra, rb |-> rb, k |-> k]

NewBuilder ==
  [id |-> <<>>, code |-> <<>>, nregs |-> 0, slots |-> <<>>, loops |-> <<>>, res |-> 0]

alloc_reg(b) == [b EXCEPT !.nregs = @ + 1, !.res = b.nregs]

emit(b, instrs) == [b EXCEPT !.code = @ \o instrs]

\* The instruction emitted next.
current_count(b) == Len(b.code) + 1

patch_k(b, at, k) == [b EXCEPT !.code = [@ EXCEPT ![at] = [@ EXCEPT !.k = k]]]

\* finalize appends a HALT to the code.
finalize(b, params) ==
  [id      |-> b.id,
   code    |-> b.code \o <<Instr("HALT", 0, 0, 0, 0)>>,
   nregs   |-> b.nregs,
   nparams |-> Len(params),
   params  |-> params]

-----------------------------------------------------------------------------
(***************************************************************************)
(* Lowerer.  lower_expr(b, node, dst) leaves the value of node in register *)
(* dst, or in a fresh one when dst is Discard (UINT32_MAX); res is where   *)
(* the value is.                                                           *)
(***************************************************************************)
Discard == -1

RECURSIVE lower_expr(_, _, _)

In(b, r) == [b EXCEPT !.res = r]

\* slot_for finds a register, or one is allocated and the name promoted.
promoted(b, x) ==
  IF x \in DOMAIN b.slots
    THEN In(b, b.slots[x])
    ELSE LET n == alloc_reg(b) IN [n EXCEPT !.slots = (x :> n.res) @@ @]

lower_symbol(b, node, dst) ==
  IF node.name \notin DOMAIN b.slots
    THEN emit(b, <<Instr("LOAD_VAR", dst, 0, 0, node.name)>>)
  ELSE IF b.slots[node.name] # dst
    THEN emit(b, <<Instr("LOAD_LOCAL", dst, b.slots[node.name], 0, 0)>>)
  ELSE b

OpCode ==
  [o \in {"+", "-", "*", "/", "^", "<", "<=", ">", ">=", "==", "!=",
          "&", "&&", "|", "||", ":"} |->
    CASE o = "+"  -> "ADD" [] o = "-"  -> "SUB" [] o = "*"  -> "MUL" [] o = "/"  -> "DIV"
      [] o = "^"  -> "POW" [] o = "<"  -> "LT"  [] o = "<=" -> "LE"  [] o = ">"  -> "GT"
      [] o = ">=" -> "GE"  [] o = "==" -> "EQ"  [] o = "!=" -> "NE"  [] o = ":"  -> "MAKE_SEQ"
      [] o = "&"  -> "AND_SCALAR" [] o = "&&" -> "AND"
      [] o = "|"  -> "OR_SCALAR"  [] o = "||" -> "OR"]

\* Mutant: the first operand is computed into the destination.
lower_binop_into(b, node, dst) ==
  LET l == lower_expr(b, node.lhs, dst)
      r == lower_expr(l, node.rhs, Discard)
  IN  emit(r, <<Instr(OpCode[node.op], dst, l.res, r.res, 0)>>)

lower_binop(b, node, dst) ==
  LET l == lower_expr(b, node.lhs, Discard)
      r == lower_expr(l, node.rhs, Discard)
  IN  emit(r, <<Instr(OpCode[node.op], dst, l.res, r.res, 0)>>)

lower_unaryop(b, node, dst) ==
  LET e == lower_expr(b, node.arg, Discard)
  IN  emit(e, <<Instr(IF node.op = "-" THEN "NEG" ELSE "NOT", dst, e.res, 0, 0)>>)

\* The stores to the elements args[i..] of the vector in register to.
RECURSIVE store_elements(_, _, _, _, _)
store_elements(b, node, i, to, v) ==
  IF i > Len(node.args) THEN b
  ELSE LET e == lower_expr(b, node.args[i], Discard)
           o == IF node.dbl THEN "INDEX2_ASSIGN" ELSE "INDEX_ASSIGN"
       IN  store_elements(IF node.args[i] = MissingArg THEN b
                          ELSE emit(e, <<Instr(o, to, e.res, v, 0)>>),
                          node, i + 1, to, v)

\* The value, in register v.res, is stored to the target.
store_to(v, node) ==
  LET to   == node.target
      p    == promoted(v, to.name)
      base == lower_expr(v, to.base, Discard)
  IN  CASE to.kind = "index" -> store_elements(base, to, 1, base.res, v.res)
        [] to.kind = "dollar" ->
             emit(base, <<Instr("INDEX_NAMED_ASSIGN", base.res, 0, v.res, to.name)>>)
        [] node.kind = "super" -> emit(v, <<Instr("STORE_SUPER", 0, v.res, 0, to.name)>>)
        [] OTHER ->
             emit(p, (IF p.res # v.res THEN <<Instr("LOAD_LOCAL", p.res, v.res, 0, 0)>>
                                       ELSE <<>>)
                     \o <<Instr("STORE_VAR", 0, p.res, 0, to.name)>>)

lower_assign(b, node, dst, discard) ==
  LET v      == lower_expr(b, node.value, Discard)
      stored == store_to(v, node)
  IN  In(IF ~discard /\ dst # v.res
           THEN emit(stored, <<Instr("LOAD_LOCAL", dst, v.res, 0, 0)>>)
           ELSE stored,
         v.res)

\* The arguments from number i on, into the registers after callee.
RECURSIVE lower_args(_, _, _, _)
lower_args(b, args, i, callee) ==
  IF i > Len(args) THEN b
  ELSE lower_args(lower_expr(b, args[i], callee + i), args, i + 1, callee)

\* An argument that is left out is dropped, whatever follows it.
Given(args) == SelectSeq(args, LAMBDA a : a # MissingArg)

\* Mutant: no register is reserved for the last argument.
lower_call_short(b, node, dst) ==
  LET callee   == alloc_reg(b)
      reserved == [callee EXCEPT !.nregs = @ + Len(node.args) - 1]
      args     == lower_args(reserved, node.args, 1, callee.res)
  IN  emit(args, <<Instr("LOAD_VAR", callee.res, 0, 0, node.callee.name),
                   Instr("CALL", dst, callee.res, 0, Len(node.args))>>)

\* The callee's register, one for each argument after it, the arguments, and
\* the callee itself last.
lower_call(b, node, dst) ==
  LET given    == Given(node.args)
      callee   == alloc_reg(b)
      reserved == [callee EXCEPT !.nregs = @ + Len(given)]
      args     == lower_args(reserved, given, 1, callee.res)
  IN  emit(args, <<Instr("LOAD_VAR", callee.res, 0, 0, node.callee.name),
                   Instr("CALL", dst, callee.res, 0, Len(given))>>)

lower_if(b, node, dst) ==
  LET c     == lower_expr(b, node.cond, Discard)
      jump  == emit(c, <<Instr("JUMP_IF_FALSE", 0, c.res, 0, 0)>>)
      then  == emit(lower_expr(jump, node.then, dst), <<Instr("JUMP", 0, 0, 0, 0)>>)
      other == patch_k(then, Len(jump.code), current_count(then))
      end   == IF node.else = Absent
                 THEN emit(other, <<Instr("LOAD_NIL", dst, 0, 0, 0)>>)
                 ELSE lower_expr(other, node.else, dst)
  IN  patch_k(end, Len(then.code), current_count(end))

\* The body of a loop, with what break and next jump to.
lower_body(b, body, break_target, next_target) ==
  LET in == [b EXCEPT !.loops = Append(@, [break_target |-> break_target,
                                           next_target  |-> next_target])]
  IN  lower_expr(in, body, Discard)

\* The back edge, the loop's exit and its value.
loop_end(b, header, dst) ==
  LET back == emit(b, <<Instr("LOOP_BACKEDGE", 0, 0, 0, 0),
                        Instr("JUMP", 0, 0, 0, header)>>)
      out  == [back EXCEPT !.loops = SubSeq(@, 1, Len(@) - 1)]
  IN  emit(out, <<Instr("LOAD_NIL", dst, 0, 0, 0)>>)

\* for (x in l:r): the variable itself counts.
lower_for_range(b, node, dst) ==
  LET x      == promoted(b, node.name)
      start  == lower_expr(x, node.seq.lhs, Discard)
      stop   == lower_expr(start, node.seq.rhs, Discard)
      header == emit(stop, <<Instr("LOAD_LOCAL", x.res, start.res, 0, 0),
                             Instr("LOOP_HEADER", 0, 0, 0, 0)>>)
      cmp    == alloc_reg(header)
      test   == emit(cmp, <<Instr("LE", cmp.res, x.res, stop.res, 0),
                            Instr("JUMP_IF_FALSE", 0, cmp.res, 0, 0)>>)
      body   == lower_body(test, node.body, current_count(test), current_count(test))
      count  == emit(body, <<Instr("LOAD_INT", cmp.res, 0, 0, 1),
                             Instr("ADD", x.res, x.res, cmp.res, 0)>>)
      end    == loop_end(count, Len(header.code), dst)
  IN  patch_k(end, Len(test.code), Len(end.code))

\* for (x in q): the sequence is materialized and indexed.
lower_for_seq(b, node, dst) ==
  LET x      == promoted(b, node.name)
      q      == lower_expr(x, node.seq, Discard)
      len    == alloc_reg(q)
      idx    == alloc_reg(len)
      cmp    == alloc_reg(idx)
      header == emit(cmp, <<Instr("LENGTH", len.res, q.res, 0, 0),
                            Instr("LOAD_INT", idx.res, 0, 0, 1),
                            Instr("LOOP_HEADER", 0, 0, 0, 0)>>)
      test   == emit(header, <<Instr("LE", cmp.res, idx.res, len.res, 0),
                               Instr("JUMP_IF_FALSE", 0, cmp.res, 0, 0)>>)
      item   == emit(test, <<Instr("INDEX2", x.res, q.res, idx.res, 0)>>)
      body   == lower_body(item, node.body, current_count(item), current_count(item))
      inc    == alloc_reg(body)
      count  == emit(inc, <<Instr("LOAD_INT", inc.res, 0, 0, 1),
                            Instr("ADD", idx.res, idx.res, inc.res, 0)>>)
      end    == loop_end(count, Len(header.code), dst)
  IN  patch_k(end, Len(test.code), Len(end.code))

lower_for(b, node, dst) ==
  IF IsRange(node.seq) THEN lower_for_range(b, node, dst) ELSE lower_for_seq(b, node, dst)

\* Mutant: the back edge skips the condition.
lower_while_once(b, node, dst) ==
  LET header == emit(b, <<Instr("LOOP_HEADER", 0, 0, 0, 0)>>)
      c      == lower_expr(header, node.cond, Discard)
      test   == emit(c, <<Instr("JUMP_IF_FALSE", 0, c.res, 0, 0)>>)
      body   == lower_body(test, node.body, current_count(test), Len(header.code))
      end    == loop_end(body, current_count(test), dst)
  IN  patch_k(end, Len(test.code), Len(end.code))

lower_while(b, node, dst) ==
  LET header == emit(b, <<Instr("LOOP_HEADER", 0, 0, 0, 0)>>)
      c      == lower_expr(header, node.cond, Discard)
      test   == emit(c, <<Instr("JUMP_IF_FALSE", 0, c.res, 0, 0)>>)
      body   == lower_body(test, node.body, current_count(test), Len(header.code))
      end    == loop_end(body, Len(header.code), dst)
  IN  patch_k(end, Len(test.code), Len(end.code))

lower_repeat(b, node, dst) ==
  LET header == emit(b, <<Instr("LOOP_HEADER", 0, 0, 0, 0)>>)
      body   == lower_body(header, node.body, current_count(header), Len(header.code))
  IN  loop_end(body, Len(header.code), dst)

RECURSIVE lower_block(_, _, _)
lower_block(b, stmts, dst) ==
  IF stmts = <<>> THEN b
  ELSE lower_block(lower_expr(b, Head(stmts), dst), Tail(stmts), dst)

lower_return(b, node) ==
  IF node.value = Absent
    THEN emit(b, <<Instr("RETURN_NULL", 0, 0, 0, 0)>>)
    ELSE LET v == lower_expr(b, node.value, 0)
         IN  emit(v, (IF v.res # 0 THEN <<Instr("LOAD_LOCAL", 0, v.res, 0, 0)>>
                                   ELSE <<>>)
                     \o <<Instr("RETURN", 0, 0, 0, 0)>>)

\* The number of the parameter with a name; the last one of that name has it.
Position(params, x) == SelectLastInSeq(params, LAMBDA p : p = x)

\* With several indices, the first.
lower_index(b, node, dst) ==
  LET o    == IF node.dbl THEN "INDEX2" ELSE "INDEX"
      base == lower_expr(b, node.base, Discard)
      i    == lower_expr(base, node.args[1], Discard)
  IN  IF node.args \in {<<>>, <<MissingArg>>}
        THEN emit(base, <<Instr(o, dst, base.res, 0, 0)>>)
        ELSE emit(i, <<Instr(o, dst, base.res, i.res, 0)>>)

lower_dollar(b, node, dst) ==
  LET base == lower_expr(b, node.base, Discard)
  IN  emit(base, <<Instr("INDEX_NAMED", dst, base.res, 0, node.name)>>)

\* The code of a function, by a Lowerer of its own: parameters have the first
\* registers, the value of the body is left in register 0.
lower_function(node, id) ==
  LET n    == Len(node.params)
      regs == [x \in {node.params[i] : i \in 1..n} |->
                 Position(node.params, x) - 1]
      body == lower_expr([NewBuilder EXCEPT !.id = id, !.nregs = n, !.slots = regs],
                         node.body, 0)
  IN  finalize(emit(body, <<Instr("RETURN", 0, 0, 0, 0)>>), node.params)

lower_expr(b0, node, dst0) ==
  LET discard == dst0 = Discard
      b       == IF discard THEN alloc_reg(b0) ELSE b0
      dst     == IF discard THEN b.res ELSE dst0
  IN  CASE node.kind = "nil" -> In(emit(b, <<Instr("LOAD_NIL", dst, 0, 0, 0)>>), dst)
        [] node.kind = "num" -> In(emit(b, <<Instr("LOAD_INT", dst, 0, 0, node.n)>>), dst)
        [] node.kind = "real" -> In(emit(b, <<Instr("LOAD_REAL", dst, 0, 0, node.n)>>), dst)
        [] node.kind = "lgl" ->
             In(emit(b, <<Instr(CASE node.v = 1 -> "LOAD_TRUE" [] node.v = 0 -> "LOAD_FALSE"
                                  [] OTHER -> "LOAD_NA", dst, 0, 0, 0)>>), dst)
        [] node.kind = "str" -> In(emit(b, <<Instr("LOAD_STRING", dst, 0, 0, node.s)>>), dst)
        [] node.kind = "missing" -> In(emit(b, <<Instr("LOAD_NIL", dst, 0, 0, 0)>>), dst)
        [] node.kind = "paren" -> lower_expr(b, node.expr, dst)
        [] node.kind = "unop"  -> In(lower_unaryop(b, node, dst), dst)
        [] node.kind = "index" -> In(lower_index(b, node, dst), dst)
        [] node.kind = "dollar" -> In(lower_dollar(b, node, dst), dst)
        [] node.kind = "var" -> In(lower_symbol(b, node, dst), dst)
        [] node.kind = "op"  -> In(lower_binop(b, node, dst), dst)
        [] node.kind \in {"assign", "super"} -> lower_assign(b, node, dst, discard)
        [] node.kind = "call"   -> In(lower_call(b, node, dst), dst)
        [] node.kind = "if"     -> In(lower_if(b, node, dst), dst)
        [] node.kind = "for"    -> In(lower_for(b, node, dst), dst)
        [] node.kind = "while"  -> In(lower_while(b, node, dst), dst)
        [] node.kind = "repeat" -> In(lower_repeat(b, node, dst), dst)
        [] node.kind = "break"  ->
             In(emit(b, <<Instr("JUMP", 0, 0, 0, b.loops[Len(b.loops)].break_target)>>), dst)
        [] node.kind = "next"   ->
             In(emit(b, <<Instr("JUMP", 0, 0, 0, b.loops[Len(b.loops)].next_target)>>), dst)
        [] node.kind = "return" -> In(lower_return(b, node), dst)
        [] node.kind = "block"  -> In(lower_block(b, node.stmts, dst), dst)
        [] node.kind = "fun"    ->
             LET f == lower_function(node, Append(b.id, current_count(b)))
             IN  In(emit(b, <<Instr("MAKE_CLOSURE", dst, 0, 0, f)>>), dst)

\* What the lowerer refuses with an error, below a loop or not.
RECURSIVE Refused(_, _)
Refused(node, inLoop) ==
  LET Some(s) == \E i \in DOMAIN s : Refused(s[i], inLoop)
  IN  CASE node.kind \in {"slot", "named"} -> TRUE
        [] node.kind = "unop"  -> node.op = "~" \/ Refused(node.arg, inLoop)
        [] node.kind = "op"    -> Some(<<node.lhs, node.rhs>>)
        [] node.kind \in {"assign", "super"} ->
             \/ node.target.kind \notin {"var", "index", "dollar"}
             \/ Some(<<node.value, node.target>>)
        [] node.kind = "call"  -> node.callee.kind # "var" \/ Some(node.args)
        [] node.kind = "if"    -> Some(<<node.cond, node.then, node.else>>)
        [] node.kind = "for"   -> Refused(node.seq, inLoop) \/ Refused(node.body, TRUE)
        [] node.kind = "while" -> Refused(node.cond, inLoop) \/ Refused(node.body, TRUE)
        [] node.kind = "repeat" -> Refused(node.body, TRUE)
        [] node.kind \in {"break", "next"} -> ~inLoop
        [] node.kind = "return" -> Refused(node.value, inLoop)
        [] node.kind = "block" -> Some(node.stmts)
        [] node.kind = "paren" -> Refused(node.expr, inLoop)
        [] node.kind = "index" -> Refused(node.base, inLoop) \/ Some(node.args)
        [] node.kind = "dollar" -> Refused(node.base, inLoop)
        [] node.kind = "fun"   -> Refused(node.body, FALSE)
        [] OTHER -> FALSE

\* The top-level statements, each for its effect.
lower_program(root) ==
  finalize(IF root.kind = "block"
             THEN LET each[i \in 0..Len(root.stmts)] ==
                        IF i = 0 THEN NewBuilder
                        ELSE lower_expr(each[i - 1], root.stmts[i], Discard)
                  IN  each[Len(root.stmts)]
             ELSE lower_expr(NewBuilder, root, Discard),
           <<>>)
=============================================================================
