----------------------------- MODULE DumpGraph ------------------------------
(***************************************************************************)
(* rjit --dump-graph (run_cli): a source is lexed, parsed, lowered, made   *)
(* into a graph, optimized and printed.                                    *)
(*                                                                         *)
(* The source is a tree written in one of the ways it can be written in,   *)
(* so that what comes out of a stage can be compared with what went in.    *)
(***************************************************************************)
EXTENDS Spelling, GraphBuilder, Optimizer

LOCAL INSTANCE SequencesExt

CONSTANTS
  Programs,   \* trees
  Styles      \* ways to write them

ASSUME IntBitsAssumption == IntBits \in 2..31

VARIABLES
  tree,       \* the program, with the parentheses it needs
  src,        \* its text
  at,         \* the character to lex next
  toks, ast, fn,
  built       \* the graph as it was built

vars == <<tree, src, at, toks, ast, fn, built, stage, ir, pass, any, iter, passes>>

Init ==
  /\ \E p \in Programs, st \in Styles :
       /\ tree = Fit(p, 0)
       /\ src = Source(tree, st)
  /\ stage = "lex" /\ at = 1 /\ toks = <<>> /\ ast = Absent /\ fn = <<>>
  /\ built = EmptyGraph /\ ir = EmptyGraph
  /\ pass = 1 /\ any = FALSE /\ iter = 0 /\ passes = 0

lex_all ==
  /\ stage = "lex"
  /\ \E t \in {next_token(src, at)} :
       /\ toks' = Append(toks, t.tok)
       /\ at' = t.at
       /\ stage' = CASE t.tok.kind = "error" -> "error"
                     [] t.tok.kind = "eof" -> "parse"
                     [] OTHER -> "lex"
  /\ UNCHANGED <<tree, src, ast, fn, built, ir, pass, any, iter, passes>>

Parse ==
  /\ stage = "parse"
  /\ \E p \in {parse_program(toks)} :
       /\ ast' = IF p.at = 0 THEN Absent ELSE p.ast
       /\ stage' = IF p.at = 0 THEN "error" ELSE "lower"
  /\ UNCHANGED <<tree, src, at, toks, fn, built, ir, pass, any, iter, passes>>

Lower ==
  /\ stage = "lower"
  /\ IF Refused(ast, FALSE)
       THEN stage' = "error" /\ UNCHANGED fn
       ELSE stage' = "build" /\ fn' = lower_program(ast)
  /\ UNCHANGED <<tree, src, at, toks, ast, built, ir, pass, any, iter, passes>>

\* The graph of code without registers needs the first of them.
Build ==
  /\ stage = "build"
  /\ IF fn.nregs = 0
       THEN stage' = "crashed" /\ UNCHANGED <<built, ir>>
       ELSE stage' = "optimize" /\ built' = build(fn.code, fn.nregs) /\ ir' = built'
  /\ UNCHANGED <<tree, src, at, toks, ast, fn, pass, any, iter, passes>>

before == <<tree, src, at, toks, ast, fn, built>>

Dump == lex_all \/ Parse \/ Lower \/ Build \/ (RunPasses /\ UNCHANGED before)

\* The program goes on while it can: this is WF_vars(Dump), with ENABLED written
\* out.
Running ==
  \/ stage \in {"lex", "parse", "lower", "build"}
  \/ stage = "optimize" /\ (pass = 7 \/ passes < MaxPasses)

Spec == Init /\ [][Dump]_vars /\ (<>[]Running => []<><<TRUE>>_vars)

-----------------------------------------------------------------------------
(***************************************************************************)
(* What a graph computes: the effects in their order, with the terms they  *)
(* use.  A variable is read at a node of the control.                      *)
(***************************************************************************)
Undefined == [kind |-> "Undefined", k |-> "0", const |-> 0, args |-> <<>>, at |-> 0]
TermOf(kind, k, const, args, ctl) == [kind |-> kind, k |-> k, const |-> const, args |-> args, at |-> ctl]
IsConst(t, n) == t.kind = "ConstReal" /\ t.const = n

\* x * 1, x + 0 and x * 0 are what the optimizer takes them for.
Reduced(t) ==
  CASE t.kind = "Mul" /\ IsConst(t.args[2], 1) -> t.args[1]
    [] t.kind = "Mul" /\ IsConst(t.args[2], 0) -> t.args[2]
    [] t.kind = "Add" /\ IsConst(t.args[2], 0) -> t.args[1]
    [] OTHER -> t

Read(kind) == kind \in {"LoadVar", "Call"}

\* The data inputs of a node.
DataOf(n) ==
  CASE n.kind = "LoadVar" \/ n.ins = <<>> -> <<>>
    [] n.kind = "StoreVar" -> <<n.ins[3]>>
    [] OTHER -> Tail(n.ins)

RECURSIVE Term(_, _, _)
Term(gr, i, place) ==
  IF i = Null THEN Undefined
  ELSE LET n == gr.node[i]
       IN  Reduced(TermOf(n.kind, n.k, n.const, [j \in DOMAIN DataOf(n) |-> Term(gr, DataOf(n)[j], place)],
                          IF Read(n.kind) THEN place[n.ins[1]] ELSE 0))

\* A range is made by a call that nothing is ordered after.
IsRangeCall(n) == n.kind = "Call" /\ n.k = "0" /\ Len(n.ins) = 3

Effects(gr, place) ==
  LET acts == SelectSeq(nodes(gr), LAMBDA i : /\ has_side_effects(gr.node[i]) /\ gr.node[i].kind # "End"
                                              /\ ~IsRangeCall(gr.node[i]))
  IN  [j \in DOMAIN acts |-> Term(gr, acts[j], place)]

\* The effects before a node of the control of straight code.
RECURSIVE Depth(_, _)
Depth(gr, i) == IF gr.node[i].kind = "Start" THEN 0 ELSE 1 + Depth(gr, gr.node[i].ins[1])

-----------------------------------------------------------------------------
(***************************************************************************)
(* What straight code computes, run on terms.                              *)
(***************************************************************************)
Straight(code) ==
  /\ \A pc \in DOMAIN code : code[pc].op \notin Skipped \cup Jumps \cup {"LOOP_HEADER"}
  /\ code[1].op \notin Ends    \* EndOf goes on after a block of the first instruction

Ran(code) ==
  LET last == CHOOSE pc \in DOMAIN code : /\ code[pc].op \in Ends
                                          /\ \A q \in 1..(pc - 1) : code[q].op \notin Ends
      Step(s, pc) ==
        LET in == code[pc]
            R(r) == IF r \in DOMAIN s.regs THEN s.regs[r] ELSE Undefined
            n == Len(s.done)
            Set(t) == [s EXCEPT !.regs = (in.rdest :> t) @@ @]
            Do(t) == [s EXCEPT !.done = Append(@, t)]
            call == TermOf("Call", ToString(in.k), 0, [i \in 1..(in.k + 1) |-> R(in.ra + i - 1)], n)
        IN  CASE in.op \in {"LOAD_INT", "LOAD_REAL"} -> Set(TermOf(Constants[in.op], "0", in.k, <<>>, 0))
              [] in.op \in {"LOAD_NIL", "LOAD_TRUE", "LOAD_FALSE"} ->
                   Set(TermOf(Constants[in.op], "0", 0, <<>>, 0))
              [] in.op = "LOAD_LOCAL" -> Set(R(in.ra))
              [] in.op = "LOAD_VAR"   -> Set(TermOf("LoadVar", in.k, 0, <<>>, n))
              [] in.op = "MAKE_CLOSURE" -> Set(TermOf("LoadEnv", ConstantOf(code, pc), 0, <<>>, 0))
              [] in.op \in DOMAIN NodeKind -> Set(Reduced(TermOf(NodeKind[in.op], "0", 0, <<R(in.ra), R(in.rb)>>, 0)))
              [] in.op = "NEG"        -> Set(TermOf("Neg", "0", 0, <<R(in.ra)>>, 0))
              [] in.op = "MAKE_SEQ"   -> Set(TermOf("Call", "0", 0, <<R(in.ra), R(in.rb)>>, n))
              [] in.op = "STORE_VAR"  -> Do(TermOf("StoreVar", in.k, 0, <<R(in.ra)>>, 0))
              [] in.op = "CALL"       -> [Do(call) EXCEPT !.regs = (in.rdest :> call) @@ @]
              [] in.op = "RETURN"     -> Do(TermOf("Return", "0", 0, <<R(in.ra)>>, 0))
              [] in.op = "HALT"       -> Do(TermOf("Return", "0", 0, <<R(0)>>, 0))
              [] in.op = "RETURN_NULL" ->
                   Do(TermOf("Return", "0", 0, <<TermOf("ConstNil", "0", 0, <<>>, 0)>>, 0))
  IN  Fold(Step, [regs |-> <<>>, done |-> <<>>], [pc \in 1..last |-> pc]).done

-----------------------------------------------------------------------------
(***************************************************************************)
(* Properties                                                              *)
(***************************************************************************)
\* However a program is written, it is read as it was meant: no two texts are
\* taken for one, operators bind as their table says, arguments, branches and
\* statements end where they should.  Only the lowerer refuses a program.
ParsesBack ==
  /\ ast # Absent => ast = tree
  /\ stage = "error" => ast # Absent /\ Refused(ast, FALSE)

\* The graph of straight code has its effects, in the order of the code, on
\* the values the code computes.
GraphRight ==
  HasGraph /\ Straight(fn.code) => Effects(built, [i \in Ids(built) |-> Depth(built, i)]) = Ran(fn.code)

\* A node that an optimization may make a constant.
RECURSIVE MayBeReal(_, _)
MayBeReal(gr, i) ==
  /\ i # Null
  /\ LET n == gr.node[i]
     IN  \/ n.kind = "ConstReal"
         \/ n.kind = "Mul" /\ IsReal(gr, n.ins[3])
         \/ n.kind = "Add" /\ IsReal(gr, n.ins[3]) /\ MayBeReal(gr, n.ins[2])

\* No arithmetic on two constants, or on a constant and a missing value.
Quiet(gr) ==
  \A i \in Ids(gr) : LET n == gr.node[i]
                     IN  n.kind \in {"Add", "Sub", "Mul", "Div"} /\ MayBeReal(gr, n.ins[3])
                           => n.ins[2] # Null /\ ~MayBeReal(gr, n.ins[2])

\* No two nodes that differ only in what gvn does not look at.
Distinct(gr) ==
  \A i \in Ids(gr), j \in Ids(gr) :
    gvn_key(gr, i) = gvn_key(gr, j) => gr.node[i].const = gr.node[j].const

ClosuresApart(gr) ==
  \A i \in Ids(gr), u \in Ids(gr) :
    gr.node[i].kind = "LoadEnv" /\ gr.node[i].k = "0" => i \notin ToSet(DataOf(gr.node[u]))

\* The optimizer leaves the effects of a function as they are, unless there are
\* constants gvn takes for each other, closures it takes for the environment,
\* or something folds.
PassesKeepMeaning ==
  HasGraph /\ Quiet(built) /\ Distinct(built) /\ ClosuresApart(built)
    => Effects(ir, [i \in Ids(ir) |-> i]) = Effects(built, [i \in Ids(built) |-> i])

\* The optimizer comes to an end, unless something folds or a value is missing.
PassesEnd == (stage = "optimize" /\ Quiet(built)) ~> (stage = "dumped")
=============================================================================
