---------------------------- MODULE GraphBuilder ----------------------------
(***************************************************************************)
(* From register code to a graph (src/ir/graph_builder.cpp).  Instructions *)
(* are numbered from 1, blocks too.                                        *)
(***************************************************************************)
EXTENDS SeaOfNodes

Sets == INSTANCE FiniteSetsExt

Jumps == {"JUMP", "JUMP_IF_FALSE"}
Ends  == Jumps \cup {"RETURN", "RETURN_NULL", "HALT"}

Leaders(code) ==
  {1} \cup (UNION {{code[i].k, i + 1} \cap DOMAIN code : i \in {j \in DOMAIN code : code[j].op \in Jumps}})
      \cup {i \in DOMAIN code : code[i].op \in {"LOOP_HEADER", "LOOP_BACKEDGE"}}

\* Where the block that starts at i ends.  The first instruction is number 0 in
\* the code, and 0 stands for no end: a block of that instruction alone is taken
\* for all of the code.
EndOf(code, i) ==
  LET end == Sets!Min({j \in i..Len(code) : code[j].op \in Ends \/ j + 1 \in Leaders(code) \/ j = Len(code)})
  IN  IF end = 1 THEN Len(code) ELSE end

Goes(code, b, to) ==
  LET last == code[b.end]
  IN  CASE last.op = "JUMP"          -> to.start = last.k
        [] last.op = "JUMP_IF_FALSE" -> to.start \in {b.end + 1, last.k}
        [] last.op \in Ends          -> FALSE
        [] OTHER                     -> to.no = b.no + 1

build_cfg(code) ==
  LET starts == InOrder(Leaders(code), [pc \in DOMAIN code |-> pc])
      blocks == [i \in DOMAIN starts |-> [no |-> i, start |-> starts[i], end |-> EndOf(code, starts[i])]]
  IN  [i \in DOMAIN blocks |->
         [start |-> blocks[i].start, end |-> blocks[i].end,
          preds |-> InOrder({j \in DOMAIN blocks : Goes(code, blocks[j], blocks[i])}, [j \in DOMAIN blocks |-> j])]]

-----------------------------------------------------------------------------
(***************************************************************************)
(* A builder: the code and its blocks, the graph g, the current block and  *)
(* control, the control at the end of each block, the node of each         *)
(* register at the entry of each block, and the node of each register now. *)
(***************************************************************************)
Unset(nregs) == [r \in 0..(nregs - 1) |-> Null]

\* The node of register rdest becomes a new one.
Define(s, in, kind, inputs, k, const) ==
  [s EXCEPT !.g = NewNode(s.g, kind, inputs, k, const), !.state = [@ EXCEPT ![in.rdest] = s.g.next]]

NodeKind ==
  [o \in {"ADD", "SUB", "MUL", "DIV", "LT", "LE", "GT", "GE", "EQ", "NE"} |->
    CASE o = "ADD" -> "Add" [] o = "SUB" -> "Sub" [] o = "MUL" -> "Mul" [] o = "DIV" -> "Div"
      [] o = "LT" -> "Lt" [] o = "LE" -> "Le" [] o = "GT" -> "Gt" [] o = "GE" -> "Ge"
      [] o = "EQ" -> "Eq" [] o = "NE" -> "Ne"]

Constants ==
  [o \in {"LOAD_NIL", "LOAD_TRUE", "LOAD_FALSE", "LOAD_INT", "LOAD_REAL"} |->
    CASE o = "LOAD_NIL" -> "ConstNil" [] o = "LOAD_TRUE" -> "ConstTrue"
      [] o = "LOAD_FALSE" -> "ConstFalse" [] o = "LOAD_INT" -> "ConstInt" [] o = "LOAD_REAL" -> "ConstReal"]

\* Instructions of which the builder makes nothing.
Skipped == {"POW", "NOT", "AND", "OR", "AND_SCALAR", "OR_SCALAR", "LOAD_STRING", "LOAD_NA", "INDEX",
            "INDEX2", "INDEX_NAMED", "INDEX_ASSIGN", "INDEX2_ASSIGN", "INDEX_NAMED_ASSIGN", "STORE_SUPER"}

\* The place of a closure among the constants of the function.
ConstantOf(code, pc) ==
  ToString(Cardinality({<<code[q].op, ToString(code[q].k)>> :
                          q \in {p \in 1..(pc - 1) : code[p].op \in {"LOAD_INT", "LOAD_REAL", "LOAD_STRING"}}})
           + Cardinality({q \in 1..(pc - 1) : code[q].op = "MAKE_CLOSURE"}))

\* Mutant: what follows is not ordered after the node.
Act_unordered(s, kind, inputs, k) ==
  [s EXCEPT !.g = NewNode(s.g, kind, <<s.ctl>> \o inputs, k, 0)]

\* A node that uses the current control, and is the next one.
Act(s, kind, inputs, k) ==
  [s EXCEPT !.g = NewNode(s.g, kind, <<s.ctl>> \o inputs, k, 0), !.ctl = s.g.next]

Move(s, in, n) == [s EXCEPT !.state = [@ EXCEPT ![in.rdest] = n]]

\* A variable is read and written in the environment of now.
WithEnv(s) == [s EXCEPT !.g = new_node(s.g, "LoadEnv", <<s.ctl>>)]

\* What follows is under the condition.
Branch(s, in, pc) ==
  LET i == Act(s, "If", <<s.state[in.ra]>>, "0")
      f == [i EXCEPT !.g = new_node(i.g, "IfFalse", <<i.ctl>>)]
      t == [f EXCEPT !.g = new_node(f.g, "IfTrue", <<i.ctl>>), !.ctl = f.g.next]
  IN  [t EXCEPT !.at = [@ EXCEPT ![pc] = t.ctl]]

Calling(s, in) ==
  LET call == Act(s, "Call", [i \in 1..(in.k + 1) |-> s.state[in.ra + i - 1]], ToString(in.k))
  IN  Move(call, in, call.ctl)

ReturnNil(s) ==
  Act([s EXCEPT !.g = new_node(s.g, "ConstNil", <<s.ctl>>)], "Return", <<s.g.next>>, "0")

translate(s, pc) ==
  LET in  == s.code[pc]
      a   == s.state[in.ra]
      b   == s.state[in.rb]
  IN  CASE in.op \in DOMAIN Constants ->
             Define(s, in, Constants[in.op], <<s.ctl>>, "0",
                    IF in.op \in {"LOAD_INT", "LOAD_REAL"} THEN in.k ELSE 0)
        [] in.op \in DOMAIN NodeKind -> Define(s, in, NodeKind[in.op], <<s.ctl, a, b>>, "0", 0)
        [] in.op = "NEG"          -> Define(s, in, "Neg", <<s.ctl, a>>, "0", 0)
        [] in.op = "LOAD_LOCAL"   -> Move(s, in, a)
        [] in.op = "LOAD_VAR"     -> Define(WithEnv(s), in, "LoadVar", <<s.ctl, s.g.next>>, in.k, 0)
        [] in.op = "STORE_VAR"    -> Act(WithEnv(s), "StoreVar", <<s.g.next, a>>, in.k)
        [] in.op = "JUMP_IF_FALSE" -> Branch(s, in, pc)
        [] in.op = "CALL"         -> Calling(s, in)
        [] in.op = "MAKE_SEQ"     -> Define(s, in, "Call", <<s.ctl, a, b>>, "0", 0)
        [] in.op = "LENGTH"       -> Define(s, in, "Call", <<s.ctl, a>>, "0", 0)
        [] in.op = "MAKE_CLOSURE" -> Define(s, in, "LoadEnv", <<s.ctl>>, ConstantOf(s.code, pc), 0)
        [] in.op = "LOOP_HEADER"  -> Act(s, "Loop", <<>>, "0")
        [] in.op = "RETURN"       -> Act(s, "Return", <<a>>, "0")
        [] in.op = "RETURN_NULL"  -> ReturnNil(s)
        [] in.op = "HALT"         -> [s EXCEPT !.g = new_node(s.g, "Return", <<s.ctl, s.state[0]>>)]
        [] OTHER -> s

Preds(s)   == s.blocks[s.no].preds
Exit(s, p) == s.at[s.blocks[p].end]

\* The control where blocks meet.
Region(s) ==
  [s EXCEPT !.g = new_node(s.g, "Region", [j \in DOMAIN Preds(s) |-> Exit(s, Preds(s)[j])]),
            !.ctl = s.g.next,
            !.at = [@ EXCEPT ![s.blocks[s.no].start] = s.g.next]]

\* The value of register r there: those it has at the entries of the blocks before.
Phi(s, r) ==
  LET phi == <<s.ctl>> \o [j \in DOMAIN Preds(s) |-> s.entry[Preds(s)[j]][r]]
  IN  [s EXCEPT !.g = new_node(s.g, "Phi", phi),
                !.entry = [@ EXCEPT ![s.no] = [s.entry[s.no] EXCEPT ![r] = s.g.next]]]

\* After one block only, it begins as that one began.
Inherit(s) ==
  LET p == Preds(s)[1]
  IN  [s EXCEPT !.entry = [@ EXCEPT ![s.no] = s.entry[p]],
                !.ctl = IF Exit(s, p) = Null THEN Start ELSE Exit(s, p)]

\* What registers hold at the entry of a block, and under which control.
enter(s) ==
  LET in == CASE Len(Preds(s)) > 1 -> Fold(Phi, Region(s), [r \in 1..s.nregs |-> r - 1])
              [] Len(Preds(s)) = 1 -> Inherit(s)
              [] OTHER -> s
  IN  [in EXCEPT !.state = in.entry[s.no]]

\* The next block gets what this one leaves in the registers.
leave(s) ==
  [s EXCEPT !.at = [@ EXCEPT ![s.blocks[s.no].end] = s.ctl],
            !.entry = IF s.no < Len(s.blocks) THEN [@ EXCEPT ![s.no + 1] = s.state] ELSE @]

build_block(s, i) ==
  LET b == s.blocks[i]
  IN  leave(Fold(translate, enter([s EXCEPT !.no = i]), [j \in 1..(b.end - b.start + 1) |-> b.start + j - 1]))

Builder(code, nregs) ==
  LET blocks == build_cfg(code)
  IN  [code |-> code, nregs |-> nregs, blocks |-> blocks, no |-> 1, g |-> NewGraph, ctl |-> Start,
       at |-> [pc \in DOMAIN code |-> IF pc = 1 THEN Start ELSE Null],
       entry |-> [i \in DOMAIN blocks |-> Unset(nregs)], state |-> Unset(nregs)]

build(code, nregs) ==
  LET new == Builder(code, nregs) IN Fold(build_block, new, [i \in DOMAIN new.blocks |-> i]).g

-----------------------------------------------------------------------------
(***************************************************************************)
(* What the builder counts on                                              *)
(***************************************************************************)
\* There is a register and an instruction, the registers an instruction names
\* are there, and the arguments of a call follow the callee.
InFrame(code, nregs) ==
  /\ nregs \in Nat \ {0}
  /\ Len(code) \in Nat \ {0} /\ DOMAIN code = 1..Len(code)
  /\ \A pc \in DOMAIN code :
       /\ {code[pc].rdest, code[pc].ra, code[pc].rb} \subseteq 0..(nregs - 1)
       /\ code[pc].op = "CALL" => code[pc].k \in Nat /\ code[pc].ra + code[pc].k < nregs
=============================================================================
