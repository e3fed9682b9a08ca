---------------------------- MODULE MCDumpGraph -----------------------------
(***************************************************************************)
(* Small programs in which every construct meets every other one nearby.   *)
(***************************************************************************)
EXTENDS DumpGraph

x == Var("x")
y == Var("y")
one == Real(1)

MCStyles ==
  { [sep |-> <<"\n">>, blanks |-> FALSE, broken |-> FALSE, arrow |-> "<-", names |-> "plain", signs |-> FALSE],
    [sep |-> <<";">>, blanks |-> TRUE, broken |-> TRUE, arrow |-> "->", names |-> "string", signs |-> TRUE],
    [sep |-> <<" ", "#", "x", "\n", "\t">>, blanks |-> FALSE, broken |-> TRUE, arrow |-> "=",
     names |-> "backtick", signs |-> FALSE],
    [sep |-> <<"\n", "#", "!", "expect", "\n", "x", "(", "\n", "#", "!", "end", "\n">>, blanks |-> FALSE,
     broken |-> FALSE, arrow |-> "->", names |-> "plain", signs |-> TRUE] }

\* One operator of each level.
Ops == {"||", "&&", "<", ":", "+", "-", "*", "^"}

Around(o, p) ==
  Block(<<BinOp(o, BinOp(p, x, y), one), BinOp(o, x, BinOp(p, y, one)),
          UnOp("-", BinOp(o, x, y)), BinOp(o, UnOp("!", x), UnOp("-", y))>>)

Unary == {"-", "!", "~"}

Nested == { Around(o, p) : o \in Ops, p \in Ops }
  \cup { Block(<<UnOp(o, UnOp(p, x)), UnOp(o, Assign("x", y)), Assign("x", UnOp(o, y))>>) : o \in Unary, p \in Unary }

\* What can stand where an expression can.
Forms ==
  { If(x, y, Absent), If(x, y, one), For("y", x, y), While(x, y), Repeat(y), Fun(<<"x">>, x), Assign("x", y),
    Super("x", one), Return(Absent), Return(x), Break, Block(<<>>), Block(<<x, y>>), Call("f", <<>>),
    Call("f", <<x, MissingArg>>), Call("quote", <<x>>), Index(x, <<y>>, FALSE), Index(x, <<Index(y, <<x>>, FALSE)>>, TRUE),
    Dollar(x, "y"), Slot(x, "y"), Var("if"), Lgl(0), NilNode, Lit(NaInt), Str("\n"), Real(10), Lit(12) }

In2(e) ==
  Block(<<If(x, e, y), If(e, x, Absent), Call("f", <<e, NamedArg("y", e)>>), CallOf(e, <<x>>), Assign("y", e),
          Index(e, <<x, e>>, FALSE), Dollar(e, "y"), BinOp("*", e, e), Block(<<e, x>>), Return(e),
          FunOf(<<"x", "y">>, <<Absent, e>>, e), While(x, e), UnOp("-", e)>>)

\* Straight programs, and programs with branches and loops, for the graph.
Store(n) == Assign("y", n)

Straights ==
  { Block(<<Assign("x", e), f>>) :
      e \in {Real(2), Call("g", <<one>>), Fun(<<>>, x)},
      f \in {Store(Var("z")), Store(BinOp("*", Var("z"), one)), Store(BinOp("+", Var("z"), Real(0))),
             Store(BinOp("*", Var("z"), Real(0))), Call("f", <<x, Var("z")>>),
             Store(BinOp("/", x, Real(0))),
             Call("f", <<BinOp("-", Var("z"), x), BinOp("-", Var("z"), x)>>),
             Block(<<Call("f", <<Var("z")>>), Call("f", <<Var("z")>>)>>),
             Call("f", <<BinOp(":", x, Var("z")), UnOp("-", x), Fun(<<>>, NilNode)>>), Return(x)} }
  \cup { Block(<<Store(BinOp("+", one, Real(2)))>>), Block(<<Store(BinOp("^", x, y)), Store(BinOp("*", BinOp("^", x, y), one))>>),
         Block(<<>>), Block(<<Return(Absent)>>), Block(<<Fun(<<>>, x), Store(Var("z"))>>),
         Block(<<Call("f", <<BinOp("==", x, y), BinOp("==", x, y), Lgl(1), Lgl(0)>>)>>) }

Joins ==
  { Block(<<Assign("x", Real(2)), If(Var("c"), Store(e), f), Store(x)>>) :
      e \in {BinOp("*", x, one), BinOp("*", Var("z"), one), Var("z")}, f \in {Absent, Store(Real(3))} }
  \cup { Block(<<Var("z"), While(Var("c"), Store(Var("z")))>>),
         Block(<<For("i", BinOp(":", Lit(1), Lit(2)), Store(Var("i")))>>),
         Block(<<For("i", x, If(Var("i"), Break, Absent)), Store(x)>>),
         Block(<<Repeat(If(x, Break, Absent))>>) }

MCPrograms == Nested \cup {In2(e) : e \in Forms} \cup Straights \cup Joins

\* The code of these programs stays inside its frame, unless it has no frame.
ASSUME LoweredInFrame ==
  \A p \in MCPrograms :
    LET f == lower_program(Fit(p, 0))
    IN  Refused(Fit(p, 0), FALSE) \/ f.nregs = 0 \/ InFrame(f.code, f.nregs)
=============================================================================
