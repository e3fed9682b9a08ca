--------------------------- MODULE MCLoweredCode ----------------------------
(***************************************************************************)
(* Small programs: every pair of statements between an assignment and a    *)
(* result, every short body of a function of a, and functions that make    *)
(* functions; every operator and builtin.  x, y, a, i are variables, f, g, *)
(* h functions, r the result.                                              *)
(***************************************************************************)
EXTENDS LoweredCode

Leaves(names) == {Lit(1)} \cup {Var(z) : z \in names}
Sums(names) == Leaves(names) \cup {BinOp("+", l, Lit(1)) : l \in {Var(z) : z \in names}}
Small(z) == BinOp("<=", Var(z), Lit(1))
Rise == BinOp(":", Lit(1), Lit(2))
Down == BinOp(":", Lit(2), Lit(1))
Inc(z) == Assign(z, BinOp("+", Var(z), Lit(1)))

\* Statements about the variable z.
Simple(z, w) ==
  {Assign(z, e) : e \in Sums({z, w})} \cup {Super(z, Lit(2)), Lit(0)}

Exits == {Break, Next}

Control(z, w) ==
  {If(Small(z), s, t) : s \in Simple(z, w), t \in {Absent, Inc(w)}}
  \cup {While(Small(z), Block(<<s, Inc(z)>>)) : s \in Simple(w, z)}
  \cup {For("i", q, s) : q \in {Rise, Down, Var(z)}, s \in Simple(z, "i")}
  \cup {For("i", Rise, If(Small("i"), s, t)) : s \in Exits, t \in {Absent, Inc(z)}}
  \cup {For("i", Rise, Block(<<If(BinOp("<=", Lit(2), Var("i")), Break, Absent), Inc(z)>>))}
  \cup {While(Small(z), Block(<<Inc(z), s>>)) : s \in Exits}
  \cup {Repeat(Block(<<Inc(z), If(BinOp("<=", Lit(3), Var(z)), Break, Absent)>>))}
  \cup {Assign(z, Rise), Block(<<>>)}

Results(names) ==
  Sums(names) \cup {BinOp("+", Var(z), Var(w)) : z, w \in names}

TopLevel ==
  {Block(<<Assign("x", Lit(1)), s, t, Assign("r", e)>>) :
     s \in Control("x", "y") \cup Simple("x", "y"),
     t \in Simple("y", "x"), e \in Results({"x", "y"}) \cup {Var("i")}}

\* Bodies of a function of a.
Bodies ==
  {Block(<<s, e>>) : s \in Control("a", "x") \cup Simple("a", "x") \cup Simple("x", "a"),
                     e \in Results({"a", "x"})}
  \cup {Block(<<Assign("x", Lit(1)), s, e>>) :
          s \in {Super("x", Lit(2)), Inc("x"), For("i", Rise, Call("g", <<Var("i")>>))},
          e \in {Var("x"), Call("g", <<Var("x")>>)}}
  \cup {Block(<<>>),
        BinOp("+", BinOp("+", Var("a"), Lit(1)), Var("a")),
        Block(<<If(Small("a"), Return(Lit(0)), Absent), Var("a")>>),
        Block(<<If(Small("a"), Return(Absent), Absent), Lit(2)>>),
        While(Small("a"), Return(Inc("a"))),
        Repeat(Return(Block(<<Var("x"), Var("a")>>))),
        If(BinOp("<=", Lit(2), Var("a")), Var("a"),
           Call("f", <<BinOp("+", Var("a"), Lit(1))>>)),
        BinOp("+", If(BinOp("<=", Lit(2), Var("a")), Lit(1),
                      Call("f", <<BinOp("+", Var("a"), Lit(1))>>)), Var("a"))}

OneFunction ==
  {Block(<<Assign("g", Fun(<<"b">>, BinOp("+", Var("b"), Var("x")))),
           Assign("f", Fun(<<"a">>, b)), Assign("x", Lit(1)),
           Assign("r", Call("f", <<e>>)), Assign("r", BinOp("+", Var("r"), Var("x")))>>) :
     b \in Bodies, e \in {Lit(1), Var("x"), BinOp("+", Var("x"), Lit(1))}}

\* Functions without parameters.
NoParameters ==
  {Block(<<Assign("x", Lit(1)), Assign("f", Fun(<<>>, Block(<<s, t, e>>))),
           Assign("r", Call("f", <<>>))>>) :
     s \in {For("i", Rise, Inc("x")), For("i", Rise, Super("x", Var("i"))), Assign("i", Lit(2)),
            Super("x", Lit(2))},
     t \in {Assign("i", Lit(1)), Inc("x"), Lit(0)}, e \in Leaves({"i", "x"})}

\* A function made in a function, that reads and assigns its variables.
Inner == {Fun(<<"b">>, Block(<<s, e>>)) :
            s \in {Inc("x"), Super("x", BinOp("+", Var("x"), Var("b"))), Super("y", Var("b")),
                   Assign("a", Var("x"))},
            e \in {Var("x"), Var("a"), BinOp("+", Var("x"), Var("a"))}}

Closures ==
  {Block(<<Assign("f", Fun(<<"a", "x">>,
                           Block(<<Assign("g", k), Assign("r", Call("g", <<c>>)), e>>))),
           Assign("y", Lit(0)),
           Assign("r", Call("f", <<Lit(1), Lit(2)>>)),
           Assign("r", BinOp("+", Var("r"), Var("y")))>>) :
     k \in Inner, c \in Leaves({"x"}),
     e \in {Call("g", <<Lit(1)>>), BinOp("+", Var("r"), Var("x")), Var("r")}}
  \cup {Block(<<Assign("f", Fun(<<>>, Var("i"))), Assign("i", Lit(0)), s,
                Assign("r", Call("f", <<>>))>>) :
          s \in {For("i", q, Super("x", Call("f", <<>>))) : q \in {Rise, Down}}
                \cup {Inc("i"), Super("i", Lit(2))}}
  \cup {Block(<<Assign("f", Fun(<<"a">>, Block(<<Assign("y", Var("a")), s, Lit(1)>>))),
                Assign("r", Call("f", <<Lit(1)>>)),
                Assign("r", BinOp("+", Var("r"), Var("y")))>>) :
          s \in {Super("y", Lit(2)), Inc("y")}}
  \cup {Block(<<Assign("f", Fun(<<"x", "a">>, k)),
                Assign("g", Call("f", <<Lit(1), Lit(1)>>)),
                Assign("h", Call("f", <<Lit(2), Lit(1)>>)),
                Assign("r", Call("g", <<Lit(1)>>)),
                Assign("r", BinOp("+", Call(z, <<Var("r")>>), Var("r")))>>) :
          k \in Inner, z \in {"g", "h"}}

\* A function of a that looks names up, called before and after something:
\* assignments, new global names, names bound nearer than they were; helpers and
\* locals of each of its activations.
Lookers ==
  {BinOp("+", Var("x"), Var("a")), Call("length", <<Var("x")>>),
   BinOp("+", Call("h", <<Var("a")>>), Var("x")),
   Block(<<Assign("k", Fun(<<>>, Var("a"))), Call("k", <<>>)>>),
   Block(<<Assign("k", Fun(<<"b">>, BinOp("+", Var("x"), Var("b")))), Call("k", <<Lit(1)>>)>>),
   Block(<<For("i", Rise, Block(<<If(BinOp("<=", Lit(2), Var("i")), Assign("y", Var("z")), Absent),
                                  Assign("z", Var("a"))>>)), Var("y")>>)}

Between ==
  {Assign("x", Lit(2)), Assign("y", Lit(2)), Super("z", Lit(2)), Assign("length", Var("h")),
   Assign("h", Fun(<<"b">>, Lit(1))), Assign("x", Call("f", <<Lit(2)>>)),
   For("i", Rise, Assign("x", Call("f", <<Var("i")>>))),
   For("i", Rise, Assign("y", BinOp("+", Call("f", <<Var("i")>>), Call("length", <<Var("y")>>))))}

Caches ==
  {Block(<<Assign("x", Lit(1)), Assign("h", Fun(<<"b">>, BinOp("+", Var("x"), Var("b")))),
           Assign("f", Fun(<<"a">>, e)), Assign("r", Call("f", <<Lit(1)>>)), s,
           Assign("r", BinOp("+", Call("f", <<c>>), Var("r")))>>) :
     e \in Lookers, s \in Between, c \in {Lit(2), Var("x")}}

\* Values of every type under every operator.
Scalars == {Lit(1), Lit(2), Real(2), Lgl(0), Lgl(1), Lgl(2), NilNode, Str("s")}

Operators ==
  {Block(<<Assign("x", e), Assign("r", t)>>) :
     e \in Scalars,
     t \in {BinOp(o, Var("x"), f) : o \in DOMAIN OpCode \ {"/", "^", ":"}, f \in Scalars}
           \cup {UnOp(o, Var("x")) : o \in {"-", "!"}}
           \cup {If(Var("x"), Lit(1), Lit(2)), BinOp("+", Rise, Paren(Var("x"))),
                 Index(Rise, <<Var("x")>>, TRUE), Index(Down, <<Var("x")>>, FALSE),
                 Dollar(Rise, "x"), Index(Rise, <<>>, FALSE), Index(Var("x"), <<Lit(1)>>, FALSE)}}

\* Operands that do something.
Effects ==
  {Block(<<Assign("x", Lit(1)), Assign("f", Fun(<<"a">>, BinOp(o, Var("a"), e))),
           Assign("y", Call("f", as)), Assign("r", t)>>) :
     o \in {"&&", "||", "&", "-"},
     e \in {Paren(Super("x", Lit(2))), Paren(Assign("x", Lit(2))), Var("z"), Lgl(1), UnOp("!", Var("a"))},
     as \in {<<Lgl(0)>>, <<Lgl(1)>>, <<Lgl(2)>>, <<MissingArg, Lit(1)>>},
     t \in {Var("x"), Var("y")}}
  \cup {Block(<<Assign("f", Fun(<<"a", "b">>, BinOp("+", Var("b"), Lit(1)))),
                Assign("r", Call("f", as))>>) :
          as \in {<<MissingArg, Lit(1)>>, <<Lit(1), MissingArg>>, <<Lit(1), Lit(2)>>}}

\* Loops over doubles, and elements assigned.
Elements ==
  {Block(<<Assign("x", q), Assign("r", Lit(0)), s, Assign("r", e)>>) :
     e \in {BinOp("+", Var("r"), Var("y")), Index(Var("x"), <<Lit(1)>>, FALSE)},
     q \in {Rise, BinOp(":", Real(1), Lit(2)), BinOp(":", Real(2), Real(1))},
     s \in {For("i", Var("x"), Assign("y", Var("i"))),
            For("i", BinOp(":", Real(1), Lit(2)), Assign("y", BinOp("*", Var("i"), Real(2)))),
            AssignTo(Index(Var("x"), <<Lit(1)>>, FALSE), Lit(2), FALSE),
            Assign("y", AssignTo(Index(Var("x"), <<Lit(2), MissingArg>>, TRUE), Lit(2), FALSE)),
            Assign("y", AssignTo(Dollar(Var("x"), "a"), Lit(2), TRUE)),
            Assign("y", Index(Var("x"), <<Lit(2)>>, FALSE))}}

\* Builtins of one and two arguments, and of what c makes of two.
Numbers == {Lit(1), Real(2), Lit(0)}
Things  == Numbers \cup {Lgl(1), Lgl(2), NilNode, BinOp(":", Lit(1), Lit(3)),
                        BinOp(":", Real(1), Real(3)), BinOp(":", Real(1), Real(0))}

Builtins1 == DOMAIN register_primitives \ {"seq", "seq_len"}
Result1(e) == Block(<<Assign("r", e)>>)

Calls ==
  {Result1(Call(f, as)) : f \in Builtins1, as \in {<<>>} \cup {<<e>> : e \in Things}}
  \cup {Result1(Call(f, <<d, e>>)) : f \in {"sum", "c", "min", "max"}, d, e \in Things \cup {Str("s")}}
  \cup {Result1(Call(f, <<d, e>>)) : f \in {"seq", "seq_len"}, d, e \in Numbers}
  \cup {Result1(Call(f, <<Call("c", <<d, e>>)>>)) :
          f \in {"length", "sum", "seq_along", "max"}, d, e \in Things}
  \cup {Result1(Call("is.na", <<Call(f, <<e>>)>>)) : f \in {"sum", "mean", "as.numeric", "as.integer"},
                                                    e \in Things}
  \cup {Block(<<Assign("c", e), Assign("f", Fun(<<"c">>, Call("c", <<Var("c")>>))),
                Assign("r", Call(f, <<Lit(1)>>))>>) : e \in {Lit(1), Fun(<<"a">>, Var("a"))}, f \in {"c", "f"}}

All == Calls \cup Operators \cup Effects \cup Elements \cup TopLevel \cup OneFunction \cup NoParameters
       \cup Closures \cup Caches
=============================================================================
