------------------------------ MODULE Spelling ------------------------------
(***************************************************************************)
(* How a tree is written: what the parser has to read back.  Where an      *)
(* operand needs parentheses is decided by the table of precedences the    *)
(* parser declares (op_precedence) and never consults.                     *)
(***************************************************************************)
EXTENDS Parser

LOCAL INSTANCE SequencesExt

op_precedence ==
  [o \in UNION {{"<-", "~", "!", "==", "!=", "<", ">", "<=", ">=", ":"},
                {"||", "|", "&&", "&", "+", "-", "*", "/", "^", "$"}} |->
    CASE o = "<-" -> 2 [] o = "~" -> 3 [] o \in {"||", "|"} -> 4 [] o \in {"&&", "&"} -> 5
      [] o = "!" -> 6 [] o \in {"==", "!=", "<", ">", "<=", ">="} -> 7 [] o = ":" -> 8
      [] o \in {"+", "-"} -> 9 [] o \in {"*", "/"} -> 10 [] o = "^" -> 11 [] o = "$" -> 12]

\* A minus sign is between ^ and $.  What begins with a keyword goes as far as
\* it can, so it is never an operand as it stands.
Level(t) ==
  CASE t.kind \in {"assign", "super"} -> 2 * op_precedence["<-"]
    [] t.kind = "unop" -> IF t.op = "-" THEN 2 * op_precedence["$"] - 1 ELSE 2 * op_precedence[t.op]
    [] t.kind = "op"   -> 2 * op_precedence[t.op]
    [] t.kind \in {"if", "for", "while", "repeat", "fun"} \/ t = Return(Absent) -> 0
    [] OTHER -> 2 * op_precedence["$"]

Postfix == 2 * op_precedence["$"]

\* t ends in an if that could take an else.
RECURSIVE Open(_)
Open(t) ==
  CASE t.kind = "if" -> t.else = Absent \/ Open(t.else)
    [] t.kind \in {"for", "while", "repeat", "fun"} -> Open(t.body)
    [] t.kind \in {"assign", "super"} -> Open(t.value)
    [] OTHER -> FALSE

\* Names that are written in backticks, and those t may begin with.
Odd(x) == x \in (Keywords \ {"quote", "missing"}) \cup {"my name"}

RECURSIVE Firsts(_)
Firsts(t) ==
  CASE t.kind = "var"  -> {t.name}
    [] t.kind = "op"   -> Firsts(t.lhs)
    [] t.kind = "call" -> Firsts(t.callee)
    [] t.kind \in {"index", "dollar", "slot"} -> Firsts(t.base)
    [] t.kind \in {"assign", "super"} -> Firsts(t.target) \cup Firsts(t.value)
    [] OTHER -> {}

\* t with the parentheses it needs where only what has a level of at least
\* least can stand.  An argument that begins with a name in backticks has them
\* too: the parser takes such a name for the argument's.
RECURSIVE Fit(_, _)
Fit(t, least) ==
  LET All(s) == [i \in DOMAIN s |-> Fit(s[i], 0)]
      Argument(a) ==
        IF \E x \in Firsts(a) : Odd(x) THEN Paren(Fit(a, 0)) ELSE Fit(a, 0)
      l == Level(t)
      fit == CASE t.kind = "op" -> IF t.op = "^" THEN BinOp("^", Fit(t.lhs, l + 1), Fit(t.rhs, l))
                                   ELSE BinOp(t.op, Fit(t.lhs, l), Fit(t.rhs, l + 1))
               [] t.kind = "unop" -> UnOp(t.op, Fit(t.arg, l))
               [] t.kind \in {"assign", "super"} ->
                    AssignTo(Fit(t.target, l + 1), Fit(t.value, IF Level(t.value) = 0 THEN 0 ELSE l),
                             t.kind = "super")
               [] t.kind = "call" ->
                    CallOf(Fit(t.callee, Postfix), [i \in DOMAIN t.args |-> Argument(t.args[i])])
               [] t.kind = "named" -> [t EXCEPT !.value = Fit(@, 0)]
               [] t.kind = "index" -> Index(Fit(t.base, Postfix), All(t.args), t.dbl)
               [] t.kind \in {"dollar", "slot"} -> [t EXCEPT !.base = Fit(@, Postfix)]
               [] t.kind = "if" ->
                    If(Fit(t.cond, 0),
                       IF t.else # Absent /\ Open(t.then) THEN Paren(Fit(t.then, 0)) ELSE Fit(t.then, 0),
                       Fit(t.else, 0))
               [] t.kind = "for"    -> For(t.name, Fit(t.seq, 0), Fit(t.body, 0))
               [] t.kind = "while"  -> While(Fit(t.cond, 0), Fit(t.body, 0))
               [] t.kind = "repeat" -> Repeat(Fit(t.body, 0))
               [] t.kind = "fun"    -> FunOf(t.params, All(t.defaults), Fit(t.body, 0))
               [] t.kind = "return" -> Return(Fit(t.value, 0))
               [] t.kind = "block"  -> Block(All(t.stmts))
               [] t.kind = "paren"  -> Paren(Fit(t.expr, 0))
               [] OTHER -> t
  IN  IF l < least THEN Paren(fit) ELSE fit

-----------------------------------------------------------------------------
(***************************************************************************)
(* The texts a tree is written with, and the source they make.  A style    *)
(* says what is free: the characters between statements (sep), whether     *)
(* there are blanks everywhere, whether lines are broken where they can    *)
(* be, the arrow of assignments, how the names of elements and parameters  *)
(* are quoted, and whether numerals are written with signs and exponents.  *)
(***************************************************************************)
K(o) == << IF o \in DOMAIN Chars THEN Chars[o] ELSE <<o>> >>

\* Sequences one after the other; by halves, as they may be many.
RECURSIVE Flat(_)
Flat(ss) ==
  IF ss = <<>> THEN <<>> ELSE IF Len(ss) = 1 THEN ss[1]
  ELSE LET h == Len(ss) \div 2 IN Flat(SubSeq(ss, 1, h)) \o Flat(SubSeq(ss, h + 1, Len(ss)))

Join(s, between) == Flat([i \in DOMAIN s |-> IF i = 1 THEN s[i] ELSE between \o s[i]])

RECURSIVE DigitsOf(_)
DigitsOf(n) == IF n < 10 THEN <<ToString(n)>> ELSE DigitsOf(n \div 10) \o <<ToString(n % 10)>>

Numeral(n, st) ==
  IF st.signs /\ n > 0 /\ n % 10 = 0 THEN DigitsOf(n \div 10) \o <<"e", "+", "1">> ELSE DigitsOf(n)

Quoted(q, s) ==
  << <<q>> \o (IF s = "\n" THEN <<"\\", "n">> ELSE IF s \in Quotes \cup {"\\"} THEN <<"\\", s>> ELSE <<s>>)
     \o <<q>> >>

Spelled(x) == IF Odd(x) THEN << <<Back, x, Back>> >> ELSE << <<x>> >>

Name(x, st) ==
  CASE st.names = "string" -> Quoted("'", x)
    [] st.names = "backtick" -> << <<Back, x, Back>> >>
    [] OTHER -> Spelled(x)

RECURSIVE Show(_, _)
Show(t, st) ==
  LET S(e)   == Show(e, st)
      inner  == [st EXCEPT !.arrow = IF @ = "=" THEN "<-" ELSE @]
      br     == IF st.broken THEN << <<"\n">> >> ELSE <<>>
      sign   == IF st.signs THEN K("+") ELSE <<>>
      right  == st.arrow = "->" /\ Level(t.value) > Level(t)
      Each(s, Of(_)) == [i \in DOMAIN s |-> Of(s[i])]
      List(open, s, close) == K(open) \o br \o Join(s, K(",") \o br) \o br \o K(close)
      Param(i) == Name(t.params[i], st)
                  \o (IF t.defaults[i] = Absent THEN <<>> ELSE K("=") \o S(t.defaults[i]))
  IN  CASE t.kind = "nil" -> K("NULL")
        [] t.kind = "num" -> IF t.n = NaInt THEN K("NA") ELSE sign \o << DigitsOf(t.n) \o <<"L">> >>
        [] t.kind = "real" -> IF t.n = Inf THEN K("Inf") ELSE sign \o << Numeral(t.n, st) >>
        [] t.kind = "lgl" -> K(IF t.v = 1 THEN "TRUE" ELSE IF st.signs THEN "F" ELSE "FALSE")
        [] t.kind = "str" -> Quoted(IF st.names = "string" THEN "\"" ELSE "'", t.s)
        [] t.kind = "var" -> Spelled(t.name)
        [] t.kind = "op"  -> S(t.lhs) \o K(t.op) \o S(t.rhs)
        [] t.kind = "unop" -> K(t.op) \o S(t.arg)
        [] t.kind = "assign" /\ right -> S(t.value) \o K("->") \o S(t.target)
        [] t.kind = "assign" /\ ~right ->
             S(t.target) \o K(IF st.arrow = "=" THEN "=" ELSE "<-") \o S(t.value)
        [] t.kind = "super" -> IF right THEN S(t.value) \o K("->>") \o S(t.target)
                               ELSE S(t.target) \o K("<<-") \o S(t.value)
        [] t.kind = "call" /\ t.callee \in {Var("quote"), Var("missing")} ->
             S(t.callee) \o K("(") \o br \o Join(Each(t.args, S), <<>>) \o K(")")
        [] t.kind = "call" /\ t.callee \notin {Var("quote"), Var("missing")} -> S(t.callee) \o List("(", Each(t.args, LAMBDA a : Show(a, inner)), ")")
        [] t.kind = "missing" -> <<>>
        [] t.kind = "named" -> Name(t.name, st) \o K("=") \o br \o S(t.value)
        [] t.kind = "index" -> S(t.base) \o (IF t.dbl THEN List("[[", Each(t.args, S), "]]")
                                             ELSE List("[", Each(t.args, S), "]"))
        [] t.kind = "dollar" -> S(t.base) \o K("$") \o Name(t.name, st)
        [] t.kind = "slot" -> S(t.base) \o K("@") \o Name(t.name, st)
        [] t.kind = "if" -> K("if") \o K("(") \o S(t.cond) \o K(")") \o br \o S(t.then)
                            \o (IF t.else = Absent THEN <<>> ELSE br \o K("else") \o br \o S(t.else))
        [] t.kind = "for" -> K("for") \o K("(") \o << <<t.name>> >> \o K("in") \o S(t.seq) \o K(")")
                             \o br \o S(t.body)
        [] t.kind = "while" -> K("while") \o K("(") \o S(t.cond) \o K(")") \o br \o S(t.body)
        [] t.kind = "repeat" -> K("repeat") \o br \o S(t.body)
        [] t.kind \in {"break", "next"} -> K(t.kind)
        [] t.kind = "return" -> K("return") \o (IF t.value = Absent THEN <<>>
                                                ELSE K("(") \o br \o S(t.value) \o K(")"))
        [] t.kind = "block" -> K("{") \o br \o Join(Each(t.stmts, S), <<st.sep>>) \o br \o K("}")
        [] t.kind = "paren" -> K("(") \o S(t.expr) \o K(")")
        [] t.kind = "fun" -> K("function") \o List("(", Each([i \in DOMAIN t.params |-> i], Param), ")")
                             \o br \o S(t.body)

\* Two texts that would be read as one without a blank.
Joined(t, u) ==
  \/ is_ident_cont(Last(t)) /\ is_ident_cont(Head(u))
  \/ \E o \in Operators : Len(o) > Len(t) /\ SubSeq(o, 1, Len(t) + 1) = Append(t, Head(u))

Layout(texts, st) ==
  LET Gap(i) == i > 1 /\ (st.blanks \/ Joined(texts[i - 1], texts[i]))
  IN  Flat([i \in DOMAIN texts |-> IF Gap(i) THEN <<" ">> \o texts[i] ELSE texts[i]])

\* The statements of a program, one after the other.
Source(root, st) ==
  Layout(Join([i \in DOMAIN root.stmts |-> Show(root.stmts[i], st)], <<st.sep>>), st)
=============================================================================
