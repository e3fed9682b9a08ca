------------------------------- MODULE Parser -------------------------------
(***************************************************************************)
(* The recursive descent parser (src/frontend/parser.cpp).                 *)
(*                                                                         *)
(* ts is the sequence of tokens.  A parsing function starts at a token and *)
(* returns the tree and the token after it.  An error is the position 0:   *)
(* it has a kind nothing expects, so that what follows it fails as well.   *)
(***************************************************************************)
EXTENDS Lexer, Lowering

CONSTANT IntBits    \* the width of an integer value (32)

\* peek, which stays at the last token, the end of the file.
Kind(ts, p) ==
  IF p = 0 THEN "error" ELSE IF p > Len(ts) THEN ts[Len(ts)].kind ELSE ts[p].kind

Parsed(ast, p) == [ast |-> ast, at |-> p]
Failed         == Parsed(Absent, 0)

\* A tree around the one parsed.
Within(e, Node(_)) == Parsed(Node(e.ast), e.at)

expect(ts, p, kind) == IF Kind(ts, p) = kind THEN p + 1 ELSE 0

RECURSIVE skip(_, _, _)
skip(ts, p, kinds) == IF Kind(ts, p) \in kinds THEN skip(ts, p + 1, kinds) ELSE p

skip_newlines(ts, p) == skip(ts, p, {"newline", ";"})

IsName(kind) == kind \in {"ident", "backtick_ident", "string"}

RECURSIVE parse_expr(_, _), parse_tilde(_, _), parse_level(_, _, _), parse_power(_, _),
          parse_unary(_, _)

-----------------------------------------------------------------------------
\* The operators of parse_or, parse_and, parse_not, parse_comparison,
\* parse_range, parse_additive, parse_multiplicative, in this order.
Levels == << {"||", "|"}, {"&&", "&"}, {"!"}, {"==", "!=", "<", ">", "<=", ">="},
             {":"}, {"+", "-"}, {"*", "/"} >>

\* l, and the operands after it, from the left.
RECURSIVE operands(_, _, _)
operands(ts, l, k) ==
  IF Kind(ts, l.at) \notin Levels[k] THEN l
  ELSE operands(ts, Within(parse_level(ts, l.at + 1, k + 1), LAMBDA r : BinOp(Kind(ts, l.at), l.ast, r)), k)

parse_not(ts, p) ==
  IF Kind(ts, p) = "!" THEN Within(parse_level(ts, p + 1, 3), LAMBDA e : UnOp("!", e))
  ELSE parse_level(ts, p, 4)

parse_level(ts, p, k) ==
  CASE k = 3           -> parse_not(ts, p)
    [] k > Len(Levels) -> parse_power(ts, p)
    [] OTHER           -> operands(ts, parse_level(ts, p, k + 1), k)

raised(ts, l) ==
  IF Kind(ts, l.at) = "^" THEN Within(parse_power(ts, l.at + 1), LAMBDA r : BinOp("^", l.ast, r))
  ELSE l

parse_power(ts, p) == raised(ts, parse_unary(ts, p))

parse_tilde(ts, p) ==
  IF Kind(ts, p) = "~" THEN Within(parse_tilde(ts, p + 1), LAMBDA e : UnOp("~", e))
  ELSE parse_level(ts, p, 1)

assigned(ts, l) ==
  LET k     == Kind(ts, l.at)
      super == k \in {"<<-", "->>"}
      To(r) == IF k \in {"->", "->>"} THEN AssignTo(r, l.ast, super) ELSE AssignTo(l.ast, r, super)
  IN  IF k \in {"<-", "<<-", "=", "->", "->>"} THEN Within(parse_expr(ts, l.at + 1), To) ELSE l

parse_assign(ts, p) == assigned(ts, parse_tilde(ts, p))

parse_expr(ts, p) == parse_assign(ts, p)

-----------------------------------------------------------------------------
\* The parts of a list from p to the kind that closes it, parsed by One, with
\* those before; a part that is not there is a missing argument.
RECURSIVE parts(_, _, _, _, _)
parts(ts, p, close, One(_, _), before) ==
  LET q    == skip_newlines(ts, p)
      part == IF Kind(ts, q) \in {",", close} THEN Parsed(MissingArg, q) ELSE One(ts, q)
      end  == skip_newlines(ts, part.at)
      all  == Append(before, part.ast)
  IN  IF Kind(ts, end) = "," THEN parts(ts, end + 1, close, One, all)
      ELSE Parsed(all, expect(ts, end, close))

list(ts, p, close, One(_, _)) ==
  LET q == skip_newlines(ts, p)
  IN  IF Kind(ts, q) = close THEN Parsed(<<>>, q + 1) ELSE parts(ts, q, close, One, <<>>)

\* A name before = is the argument's; a name in backticks always is, and the
\* token after it is taken for the =.
parse_arg(ts, p) ==
  IF \/ Kind(ts, p) \in {"ident", "string"} /\ Kind(ts, p + 1) = "="
     \/ Kind(ts, p) = "backtick_ident"
    THEN Within(parse_expr(ts, skip_newlines(ts, p + 2)), LAMBDA v : NamedArg(ts[p].text, v))
    ELSE parse_expr(ts, p)

parse_call_args(ts, p, callee) ==
  Within(list(ts, p + 1, ")", parse_arg), LAMBDA as : CallOf(callee, as))

parse_index_args(ts, p, base, dbl) ==
  Within(list(ts, p + 1, IF dbl THEN "]]" ELSE "]", parse_expr), LAMBDA as : Index(base, as, dbl))

RECURSIVE postfix(_, _)
postfix(ts, b) ==
  LET k == Kind(ts, b.at)
  IN  CASE k = "("  -> postfix(ts, parse_call_args(ts, b.at, b.ast))
        [] k = "["  -> postfix(ts, parse_index_args(ts, b.at, b.ast, FALSE))
        [] k = "[[" -> postfix(ts, parse_index_args(ts, b.at, b.ast, TRUE))
        [] k \in {"$", "@"} ->
             IF ~IsName(Kind(ts, b.at + 1)) THEN Failed
             ELSE LET x == ts[b.at + 1].text
                  IN  postfix(ts, Parsed(IF k = "$" THEN Dollar(b.ast, x) ELSE Slot(b.ast, x),
                                         b.at + 2))
        [] OTHER -> b

\* A function's parameter, as a pair of its name and default.
parse_param(ts, p) ==
  LET def == parse_expr(ts, p + 2)
  IN  IF ~IsName(Kind(ts, p)) THEN Failed
      ELSE IF Kind(ts, p + 1) = "=" THEN Parsed(<<ts[p].text, def.ast>>, def.at)
      ELSE Parsed(<<ts[p].text, Absent>>, p + 1)

parse_function(ts, p) ==
  LET ps   == list(ts, expect(ts, p + 1, "("), ")", parse_param)
      body == parse_expr(ts, skip_newlines(ts, ps.at))
      no   == ps.at = 0 \/ \E i \in DOMAIN ps.ast : ps.ast[i] = MissingArg
  IN  IF no THEN Failed
      ELSE Parsed(FunOf([i \in DOMAIN ps.ast |-> ps.ast[i][1]],
                        [i \in DOMAIN ps.ast |-> ps.ast[i][2]], body.ast), body.at)

\* What a keyword has in parentheses, and where the rest starts.
condition(ts, p) ==
  LET c == parse_expr(ts, expect(ts, p, "(")) IN Parsed(c.ast, expect(ts, c.at, ")"))

\* Mutant: else only on the line where the branch before it ends.
parse_if_one_line(ts, p) ==
  LET c == condition(ts, p + 1)
      t == parse_expr(ts, skip_newlines(ts, c.at))
      e == parse_expr(ts, skip_newlines(ts, t.at + 1))
  IN  IF Kind(ts, t.at) = "else" THEN Parsed(If(c.ast, t.ast, e.ast), e.at)
      ELSE Parsed(If(c.ast, t.ast, Absent), t.at)

parse_if(ts, p) ==
  LET c    == condition(ts, p + 1)
      t    == parse_expr(ts, skip_newlines(ts, c.at))
      next == skip(ts, t.at, {"newline"})
      e    == parse_expr(ts, skip_newlines(ts, next + 1))
  IN  IF Kind(ts, next) = "else" THEN Parsed(If(c.ast, t.ast, e.ast), e.at)
      ELSE Parsed(If(c.ast, t.ast, Absent), t.at)

parse_for(ts, p) ==
  LET q    == expect(ts, p + 1, "(")
      seq  == parse_expr(ts, expect(ts, IF Kind(ts, q) = "ident" THEN q + 1 ELSE 0, "in"))
      body == parse_expr(ts, skip_newlines(ts, expect(ts, seq.at, ")")))
  IN  IF seq.at = 0 THEN Failed ELSE Parsed(For(ts[q].text, seq.ast, body.ast), body.at)

parse_while(ts, p) ==
  LET c == condition(ts, p + 1)
  IN  Within(parse_expr(ts, skip_newlines(ts, c.at)), LAMBDA body : While(c.ast, body))

parse_repeat(ts, p) ==
  Within(parse_expr(ts, skip_newlines(ts, p + 1)), Repeat)

\* Statements up to a closing kind, with those before.
RECURSIVE statements(_, _, _, _)
statements(ts, p, close, before) ==
  LET s == parse_expr(ts, p)
      k == Kind(ts, s.at)
  IN  IF Kind(ts, p) \in {close, "eof"} THEN Parsed(before, p)
      ELSE IF k \notin {"newline", ";", "}", "eof"} THEN Failed
      ELSE statements(ts, skip_newlines(ts, s.at), close, Append(before, s.ast))

parse_block(ts, p) ==
  LET ss == statements(ts, skip_newlines(ts, p + 1), "}", <<>>)
  IN  Parsed(Block(ss.ast), expect(ts, ss.at, "}"))

\* return, quote and missing: the value in parentheses, if there are any.
in_parens(ts, p) ==
  LET q == skip_newlines(ts, p + 1)
      e == IF Kind(ts, q) = ")" THEN Parsed(Absent, q) ELSE parse_expr(ts, q)
  IN  IF Kind(ts, p) = "(" THEN Parsed(e.ast, expect(ts, e.at, ")")) ELSE Parsed(Absent, p)

Wrapped(n) == ((n + 2^(IntBits - 1)) % 2^IntBits) - 2^(IntBits - 1)
NaInt      == -(2^(IntBits - 1))
Inf        == 2^(IntBits - 1)
Args(e)    == IF e = Absent THEN <<>> ELSE <<e>>

parse_primary(ts, p) ==
  LET k == Kind(ts, p)
      t == ts[p]
      e == in_parens(ts, p + 1)
      g == parse_expr(ts, p + 1)
  IN  CASE k = "real"     -> Parsed(Real(t.n), p + 1)
        [] k = "integer"  -> Parsed(Lit(Wrapped(t.n)), p + 1)
        [] k = "string"   -> Parsed(Str(t.text), p + 1)
        [] k \in {"ident", "backtick_ident"} -> Parsed(Var(t.text), p + 1)
        [] k = "NULL"     -> Parsed(NilNode, p + 1)
        [] k = "TRUE"     -> Parsed(Lgl(1), p + 1)
        [] k = "FALSE"    -> Parsed(Lgl(0), p + 1)
        [] k \in {"NA", "NA_integer_", "NA_real_", "NA_character_"} -> Parsed(Lit(NaInt), p + 1)
        [] k \in {"Inf", "NaN"} -> Parsed(Real(Inf), p + 1)
        [] k = "function" -> parse_function(ts, p)
        [] k = "if"       -> parse_if(ts, p)
        [] k = "for"      -> parse_for(ts, p)
        [] k = "while"    -> parse_while(ts, p)
        [] k = "repeat"   -> parse_repeat(ts, p)
        [] k = "break"    -> Parsed(Break, p + 1)
        [] k = "next"     -> Parsed(Next, p + 1)
        [] k = "return"   -> Parsed(Return(e.ast), e.at)
        [] k = "quote"    -> IF Kind(ts, p + 1) = "(" THEN Parsed(Call("quote", Args(e.ast)), e.at)
                             ELSE Parsed(Var("quote"), p + 1)
        [] k = "missing"  -> Parsed(Call("missing", Args(e.ast)), e.at)
        [] k = "("        -> Parsed(Paren(g.ast), expect(ts, g.at, ")"))
        [] k = "{"        -> parse_block(ts, p)
        [] OTHER          -> Failed

parse_postfix(ts, p) == postfix(ts, parse_primary(ts, p))

parse_unary(ts, p) ==
  CASE Kind(ts, p) = "-" -> Within(parse_unary(ts, p + 1), LAMBDA e : UnOp("-", e))
    [] Kind(ts, p) = "+" -> parse_unary(ts, p + 1)
    [] OTHER -> parse_postfix(ts, p)

\* The whole file.
parse_program(ts) ==
  LET ss == statements(ts, skip_newlines(ts, 1), "eof", <<>>)
  IN  Parsed(Block(ss.ast), ss.at)
=============================================================================
