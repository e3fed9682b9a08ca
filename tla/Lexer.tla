------------------------------- MODULE Lexer --------------------------------
(***************************************************************************)
(* The lexer (src/frontend/lexer.cpp): one token per call of next_token.   *)
(*                                                                         *)
(* A source is a sequence of characters; a run of letters is one of them,  *)
(* and so is a whole keyword.  Fractions and hexadecimal numerals, and     *)
(* escapes in strings but \n, are left out.                                *)
(***************************************************************************)
EXTENDS Integers, Sequences, TLC

LOCAL INSTANCE SequencesExt

\* A token: its kind (TokKind, by the text tok_name gives it), the text of a
\* name or a string, the number of a numeral.
Tok(kind, text, n) == [kind |-> kind, text |-> text, n |-> n]

Keywords ==
  {"function", "if", "else", "for", "while", "repeat", "break", "next", "return", "in",
   "NULL", "TRUE", "FALSE", "NA", "Inf", "NaN", "quote", "missing"}

\* The characters of the operators.
Chars ==
  [o \in {"(", ")", "{", "}", "[", "]", ",", ";", "+", "-", "*", "/", "^", "<", ">", "!",
          "&", "|", "=", ":", "$", "@", "?", "~"} |-> <<o>>]
  @@ [o \in {"[[", "]]", "&&", "||", "=="} |->
        CASE o = "[[" -> <<"[", "[">> [] o = "]]" -> <<"]", "]">> [] o = "&&" -> <<"&", "&">>
          [] o = "||" -> <<"|", "|">> [] o = "==" -> <<"=", "=">>]
  @@ [o \in {"<=", ">=", "!=", "<-", "->", "<<-", "->>"} |->
        CASE o = "<=" -> <<"<", "=">> [] o = ">=" -> <<">", "=">> [] o = "!=" -> <<"!", "=">>
          [] o = "<-" -> <<"<", "-">> [] o = "->" -> <<"-", ">">>
          [] o = "<<-" -> <<"<", "<", "-">> [] o = "->>" -> <<"-", ">", ">">>]

Operators == {Chars[o] : o \in DOMAIN Chars}
Digits == {"0", "1", "2", "3", "4", "5", "6", "7", "8", "9"}
Blanks == {" ", "\t", "\r"}
Back   == "backtick"    \* the character
Quotes == {"'", "\""}
Marks  == {"\n", Back, "#", "\\", "."} \cup Quotes \cup {t[1] : t \in Operators}

is_ident_start(c) == c \notin Digits \cup Blanks \cup Marks \/ c = "."
is_ident_cont(c)  == is_ident_start(c) \/ c \in Digits

\* The first position from p on where Is holds, or the end of the source.
Upto(src, p, Is(_)) ==
  IF \E i \in p..Len(src) : Is(src[i])
    THEN CHOOSE i \in p..Len(src) : Is(src[i]) /\ \A j \in p..(i - 1) : ~Is(src[j])
    ELSE Len(src) + 1

Text(src, p, q) == FoldLeft(LAMBDA s, c : s \o c, "", SubSeq(src, p, q - 1))

EndOfLine(src, p) == Upto(src, p, LAMBDA c : c = "\n")

\* The metadata of a test, from #!expect to the line of #!end.
AfterDirective(src, p) ==
  LET ends == {i \in p..(Len(src) - 3) : SubSeq(src, i, i + 2) = <<"#", "!", "end">>}
  IN  IF ends = {} THEN Len(src) + 1
      ELSE EndOfLine(src, CHOOSE i \in ends : \A j \in ends : i <= j) + 1

\* A comment ends before its newline, a directive after it.
RECURSIVE skip_whitespace_and_comments(_, _)
skip_whitespace_and_comments(src, p) ==
  LET line == EndOfLine(src, p)
  IN  IF p > Len(src) \/ src[p] \notin Blanks \cup {"#"} THEN p
      ELSE skip_whitespace_and_comments(src,
             IF src[p] \in Blanks THEN p + 1
             ELSE IF p = Len(src) \/ src[p + 1] # "!" THEN line
             ELSE IF p + 2 <= Len(src) /\ src[p + 2] = "expect" THEN AfterDirective(src, line + 1)
             ELSE line + 1)

Digit(c) == CHOOSE d \in 0..9 : ToString(d) = c
Number(ds) == FoldLeft(LAMBDA n, c : 10 * n + Digit(c), 0, ds)

\* Digits, an exponent, a suffix.  An integer is read by strtoll, which stops
\* at the exponent.
lex_number(src, p) ==
  LET q    == Upto(src, p, LAMBDA c : c \notin Digits)
      exp  == q <= Len(src) /\ src[q] \in {"e", "E"}
      s    == IF exp THEN Upto(src, q + 1, LAMBDA c : c \notin {"+"}) ELSE q
      end  == IF exp THEN Upto(src, s, LAMBDA c : c \notin Digits) ELSE q
      n    == Number(SubSeq(src, p, q - 1))
      real == n * 10^Number(SubSeq(src, s, end - 1))
      suffix == IF end <= Len(src) THEN src[end] ELSE "none"
  IN  CASE suffix \in {"L", "l"} -> [tok |-> Tok("integer", "", n), at |-> end + 1]
        [] suffix = "i" -> [tok |-> Tok("complex", "", real), at |-> end + 1]
        [] OTHER -> [tok |-> Tok("real", "", real), at |-> end]

\* The text up to the quote; a string without an end takes the rest.
RECURSIVE lex_string(_, _, _, _)
lex_string(src, p, quote, text) ==
  IF p > Len(src) \/ src[p] = quote THEN [tok |-> Tok("string", text, 0), at |-> p + 1]
  ELSE IF src[p] = "\\" /\ p < Len(src)
    THEN lex_string(src, p + 2, quote, text \o (IF src[p + 1] = "n" THEN "\n" ELSE src[p + 1]))
  ELSE lex_string(src, p + 1, quote, IF src[p] = "\\" THEN text ELSE text \o src[p])

lex_ident_or_keyword(src, p) ==
  LET q    == Upto(src, p, LAMBDA c : ~is_ident_cont(c))
      name == Text(src, p, q)
      kind == CASE name \in Keywords -> name
                [] name \in {"NA_integer_", "NA_real_", "NA_character_"} -> name
                [] name = "T" -> "TRUE" [] name = "F" -> "FALSE"
                [] OTHER -> "ident"
  IN  [tok |-> Tok(kind, name, 0), at |-> q]

\* What the nested tests of lex_operator have read when they ask for more.
Stems == Operators \cup {<<"<", "<">>}

RECURSIVE Longest(_, _, _)
Longest(src, p, t) ==
  IF p <= Len(src) /\ Append(t, src[p]) \in Stems THEN Longest(src, p + 1, Append(t, src[p]))
  ELSE t

lex_operator(src, p) ==
  LET t == Longest(src, p, <<>>)
  IN  [tok |-> IF t \in Operators THEN Tok(CHOOSE o \in DOMAIN Chars : Chars[o] = t, "", 0)
               ELSE Tok("error", "", 0),
       at  |-> p + Len(t)]

next_token(src, from) ==
  LET p == skip_whitespace_and_comments(src, from)
      q == Upto(src, p + 1, LAMBDA c : c = Back)
  IN  CASE p > Len(src) -> [tok |-> Tok("eof", "", 0), at |-> p]
        [] p <= Len(src) /\ src[p] = "\n" -> [tok |-> Tok("newline", "", 0), at |-> p + 1]
        [] p <= Len(src) /\ src[p] \in Digits -> lex_number(src, p)
        [] p <= Len(src) /\ src[p] \in Quotes -> lex_string(src, p + 1, src[p], "")
        [] p <= Len(src) /\ src[p] = Back ->
             [tok |-> Tok("backtick_ident", Text(src, p + 1, q), 0), at |-> q + 1]
        [] p <= Len(src) /\ is_ident_start(src[p]) -> lex_ident_or_keyword(src, p)
        [] OTHER -> lex_operator(src, p)
=============================================================================
