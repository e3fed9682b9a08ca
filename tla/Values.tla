------------------------------- MODULE Values -------------------------------
(***************************************************************************)
(* The values of running programs and the operators on them, as the        *)
(* interpreter computes them (src/vm/interpreter.cpp).                     *)
(*                                                                         *)
(* Numbers are whole: a double with a fraction does not occur, nor does an *)
(* integer that is too large and becomes a double.  NA is the number of a  *)
(* missing integer or logical, which arithmetic takes for the least one,   *)
(* and of a double that is NaN.                                            *)
(***************************************************************************)
EXTENDS Integers, Sequences

CONSTANT Cap    \* bound: the largest number; results stay between it and its negative

ASSUME CapAssumption == Cap \in 1..30

NA == -1000

Clamp(n) == CASE n = NA -> NA [] n > Cap -> Cap [] n < -Cap /\ n # NA -> -Cap [] OTHER -> n

Nil      == [tag |-> "nil"]
Num(n)   == [tag |-> "num", n |-> Clamp(n)]    \* an integer
Dbl(n)   == [tag |-> "real", n |-> Clamp(n)]
Bool(v)  == [tag |-> "lgl", n |-> v]           \* 0, 1 or NA
Truth(p) == Bool(IF p THEN 1 ELSE 0)
Text(s)  == [tag |-> "str", n |-> s]
\* The elements of a vector are the n of values of the type t.
Vec(t, s) == [tag |-> "vec", vtype |-> t, items |-> s]
Closure(f, e) == [tag |-> "closure", fn |-> f, env |-> e]
Builtin(f) == [tag |-> "builtin", name |-> f]
Raised   == [tag |-> "error"]     \* no value: an error was raised

Ints(a, b)    == a.tag = "num" /\ b.tag = "num"
IsNum(v)      == v.tag \in {"num", "real"}
IsVec(v)      == v.tag = "vec"
IsFunction(v) == v.tag \in {"closure", "builtin"}
Number(v)     == IF IsNum(v) THEN v.n ELSE 0

\* A double computed of two: NaN if one is.
OfDoubles(x, y, r) == Dbl(IF NA \in {x, y} THEN NA ELSE r)

\* add_values of which one is a vector, the shorter one recycled.
AddVectors(a, b) ==
  LET n == IF ~IsVec(a) THEN Len(b.items)
           ELSE IF ~IsVec(b) \/ Len(a.items) > Len(b.items) THEN Len(a.items) ELSE Len(b.items)
      At(v, i) == CASE ~IsVec(v) -> Number(v)
                    [] IsVec(v) /\ v.items = <<>> -> NA
                    [] IsVec(v) /\ v.items # <<>> ->
                         IF v.vtype \in {"num", "real"} THEN v.items[((i - 1) % Len(v.items)) + 1] ELSE 0
  IN  Vec("real", [i \in 1..n |-> OfDoubles(At(a, i), At(b, i), At(a, i) + At(b, i)).n])

\* add_values.  The sum of two missing logicals overflows, to 0.
Plus(a, b) ==
  CASE a.tag = "lgl" /\ b.tag = "lgl" -> Num(IF a.n = NA /\ b.n = NA THEN 0 ELSE a.n + b.n)
    [] Ints(a, b) -> Num(a.n + b.n)
    [] IsNum(a) /\ IsNum(b) /\ ~Ints(a, b) -> OfDoubles(a.n, b.n, a.n + b.n)
    [] IsVec(a) \/ IsVec(b) -> AddVectors(a, b)
    [] OTHER -> Raised

\* sub_values and mul_values: what is not a number counts as 0.
Minus(a, b) ==
  IF Ints(a, b) THEN Num(a.n - b.n) ELSE OfDoubles(Number(a), Number(b), Number(a) - Number(b))
Times(a, b) ==
  IF Ints(a, b) THEN Num(a.n * b.n) ELSE OfDoubles(Number(a), Number(b), Number(a) * Number(b))

\* cmp_scalar: what is no number, NA too, is a NaN, which differs from all.
Compare(op, a, b) ==
  IF \E v \in {a, b} : ~(IsNum(v) \/ v.tag = "lgl") \/ v.n = NA THEN Truth(op = "NE")
  ELSE Truth(CASE op = "LT" -> a.n < b.n  [] op = "LE" -> a.n <= b.n [] op = "GT" -> a.n > b.n
               [] op = "GE" -> a.n >= b.n [] op = "EQ" -> a.n = b.n  [] op = "NE" -> a.n # b.n)

\* The numbers from i to j, up.
Up(i, j) == [k \in 1..(j - i + 1) |-> i + k - 1]

\* Vector::range, up or down.
Range2(i, j) == Vec("num", IF i <= j THEN Up(i, j) ELSE [k \in 1..(i - j + 1) |-> i - k + 1])

\* MAKE_SEQ: integers up or down, else doubles up alone (of numbers).
Seq2(a, b) ==
  IF Ints(a, b) THEN Range2(a.n, b.n)
  ELSE Vec("real", CASE IsNum(a) /\ IsNum(b) -> Up(a.n, b.n))

as_logical_scalar(v) ==
  CASE v.tag = "lgl" -> v.n [] IsNum(v) -> IF v.n \in {0, NA} THEN v.n ELSE 1 [] OTHER -> 0

\* Whether JUMP_IF_FALSE goes on; NA does.
Truthy(v) == as_logical_scalar(v) # 0

\* AND and OR do not look at the second operand if the first decides; an NA
\* there decides, too.
Decides(op, a) == as_logical_scalar(a) = (IF op = "AND" THEN 0 ELSE 1)

Logical(op, a, b) ==
  LET x == as_logical_scalar(a)
      y == as_logical_scalar(b)
  IN  CASE op \in {"AND", "OR"} -> Bool(IF Decides(op, a) \/ x = NA THEN x ELSE y)
        [] NA \in {x, y} /\ op \notin {"AND", "OR"} -> Bool(NA)
        [] OTHER -> Truth(IF op = "AND_SCALAR" THEN x # 0 /\ y # 0 ELSE x # 0 \/ y # 0)

\* Operators by their opcodes; DIV, POW and MOD are left out.
Operate(op, a, b) ==
  CASE op = "ADD" -> Plus(a, b) [] op = "SUB" -> Minus(a, b) [] op = "MUL" -> Times(a, b)
    [] op = "MAKE_SEQ" -> Seq2(a, b)
    [] op \in {"AND", "OR", "AND_SCALAR", "OR_SCALAR"} -> Logical(op, a, b)
    [] op \in {"LT", "LE", "GT", "GE", "EQ", "NE"} -> Compare(op, a, b)

\* NEG and NOT.
Negated(v) ==
  CASE v.tag \in {"num", "lgl"} -> Num(IF v.n = NA THEN NA ELSE -v.n)
    [] v.tag = "real" -> Dbl(IF v.n = NA THEN NA ELSE -v.n)
    [] OTHER -> Raised

Not(v) == LET x == as_logical_scalar(v) IN IF x = NA THEN Bool(NA) ELSE Truth(x = 0)

\* index_value: what is no vector has no elements.
Element(v, i) ==
  IF IsVec(v) /\ (IsNum(i) \/ i.tag = "lgl") /\ i.n \in DOMAIN v.items
    THEN [tag |-> v.vtype, n |-> v.items[i.n]] ELSE Nil
=============================================================================
