----------------------------- MODULE Quickening -----------------------------
(***************************************************************************)
(* One arithmetic or comparison instruction that is executed again and     *)
(* again: its generic handler, the profile it keeps in its flags and the   *)
(* specialised handler it is rewritten to (src/vm/quickening.cpp, the      *)
(* handlers and the *_values of src/vm/interpreter.cpp).                   *)
(*                                                                         *)
(* A double is an integer, NaN, the quotient of two, or Garbled: the bits  *)
(* of a value of another type.  What is computed from it is left open.     *)
(***************************************************************************)
EXTENDS Integers, Sequences, FiniteSets

CONSTANTS
  Operands,   \* the values the instruction may find in its registers
  Ops,        \* the generic opcodes looked at
  IntBits     \* the width of an integer value (32)

Arithmetic == {"ADD", "SUB", "MUL", "DIV"}
Comparison == {"LT", "LE", "GT", "GE", "EQ", "NE"}

\* Values: els are the elements of a vector, as doubles.
Scalar(tag, n) == [tag |-> tag, n |-> n, els |-> <<>>]
Real(x)        == Scalar("real", x)
Integer(n)     == Scalar("integer", n)
Logical(n)     == Scalar("logical", n)
Vector(els)    == [tag |-> "vector", n |-> 0, els |-> els]
Error          == Scalar("error", 0)

TypeTag ==
  [t \in {"nil", "logical", "integer", "real", "string", "vector", "environment", "promise", "closure", "builtin"} |->
    CASE t = "nil" -> 0 [] t = "logical" -> 1 [] t = "integer" -> 2 [] t = "real" -> 3 [] t = "string" -> 4
      [] t = "vector" -> 16 [] t = "environment" -> 17 [] t = "promise" -> 18 [] t = "closure" -> 19
      [] t = "builtin" -> 20]

NaN     == 100000
Garbled == 100001
Quotient(x, y) == 1000 + 100 * x + y
MinInt  == -(2^(IntBits - 1))
MaxInt  == 2^(IntBits - 1) - 1
NaInt   == MinInt       \* kNaInt and kNaLogical
Wrapped(n) == ((n - MinInt) % 2^IntBits) + MinInt

ASSUME QuickeningAssumption ==
  /\ IntBits \in 2..8
  /\ Ops \subseteq Arithmetic \cup Comparison
  /\ \A v \in Operands : v.tag \in DOMAIN TypeTag /\ v.n # Garbled  \* the value of a register is known

-----------------------------------------------------------------------------
(***************************************************************************)
(* Arithmetic on doubles.                                                  *)
(***************************************************************************)
OnReals(op, x, y) ==
  CASE Garbled \in {x, y} -> Garbled
    [] NaN \in {x, y} /\ Garbled \notin {x, y} -> NaN
    [] OTHER -> CASE op = "ADD" -> x + y [] op = "SUB" -> x - y [] op = "MUL" -> x * y
                  [] op = "DIV" -> Quotient(x, y)

\* NA is a NaN, and no comparison with a NaN holds but that of difference.
Holds(op, x, y) ==
  CASE NaN \in {x, y} -> op = "NE"
    [] op = "LT" -> x < y  [] op = "LE" -> x <= y [] op = "GT" -> x > y
    [] op = "GE" -> x >= y [] op = "EQ" -> x = y  [] op = "NE" -> x # y

Truth(b) == Logical(IF b THEN 1 ELSE 0)

\* What comes out for two doubles.
RealResults(op, x, y) ==
  IF op \in Arithmetic THEN {Real(OnReals(op, x, y))}
  ELSE IF Garbled \in {x, y} THEN {Truth(TRUE), Truth(FALSE)}
  ELSE {Truth(Holds(op, x, y))}

OnInts(op, x, y) == CASE op = "ADD" -> x + y [] op = "SUB" -> x - y [] op = "MUL" -> x * y

IsTag(v, t) == v.tag = t
Both(a, b, t) == IsTag(a, t) /\ IsTag(b, t)
Overflows(op, a, b) == OnInts(op, a.n, b.n) \notin MinInt..MaxInt

\* An integer as a double, and any other value that has no conversion.
ToReal(v, other) ==
  IF IsTag(v, "real") THEN v.n ELSE IF ~IsTag(v, "integer") THEN other ELSE IF v.n = NaInt THEN NaN ELSE v.n

\* Integers that do not fit become doubles.
IntResult(op, a, b) ==
  LET r == OnInts(op, a.n, b.n) IN IF r \in MinInt..MaxInt THEN Integer(r) ELSE Real(r)

AddVectors(a, b) ==
  LET n == IF Len(a.els) > Len(b.els) THEN Len(a.els) ELSE Len(b.els)
      At(v, i) == IF ~IsTag(v, "vector") THEN ToReal(v, 0)
                  ELSE IF v.els = <<>> THEN NaN ELSE v.els[((i - 1) % Len(v.els)) + 1]
  IN  Vector([i \in 1..n |-> OnReals("ADD", At(a, i), At(b, i))])

add_values(a, b) ==
  CASE Both(a, b, "integer") -> IntResult("ADD", a, b)
    [] {a.tag, b.tag} = {"real"} \/ {a.tag, b.tag} = {"real", "integer"} ->
         Real(OnReals("ADD", ToReal(a, 0), ToReal(b, 0)))
    [] Both(a, b, "logical") -> Integer(Wrapped(a.n + b.n))
    [] "vector" \in {a.tag, b.tag} -> AddVectors(a, b)
    [] OTHER -> Error

\* sub_values and mul_values take what is not a number for 0, div_values too.
arith_values(op, a, b) ==
  IF op \in {"SUB", "MUL"} /\ Both(a, b, "integer") THEN IntResult(op, a, b)
  ELSE Real(OnReals(op, ToReal(a, 0), ToReal(b, 0)))

cmp_scalar(op, a, b) ==
  LET to_real(v) == IF IsTag(v, "logical") /\ v.n # NaInt THEN v.n ELSE ToReal(v, NaN)
  IN  Truth(Holds(op, to_real(a), to_real(b)))

Generic(op, a, b) ==
  CASE op = "ADD" -> add_values(a, b)
    [] op \in Arithmetic \ {"ADD"} -> arith_values(op, a, b)
    [] op \in Comparison -> cmp_scalar(op, a, b)

-----------------------------------------------------------------------------
(***************************************************************************)
(* The flags: a counter and two tags of four bits each, and two bits.      *)
(***************************************************************************)
kQuickenThreshold == 8

NoFlags == [counter |-> 0, ra_type |-> 0, rb_type |-> 0, consistent |-> FALSE, quickened |-> FALSE]

\* The variant an instruction is rewritten to, by the tags in its flags.
new_op(op, f) ==
  CASE f.ra_type = TypeTag["real"] /\ f.rb_type = TypeTag["real"] -> "real"
    [] f.ra_type = TypeTag["integer"] /\ f.rb_type = TypeTag["integer"] /\ op \in {"ADD", "SUB", "MUL"} -> "int"
    [] OTHER -> "none"

\* in is the instruction: its opcode, the variant of it and its flags.
Rewritten(in) ==
  LET v == new_op(in.op, in.flags)
  IN  IF v = "none" THEN in ELSE [in EXCEPT !.variant = v, !.flags.quickened = TRUE]

\* Mutant: one execution more.
Ready_late(f) == f.counter > kQuickenThreshold /\ f.consistent

Ready(f) == f.counter >= kQuickenThreshold /\ f.consistent

\* Mutant: a tag is taken whole.
nibble_whole(t) == t

nibble(t) == t % 16

\* Mutant: only the last types count.
agree_last(f, ta, tb) == f.counter = 0 \/ (f.ra_type = nibble(ta) /\ f.rb_type = nibble(tb))

\* Whether the types are those found first, now and ever before.
agree(f, ta, tb) ==
  f.counter = 0 \/ (f.consistent /\ f.ra_type = nibble(ta) /\ f.rb_type = nibble(tb))

next_counter(c) == IF c < 15 THEN c + 1 ELSE 15

quicken_observe(in, ta, tb) ==
  LET f       == in.flags
      fresh   == f.counter = 0
      now     == [counter    |-> next_counter(f.counter),
                  ra_type    |-> IF fresh THEN nibble(ta) ELSE f.ra_type,
                  rb_type    |-> IF fresh THEN nibble(tb) ELSE f.rb_type,
                  consistent |-> agree(f, ta, tb),
                  quickened  |-> FALSE]
      counted == [in EXCEPT !.flags = now]
  IN  IF f.quickened THEN in ELSE IF Ready(now) THEN Rewritten(counted) ELSE counted

\* The batch pass over an instruction.
quicken(in) ==
  IF in.flags.quickened \/ ~in.flags.consistent \/ in.flags.counter < kQuickenThreshold THEN in
  ELSE Rewritten(in)

-----------------------------------------------------------------------------
VARIABLES
  in,      \* the instruction
  a, b,    \* its operands when it was executed last
  rdest,   \* and its result
  first,   \* the tags it found first
  mixed,   \* whether it found others while it was generic
  runs     \* how often it was executed generically, up to the threshold

vars == <<in, a, b, rdest, first, mixed, runs>>

Init ==
  /\ in \in [op : Ops, variant : {"none"}, flags : {NoFlags}]
  /\ a = Error /\ b = Error /\ rdest = Error
  /\ first = <<>> /\ mixed = FALSE /\ runs = 0

Tags(x, y) == <<TypeTag[x.tag], TypeTag[y.tag]>>
Nibbles(t) == <<t[1] % 16, t[2] % 16>>

\* The generic handler: two doubles are computed in place, the rest by the
\* *_values, which may raise an error.  The types are observed before.
op_generic ==
  /\ in.variant = "none"
  /\ \E x \in Operands, y \in Operands :
       /\ a' = x /\ b' = y
       /\ in' = quicken_observe(in, TypeTag[x.tag], TypeTag[y.tag])
       /\ IF Both(x, y, "real") THEN rdest' \in RealResults(in.op, x.n, y.n)
          ELSE rdest' = Generic(in.op, x, y)
       /\ first' = IF first = <<>> THEN Tags(x, y) ELSE first
       /\ mixed' = (mixed \/ Nibbles(Tags(x, y)) # Nibbles(first'))
  /\ runs' = IF runs < kQuickenThreshold THEN runs + 1 ELSE runs

\* The doubles or integers the bits of a value are read as.
as_real(v)    == IF IsTag(v, "real") THEN v.n ELSE Garbled
as_integer(v) == IF v.tag \in {"integer", "logical"} THEN {v.n} ELSE MinInt..MaxInt

\* Mutant: the test of LE_REAL_REAL is that of LT_REAL_REAL.
REAL_REAL_strict(op, v, w) == RealResults(IF op = "LE" THEN "LT" ELSE op, as_real(v), as_real(w))

REAL_REAL(op, v, w) == RealResults(op, as_real(v), as_real(w))

op_REAL_REAL ==
  /\ in.variant = "real"
  /\ \E x \in Operands, y \in Operands : a' = x /\ b' = y /\ rdest' \in REAL_REAL(in.op, x, y)
  /\ UNCHANGED <<in, first, mixed, runs>>

op_INT_INT ==
  /\ in.variant = "int"
  /\ \E x \in Operands, y \in Operands :
       /\ a' = x /\ b' = y
       /\ \E m \in as_integer(x), n \in as_integer(y) : rdest' = Integer(Wrapped(OnInts(in.op, m, n)))
  /\ UNCHANGED <<in, first, mixed, runs>>

Execute == op_generic \/ op_REAL_REAL \/ op_INT_INT

Spec == Init /\ [][Execute]_vars

-----------------------------------------------------------------------------
(***************************************************************************)
(* Properties                                                              *)
(***************************************************************************)
Flags ==
  [counter : 0..15, ra_type : 0..15, rb_type : 0..15, consistent : BOOLEAN, quickened : BOOLEAN]

QuickeningTypeOK ==
  /\ in \in [op : Ops, variant : {"none", "real", "int"}, flags : Flags]
  /\ first = <<>> \/ first \in (0..255) \X (0..255)
  /\ mixed \in BOOLEAN /\ runs \in 0..kQuickenThreshold

\* The types a variant is for.
Typed(variant, x, y) == Both(x, y, IF variant = "real" THEN "real" ELSE "integer")

\* A variant of an opcode gives operands of its own types the result the generic
\* handler gives them, but for integers that overflow: the generic handler makes
\* them doubles, the specialised one wraps.
VariantsAgree ==
  in.variant # "none" /\ Typed(in.variant, a, b) /\ ~(in.variant = "int" /\ Overflows(in.op, a, b))
    => rdest = Generic(in.op, a, b)

\* An instruction is specialised if and only if it was executed eight times,
\* found the same types every time, and there is a variant for them; types are
\* the same if their four low bits are.  One that ever found others stays as
\* it is, however long it runs.
SpecialisedExactly ==
  in.variant # "none" <=>
    /\ runs = kQuickenThreshold /\ ~mixed
    /\ new_op(in.op, [NoFlags EXCEPT !.ra_type = first[1] % 16, !.rb_type = first[2] % 16]) # "none"

\* The batch pass never finds an instruction to rewrite that observing its
\* operands did not rewrite.
BatchIdle == quicken(in) = in
=============================================================================
