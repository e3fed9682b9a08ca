------------------------------ MODULE Builtins ------------------------------
(***************************************************************************)
(* The builtins of the base environment that compute a value               *)
(* (src/vm/primitives.cpp).  args are the values a call passes.  What they *)
(* print is left out, and sapply is the subject of module Reentrancy.      *)
(***************************************************************************)
EXTENDS Values

LOCAL INSTANCE SequencesExt
LOCAL INSTANCE FiniteSetsExt

\* The elements of a value and their type: a scalar is its only element.
VType(v) == IF IsVec(v) THEN v.vtype ELSE v.tag
Items(v) == CASE IsVec(v) -> v.items [] v = Nil -> <<>> [] OTHER -> <<v.n>>

length_impl(args) ==
  Num(IF args = <<>> THEN 0
      ELSE CASE IsVec(args[1]) -> Len(args[1].items) [] args[1] = Nil -> 0 [] OTHER -> 1)

Total(s) == FoldLeft(LAMBDA x, y : x + y, 0, s)

\* The elements of all arguments of the given types, in order.
Collect(args, types) ==
  FlattenSeq([i \in DOMAIN args |-> IF VType(args[i]) \in types THEN Items(args[i]) ELSE <<>>])

\* A missing value makes the sum a NaN, a double makes it a double.
sum_impl(args) ==
  LET all == Collect(args, {"real", "num", "lgl"})
  IN  CASE NA \in {all[i] : i \in DOMAIN all} -> Dbl(NA)
        [] OTHER -> IF Collect(args, {"real"}) # <<>> THEN Dbl(Total(all)) ELSE Num(Total(all))

\* The common type: it starts as double; an integer or logical scalar makes
\* it integer, a vector of doubles makes it double again.
Common(args) ==
  LET Converts(v) == v.tag \in {"num", "lgl"} \/ (IsVec(v) /\ v.vtype = "real")
      decisive    == {i \in DOMAIN args : Converts(args[i])}
  IN  IF \E i \in DOMAIN args : VType(args[i]) = "str" THEN "str"
      ELSE IF decisive = {} \/ IsVec(args[Max(decisive)]) THEN "real"
      ELSE "num"

\* Elements converted to the common type: a double is not converted to an
\* integer (the bits that are read of it are 0, as its vector's are), and
\* strings are not stored at all, which leaves symbol 0.
Converted(t, v) ==
  LET One(n) == CASE t = "str"  -> "symbol 0"
                  [] t = "num"  -> IF VType(v) = "real" THEN 0 ELSE n
                  [] t = "real" -> IF v = Bool(NA) THEN -Cap ELSE n
  IN  [i \in DOMAIN Items(v) |-> One(Items(v)[i])]

c_impl(args) ==
  Vec(Common(args), FlattenSeq([i \in DOMAIN args |-> Converted(Common(args), args[i])]))

\* The number an int32_t is read of.
AsInt(v) == CASE IsNum(v) -> v.n

seq_impl(args) == IF Len(args) < 2 THEN Nil ELSE Range2(AsInt(args[1]), AsInt(args[2]))

seq_len_impl(args) == IF args = <<>> THEN Nil ELSE Range2(1, AsInt(args[1]))

seq_along_impl(args) == IF args = <<>> THEN Nil ELSE Range2(1, length_impl(args).n)

\* Missing elements do not count; means that are not whole are left out.
mean_impl(args) ==
  LET v == args[1]
      s == SelectSeq(Items(v), LAMBDA n : n # NA)
  IN  IF args = <<>> THEN Dbl(NA)
      ELSE IF IsVec(v)
        THEN Dbl(CASE s = <<>> -> NA
                   [] s # <<>> /\ Total(s) % Len(s) = 0 -> Total(s) \div Len(s))
        ELSE Dbl(CASE v.tag = "real" -> v.n
                   [] v.tag = "num" -> IF v.n = NA THEN -Cap ELSE v.n
                   [] OTHER -> NA)

\* The numbers that are compared: a missing integer is the least one, a NaN is
\* neither less nor greater.  Scalars that are logical are passed over.
Compared(args) ==
  LET Of(v) == CASE v.tag = "lgl" -> {}
                 [] VType(v) = "real" -> {Items(v)[i] : i \in DOMAIN Items(v)} \ {NA}
                 [] VType(v) \in {"num", "lgl"} /\ v.tag # "lgl" ->
                      {IF Items(v)[i] = NA THEN -Cap ELSE Items(v)[i] : i \in DOMAIN Items(v)}
                 [] OTHER -> {}
  IN  UNION {Of(args[i]) : i \in DOMAIN args}

\* Infinity is the largest number, too.
min_impl(args) == Dbl(Min(Compared(args) \cup {Cap}))
max_impl(args) == Dbl(Max(Compared(args) \cup {-Cap}))

\* A NaN is not recognized: is_na compares its bits with the tag.
is_na_impl(args) == Truth(args # <<>> /\ args[1].tag \in {"num", "lgl"} /\ args[1].n = NA)

IsScalar(args) == args # <<>> /\ args[1].tag \in {"real", "num", "lgl"}

as_real_impl(args)    == Dbl(IF IsScalar(args) THEN args[1].n ELSE NA)
as_integer_impl(args) == Num(IF IsScalar(args) THEN args[1].n ELSE NA)

\* register_primitives.
Impl(f, args) ==
  CASE f = "length" -> length_impl(args) [] f = "sum" -> sum_impl(args) [] f = "c" -> c_impl(args)
    [] f = "seq" -> seq_impl(args) [] f = "seq_len" -> seq_len_impl(args)
    [] f = "seq_along" -> seq_along_impl(args) [] f = "mean" -> mean_impl(args)
    [] f = "min" -> min_impl(args) [] f = "max" -> max_impl(args) [] f = "is.na" -> is_na_impl(args)
    [] f = "as.numeric" -> as_real_impl(args) [] f = "as.integer" -> as_integer_impl(args)
    [] f \in {"print", "cat"} -> Nil

register_primitives ==
  [f \in {"length", "sum", "c", "seq", "seq_len", "seq_along", "mean", "min", "max", "is.na",
          "as.numeric", "as.integer", "print", "cat"} |-> Builtin(f)]
=============================================================================
