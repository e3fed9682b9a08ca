---------------------------- MODULE MCReentrancy ----------------------------
(***************************************************************************)
(* sapply on a small instance: a program with three registers, enough for  *)
(* the callee and its two arguments, and square, with one parameter.       *)
(***************************************************************************)
EXTENDS Reentrancy

CONSTANTS main, square, nil, sapply

Functions == {main, square}
Plain == {nil, sapply}
ParamsOf == [g \in Functions |-> IF g = square THEN 1 ELSE 0]
RegsOf == [g \in Functions |-> IF g = square THEN 1 ELSE 3]
LengthOf == [g \in Functions |-> 2]
=============================================================================
