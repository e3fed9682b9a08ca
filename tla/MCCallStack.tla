---------------------------- MODULE MCCallStack -----------------------------
(***************************************************************************)
(* The call stack on a small instance: a program with two registers, that  *)
(* may call sum, with one parameter and two registers, and one, a          *)
(* constant function with no register of its own.                          *)
(***************************************************************************)
EXTENDS CallStack

CONSTANTS main, sum, one, nil, num

Functions == {main, sum, one}
Plain == {nil, num}
ParamsOf == [g \in Functions |-> IF g = sum THEN 1 ELSE 0]
RegsOf == [g \in Functions |-> IF g = one THEN 0 ELSE 2]
LengthOf == [g \in Functions |-> 2]
=============================================================================
