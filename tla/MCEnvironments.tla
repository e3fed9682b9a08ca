--------------------------- MODULE MCEnvironments ---------------------------
(***************************************************************************)
(* Environments on a small instance: what compiled programs do.            *)
(***************************************************************************)
EXTENDS Environments

CONSTANTS x, y, nil, v, none

Sym2 == {x, y}
Values == {nil, v}
=============================================================================
