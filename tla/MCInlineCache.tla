--------------------------- MODULE MCInlineCache ----------------------------
(***************************************************************************)
(* The inline cache on a small instance: one instruction that loads x,     *)
(* while x and another symbol come and go.                                 *)
(***************************************************************************)
EXTENDS InlineCache

CONSTANTS x, y, nil, v, none, loadX

Symbols == {x, y}
Values == {nil, v}
Sites == {loadX}
SymbolOf == [i \in Sites |-> x]
=============================================================================
