-------------------------- MODULE MCLexicalScope ----------------------------
(***************************************************************************)
(* A program with one function f(x) at top level, that reads x by LOAD_VAR *)
(* (it calls x, say); f and the top-level code assign x and another name.  *)
(***************************************************************************)
EXTENDS LexicalScope

CONSTANTS x, y, nil, v, none, top, f, loadInF

Symbols == {x, y}
Values == {nil, v}
Functions == {top, f}
EnclosedBy == [g \in {f} |-> top]
ParamsOf == [g \in Functions |-> IF g = f THEN <<x>> ELSE <<>>]
Sites == {loadInF}
SymbolOf == [i \in Sites |-> x]
FunctionOf == [i \in Sites |-> f]
=============================================================================
