------------------------------- MODULE Passes -------------------------------
(***************************************************************************)
(* The optimizer (src/optimizer/passes.cpp).  A pass takes a graph and     *)
(* gives the graph, whether it changed (any), and what went wrong (fault): *)
(* "null", it gave users to a null node; "moved", it read nodes_ on after  *)
(* a new node had moved it.                                                *)
(***************************************************************************)
EXTENDS SeaOfNodes

Done(g, any, fault) == [g |-> g, any |-> any, fault |-> fault]

has_side_effects(n) == n.kind \in {"StoreVar", "Call", "Return", "End"}

Useless(g, i) ==
  g.node[i].kind # "Start" /\ ~has_side_effects(g.node[i]) /\ g.node[i].outs = <<>>

drop_useless(g, i) == IF Useless(g, i) THEN remove_node(g, i) ELSE g

\* The nodes that nothing uses are removed, and once more until there are none,
\* which takes no more rounds than there are nodes.
drop_all_useless(g, round) == Fold(drop_useless, g, nodes(g))

\* Mutant: one round.
dce_once(g) == Done(drop_all_useless(g, 1), \E i \in Ids(g) : Useless(g, i), "none")

dce(g) == Done(Fold(drop_all_useless, g, nodes(g)), \E i \in Ids(g) : Useless(g, i), "none")

\* Mutant: the control a node depends on does not count.
gvn_key_floating(g, i) ==
  LET n == g.node[i]
  IN  <<n.kind, n.k, [j \in 1..(Len(n.ins) - 1) |-> IF n.ins[j + 1] = Null THEN 0 ELSE n.ins[j + 1]]>>

\* What gvn takes for the value of a node.  The value of a constant is not part
\* of it, and a null input is taken for the node 0.
gvn_key(g, i) ==
  LET n == g.node[i]
  IN  <<n.kind, n.k, [j \in DOMAIN n.ins |-> IF n.ins[j] = Null THEN 0 ELSE n.ins[j]]>>

\* A node is replaced by the first one with its key.
gvn_visit(s, i) ==
  LET key  == gvn_key(s.g, i)
      same == {f \in s.seen : f.key = key}
  IN  IF has_side_effects(s.g.node[i]) \/ is_control(s.g.node[i]) THEN s
      ELSE IF same = {} THEN [s EXCEPT !.seen = @ \cup {[key |-> key, id |-> i]}]
      ELSE [s EXCEPT !.g = replace_node(s.g, i, (CHOOSE f \in same : TRUE).id), !.any = TRUE]

gvn(g) ==
  LET end == Fold(gvn_visit, [g |-> g, seen |-> {}, any |-> FALSE], nodes(g))
  IN  Done(end.g, end.any, "none")

Arithmetic(kind, x, y) ==
  CASE kind = "Add" -> x + y [] kind = "Sub" -> x - y [] kind = "Mul" -> x * y [] kind = "Div" -> x \div y

IsReal(g, i) == i # Null /\ g.node[i].kind = "ConstReal"

\* Arithmetic on two constants, but no division by zero.
Foldable(g, i) ==
  LET n == g.node[i]
  IN  /\ n.kind \in {"Add", "Sub", "Mul", "Div"} /\ Len(n.ins) >= 3
      /\ IsReal(g, n.ins[2]) /\ IsReal(g, n.ins[3])
      /\ n.kind = "Div" => g.node[n.ins[3]].const # 0

folded(g, n) == Arithmetic(n.kind, g.node[n.ins[2]].const, g.node[n.ins[3]].const)

\* A folded node loses its users and stays, as foldable as before.
fold_visit(s, i) ==
  LET n   == s.g.node[i]
      new == NewNode(s.g, "ConstReal", <<n.ins[1]>>, "0", folded(s.g, n))
  IN  IF Foldable(s.g, i)
        THEN Done(replace_node(new, i, s.g.next), TRUE, IF Full(s.g) THEN "moved" ELSE s.fault)
        ELSE s

\* The nodes added are not visited.
constant_fold(g) == Fold(fold_visit, Done(g, FALSE, "none"), nodes(g))

\* Mutant: merging constants is a reason to go on, too.
sccp_round_any(g) ==
  LET fold == constant_fold(g)
      gv   == gvn(fold.g)
  IN  [g |-> gv.g, again |-> fold.any \/ gv.any, any |-> fold.any \/ gv.any, fault |-> fold.fault]

\* sccp repeats this until nothing folds.
sccp_round(g) ==
  LET fold == constant_fold(g)
      gv   == gvn(fold.g)
  IN  [g |-> gv.g, again |-> fold.any, any |-> fold.any \/ gv.any, fault |-> fold.fault]

licm(g) == Done(g, FALSE, "none")

\* x * 1 and x + 0 become x, x * 0 becomes 0.
reduced(g, n) ==
  LET b == g.node[n.ins[3]].const
  IN  CASE n.kind = "Mul" /\ b = 1 -> <<n.ins[2]>>
        [] n.kind = "Mul" /\ b = 0 -> <<n.ins[3]>>
        [] n.kind = "Add" /\ b = 0 -> <<n.ins[2]>>
        [] OTHER -> <<>>

reduce_visit(s, i) ==
  LET n  == s.g.node[i]
      to == IF n.kind \in {"Mul", "Add"} /\ Len(n.ins) >= 3 /\ IsReal(s.g, n.ins[3])
              THEN reduced(s.g, n) ELSE <<>>
  IN  IF to = <<>> THEN s
      ELSE IF to[1] = Null /\ n.outs # <<>> THEN [s EXCEPT !.fault = "null"]
      ELSE Done(replace_node(s.g, i, to[1]), TRUE, s.fault)

strength_reduce(g) == Fold(reduce_visit, Done(g, FALSE, "none"), nodes(g))
=============================================================================
