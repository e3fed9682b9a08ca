----------------------------- MODULE SeaOfNodes -----------------------------
(***************************************************************************)
(* The graph of a function (src/ir/sea_of_nodes.cpp).  Nodes are known by  *)
(* their id; nodes_ has them in the order of their ids, as new_node        *)
(* appends and remove_node keeps the order.                                *)
(***************************************************************************)
EXTENDS Integers, Sequences, FiniteSets, TLC

Null == -1      \* a null Node*

\* What Op makes of base with the members of s, one after the other.
Fold(Op(_, _), base, s) ==
  LET f[i \in 0..Len(s)] == IF i = 0 THEN base ELSE Op(f[i - 1], s[i]) IN f[Len(s)]

\* The members of S among those of s, in their order there.
InOrder(S, s) == Fold(LAMBDA kept, i : IF i \in S THEN Append(kept, i) ELSE kept, <<>>, s)

\* How often x is in the sequence s.
Times(s, x) == Cardinality({p \in DOMAIN s : s[p] = x})

\* std::remove and erase: s without the members that are x.
Without(s, x) == Fold(LAMBDA kept, y : IF y = x THEN kept ELSE Append(kept, y), <<>>, s)

\* room is the capacity of nodes_, which doubles when it is full.
EmptyGraph == [node |-> <<>>, next |-> 0, room |-> 1]

Ids(g) == DOMAIN g.node

\* The ids in the order of nodes_.
nodes(g) == InOrder(Ids(g), [i \in 1..g.next |-> i - 1])

\* A full nodes_ is moved when a node is added.
Full(g) == Cardinality(Ids(g)) = g.room

\* The node has the id g.next.
NewNode(g, kind, inputs, k, const) ==
  LET n == g.next
      made == [kind |-> kind, ins |-> inputs, outs |-> <<>>, k |-> k, const |-> const]
      Uses(i) == [j \in 1..Times(inputs, i) |-> n]
  IN  [node |-> [i \in Ids(g) \cup {n} |->
                   IF i = n THEN made ELSE [g.node[i] EXCEPT !.outs = @ \o Uses(i)]],
       next |-> n + 1,
       room |-> IF Full(g) THEN 2 * g.room ELSE g.room]

new_node(g, kind, inputs) == NewNode(g, kind, inputs, "0", 0)

NewGraph == new_node(new_node(EmptyGraph, "Start", <<>>), "End", <<>>)
Start    == 0

\* Mutant: the node goes and stays a user of its inputs.
remove_node_listed(g, n) == [g EXCEPT !.node = [i \in Ids(g) \ {n} |-> g.node[i]]]

remove_node(g, n) ==
  LET inputs == g.node[n].ins
      Forget(m) == [m EXCEPT !.outs = Without(@, n)]
  IN  [g EXCEPT !.node = [i \in Ids(g) \ {n} |->
         IF Times(inputs, i) > 0 THEN Forget(g.node[i]) ELSE g.node[i]]]

\* Mutant: the users keep their input, and new only learns of them.
replace_node_outs(g, old, new) ==
  [g EXCEPT !.node = [@ EXCEPT ![old].outs = <<>>, ![new].outs = @ \o g.node[old].outs]]

\* Every user of old uses new.  new may be null only if there is none.
replace_node(g, old, new) ==
  LET users == g.node[old].outs
      Redirect(i) ==
        LET n == g.node[i]
        IN  [n EXCEPT !.ins  = IF Times(users, i) > 0
                                 THEN [j \in DOMAIN @ |-> IF @[j] = old THEN new ELSE @[j]] ELSE @,
                      !.outs = IF i = old THEN <<>> ELSE IF i = new THEN @ \o users ELSE @]
  IN  [g EXCEPT !.node = [i \in Ids(g) |-> Redirect(i)]]

is_control(n) ==
  n.kind \in {"Start", "End", "Region", "Loop", "If", "IfTrue", "IfFalse", "Return"}

-----------------------------------------------------------------------------
\* The inputs of nodes are nodes of the graph, and a node knows each of its
\* uses, once for each time it is used.
Closed(g) ==
  /\ Start \in Ids(g)
  /\ \A i, j \in Ids(g) : Times(g.node[i].ins, j) = Times(g.node[j].outs, i)
  /\ \A i \in Ids(g) :
       LET n == g.node[i]
       IN  /\ \A p \in DOMAIN n.ins : n.ins[p] \in Ids(g) \cup {Null}
           /\ \A p \in DOMAIN n.outs : n.outs[p] \in Ids(g)
=============================================================================
