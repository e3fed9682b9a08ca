----------------------------- MODULE GraphEdits -----------------------------
(***************************************************************************)
(* Class Graph as the builder and the passes use it: new_node, remove_node *)
(* and replace_node in any order, each where its callers call it.  A node  *)
(* lists its users beside its inputs, and all that keeps the two lists     *)
(* together is that each function edits both.                              *)
(***************************************************************************)
EXTENDS SeaOfNodes

CONSTANTS
  Kind,       \* the kinds of nodes that are added
  MaxNodes,   \* bound: ids given to nodes
  MaxInputs   \* bound: inputs of a node

ASSUME EditsAssumption == MaxNodes \in Nat /\ MaxInputs \in Nat

VARIABLE graph

Init == graph = NewGraph

\* An input may be null: a register nothing was written to.
Add(kind, inputs) ==
  /\ graph.next < MaxNodes
  /\ graph' = new_node(graph, kind, inputs)

\* dce removes what has no users.
Remove(n) ==
  /\ graph.node[n].kind \notin {"Start", "End"}
  /\ graph.node[n].outs = <<>>
  /\ graph' = remove_node(graph, n)

\* No pass replaces a node by itself, nor one with users by null.
Replace(old, new) ==
  /\ new # old
  /\ new = Null => graph.node[old].outs = <<>>
  /\ graph' = replace_node(graph, old, new)

Next ==
  \/ \E kind \in Kind, len \in 0..MaxInputs :
       \E inputs \in [1..len -> Ids(graph) \cup {Null}] : Add(kind, inputs)
  \/ \E n \in Ids(graph) : Remove(n)
  \/ \E old \in Ids(graph), new \in Ids(graph) \cup {Null} : Replace(old, new)

Spec == Init /\ [][Next]_graph

-----------------------------------------------------------------------------
(***************************************************************************)
(* Properties                                                              *)
(***************************************************************************)

Node == [kind : Kind \cup {"Start", "End"}, ins : Seq(Int), outs : Seq(Nat),
         k : {"0"}, const : {0}]

\* The nodes have the ids that were given and fit in nodes_; the start is
\* among them.
EditsTypeOK ==
  /\ graph.next \in Nat /\ graph.room \in Nat
  /\ Ids(graph) \subseteq 0..(graph.next - 1)
  /\ \A n \in Ids(graph) : graph.node[n] \in Node
  /\ Cardinality(Ids(graph)) <= graph.room
  /\ Start \in Ids(graph) /\ graph.node[Start].kind = "Start"

\* Whatever is added, removed and replaced, in whatever order: a node lists
\* exactly its users, each as often as it is used, and no input was freed.
UsesMirrorInputs == Closed(graph)

inputsOf == [n \in Ids(graph) |-> graph.node[n].ins]

Flow == INSTANCE DataFlow WITH inputs <- inputsOf, next <- graph.next

\* What the passes see is a graph of inputs: replace_node reaches every user
\* though it visits only those it finds listed, and no node that is removed
\* is anybody's input.
ImplementsDataFlow == Flow!FlowSpec
=============================================================================
