------------------------------ MODULE DataFlow ------------------------------
(***************************************************************************)
(* What a graph promises the builder and the passes: nodes with inputs,    *)
(* which are nodes.  That a node also lists its users is the business of   *)
(* module GraphEdits, which implements this one.                           *)
(***************************************************************************)
EXTENDS Integers, Sequences

CONSTANTS
  MaxNodes,   \* bound: ids given to nodes
  MaxInputs   \* bound: inputs of a node

Null == -1    \* a null Node*

VARIABLES
  inputs,     \* inputs[n]: the inputs of the node n
  next        \* the id of the next node

flowVars == <<inputs, next>>

Nodes == DOMAIN inputs

-----------------------------------------------------------------------------
\* The start and the end.
FlowInit ==
  /\ inputs = [n \in 0..1 |-> <<>>]
  /\ next = 2

FlowAdd(s) ==
  /\ next < MaxNodes
  /\ inputs' = [n \in Nodes \cup {next} |-> IF n = next THEN s ELSE inputs[n]]
  /\ next' = next + 1

\* A node that is removed is nobody's input.
FlowRemove(n) ==
  /\ \A m \in Nodes : \A p \in DOMAIN inputs[m] : inputs[m][p] # n
  /\ inputs' = [m \in Nodes \ {n} |-> inputs[m]]
  /\ UNCHANGED next

\* Whoever had old as an input, wherever it is, has new.
FlowReplace(old, new) ==
  /\ inputs' = [n \in Nodes |->
       [p \in DOMAIN inputs[n] |-> IF inputs[n][p] = old THEN new ELSE inputs[n][p]]]
  /\ UNCHANGED next

FlowNext ==
  \/ \E len \in 0..MaxInputs : \E s \in [1..len -> Nodes \cup {Null}] : FlowAdd(s)
  \/ \E n \in Nodes : FlowRemove(n)
  \/ \E old \in Nodes, new \in Nodes \cup {Null} : FlowReplace(old, new)

FlowSpec == FlowInit /\ [][FlowNext]_flowVars
=============================================================================
