----------------------------- MODULE Optimizer ------------------------------
(***************************************************************************)
(* run_all_passes (src/optimizer/passes.cpp): the passes, one after the    *)
(* other, over a graph, until none of them changes it.                     *)
(***************************************************************************)
EXTENDS Passes

CONSTANT MaxPasses    \* bound: the passes over a graph before it is left

VARIABLES
  stage,      \* "optimize", then "dumped" or "crashed"; before, that of module DumpGraph
  ir,         \* the graph
  pass,       \* the pass that is next
  any,        \* did a pass since the first one change the graph?
  iter,       \* rounds of all passes
  passes      \* the passes so far

optVars == <<stage, ir, pass, any, iter, passes>>

\* Begins with the graph g.
Optimizing(g) ==
  stage = "optimize" /\ ir = g /\ pass = 1 /\ any = FALSE /\ iter = 0 /\ passes = 0

Result ==
  CASE pass = 1 -> constant_fold(ir)
    [] pass = 2 -> strength_reduce(ir)
    [] pass = 3 -> gvn(ir)
    [] pass = 4 -> sccp_round(ir)
    [] pass = 5 -> licm(ir)
    [] pass = 6 -> dce(ir)

Again(r) == pass = 4 /\ r.again

Optimize ==
  /\ stage = "optimize" /\ pass <= 6 /\ passes < MaxPasses
  /\ \E r \in {Result} :
       /\ r.fault # "null"
       /\ ir' = r.g
       /\ any' = (any \/ r.any)
       /\ passes' = passes + 1
       /\ pass' = IF Again(r) THEN pass ELSE pass + 1
  /\ UNCHANGED <<stage, iter>>

Crash ==
  /\ stage = "optimize" /\ pass <= 6
  /\ Result.fault # "none"
  /\ stage' = "crashed"
  /\ UNCHANGED <<ir, pass, any, iter, passes>>

Iterate ==
  /\ stage = "optimize" /\ pass = 7
  /\ stage' = IF any /\ iter < 100 THEN "optimize" ELSE "dumped"
  /\ pass' = 1 /\ any' = FALSE /\ iter' = iter + 1
  /\ UNCHANGED <<ir, passes>>

RunPasses == Optimize \/ Crash \/ Iterate

\* The passes over the graph g.
OptimizerSpec(g) == Optimizing(g) /\ [][RunPasses]_optVars

-----------------------------------------------------------------------------
(***************************************************************************)
(* Properties                                                              *)
(***************************************************************************)
HasGraph == stage \in {"optimize", "dumped"}

\* Inputs and outputs of nodes always mirror each other, and no input is of a
\* node that was removed and freed.
GraphClosed == HasGraph => Closed(ir)

\* Dead code elimination leaves no node that nothing uses, however long the
\* chains of nodes only such nodes used.
NothingUseless == [][pass = 6 /\ pass' = 7 => \A i \in Ids(ir') : ~Useless(ir', i)]_optVars
=============================================================================
