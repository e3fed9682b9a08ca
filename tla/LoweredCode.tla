---------------------------- MODULE LoweredCode -----------------------------
(***************************************************************************)
(* Lowered programs, executed by the dispatch loop beside what they mean:  *)
(* does the code do what the program says?                                 *)
(***************************************************************************)
EXTENDS DispatchLoop, Meaning

CONSTANTS
  Programs,   \* the programs that are executed
  Fuel        \* bound: iterations and calls of a program that is compared

VARIABLES
  program,    \* the one that runs
  meaning     \* how it ends by Meaning, the value of r, and the hazards met

codeVars == <<program, meaning, frames, left, parent, bound, ic, status>>

-----------------------------------------------------------------------------
\* The name the programs leave their result in.
Result(env) == IF "r" \in DOMAIN env THEN env["r"] ELSE Raised

CodeInit ==
  /\ program \in Programs
  /\ meaning = LET s == Evaluate(program, Fuel)
               IN  [ctl |-> s.ctl, r |-> Result(s.bound[Global]), met |-> s.met]
  /\ Started(lower_program(program))

Execute == Handler /\ UNCHANGED <<program, meaning>>

CodeSpec == CodeInit /\ [][Execute]_codeVars

\* The dispatch loop goes on for as long as there is an instruction.
FairCodeSpec == CodeSpec /\ WF_codeVars(Execute)

-----------------------------------------------------------------------------
(***************************************************************************)
(* Properties                                                              *)
(***************************************************************************)

SameValue(a, b) == a.tag = b.tag /\ (a.tag = "closure" \/ a = b)

\* The program ended as it should, with the right result.
Agrees ==
  \/ meaning.ctl = "ok" /\ status = "done" /\ SameValue(Result(bound[Global]), meaning.r)
  \/ meaning.ctl = "error" /\ status = "error"

\* Lowered code computes what the program means, unless the program meets one
\* of the hazards module Meaning lists.
LoweredRight ==
  status \notin {"running", "cut"} /\ meaning.ctl # "spent" /\ meaning.met = {} => Agrees

EndsDespite(kinds) ==
  (meaning.ctl # "spent" /\ meaning.met \subseteq kinds) ~> (status \in {"done", "error"})

\* And it ends if the program does.
ProgramsEnd == EndsDespite({})

\* break and next leave the loop and the iteration ("Loop context (for
\* break/next)", "For/while/repeat loops").
LoopExitsEnd == EndsDespite({"jump"})
=============================================================================
