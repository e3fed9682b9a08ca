----------------------------- MODULE Reentrancy -----------------------------
(***************************************************************************)
(* Builtins that call back into R: sapply_impl (src/vm/primitives.cpp)     *)
(* runs inside op_CALL's builtin branch and calls                          *)
(* Interpreter::call_function for each element, which starts a second      *)
(* dispatch loop through execute_with_args on the same frame stack and the *)
(* same register arena.  The first loop waits in C++ with its locals.      *)
(***************************************************************************)
EXTENDS CallStack

CONSTANT
  Apply       \* the builtin sapply, one of Data

VARIABLE
  outer       \* the dispatch loops waiting in a callback, innermost last: their
              \* locals, the register the result goes to, the closure applied,
              \* and, for the property, what their registers held

reVars == <<callVars, outer>>

Waiting == outer[Len(outer)]

Suspended(f, dst) ==
  [cur |-> cur, fn |-> fn, regs |-> regs, ip |-> ip, dst |-> dst, f |-> f,
   held |-> [r \in Regs(fn) |-> reg_arena[regs + r]]]

\* call_function on one element: slow_call, execute_with_args.
call_function(f) ==
  \E element \in Data : execute_with_args(f, [i \in {0} |-> element], 1)

-----------------------------------------------------------------------------
ReInit == CallInit /\ outer = <<>>

\* op_CALL of sapply(x, f), f a closure, for the first element of x.
ApplyFirst(ra, dst) ==
  /\ running
  /\ ra + 2 < nregs[fn]
  /\ ip + 1 < CodeLen[fn]
  /\ reg_arena[regs + ra] = Apply
  /\ LET f == reg_arena[regs + ra + 2]
     IN  /\ f \in Fn
         /\ call_function(f)
         /\ outer' = Append(outer, Suspended(f, dst))

\* The callback returned and x has another element.
ApplyNext ==
  /\ ~running
  /\ outer # <<>>
  /\ call_function(Waiting.f)
  /\ UNCHANGED outer

\* sapply_impl returns its vector, and op_CALL goes on in the waiting loop.
ApplyDone ==
  /\ ~running
  /\ outer # <<>>
  /\ running' = TRUE
  /\ cur' = Waiting.cur
  /\ fn' = Waiting.fn
  /\ regs' = Waiting.regs
  /\ ip' = Waiting.ip + 1
  /\ \E result \in Data :
       reg_arena' = [reg_arena EXCEPT ![Waiting.regs + Waiting.dst] = result]
  /\ outer' = SubSeq(outer, 1, Len(outer) - 1)
  /\ UNCHANGED <<frame_stack, frame_depth, reg_sp, overrun>>

\* An instruction of the innermost loop; an error unwinds the waiting ones.
InnerInstruction ==
  /\ running
  /\ Instruction
  /\ outer' = IF raise_error THEN <<>> ELSE outer

ReNext ==
  /\ ~overrun
  /\ \/ outer = <<>> /\ Execute /\ UNCHANGED outer
     \/ InnerInstruction
     \/ \E ra, dst \in Regs(fn) : ApplyFirst(ra, dst)
     \/ ApplyNext
     \/ ApplyDone

ReSpec == ReInit /\ [][ReNext]_reVars

-----------------------------------------------------------------------------
\* A builtin that calls back leaves the registers of its caller as they were,
\* but for the one its result goes to ("This makes the VM re-entrant").
OuterRegistersIntact ==
  [][ApplyDone => \A r \in Regs(fn') \ {Waiting.dst} :
                    reg_arena'[regs' + r] = Waiting.held[r]]_reVars
=============================================================================
