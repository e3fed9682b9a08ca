------------------------------ MODULE CallStack -----------------------------
(***************************************************************************)
(* The interpreter's frame stack and register arena                        *)
(* (include/rjit/vm/interpreter.hpp, src/vm/interpreter.cpp).  A call of a *)
(* closure does not recurse in C++: it takes the next slot of a fixed      *)
(* array of frames and the next nregs values of a fixed arena, and the     *)
(* dispatch loop continues in the callee.  A return gives both back by     *)
(* subtracting.  Nothing checks the two capacities.                        *)
(*                                                                         *)
(* Registers hold data or closures; which instruction of the callee's code *)
(* runs is left open, so every program of a given size is covered.  Frame  *)
(* and register numbers: frames count from 1 here and from 0 in the code,  *)
(* arena cells from 0 in both.                                             *)
(***************************************************************************)
EXTENDS Integers, Sequences

CONSTANTS
  Fn, Main, Data, Nil, nparams, nregs, CodeLen,   \* as in Activations
  FrameCapacity,   \* kFrameStackCapacity
  ArenaSize        \* kRegArenaSize

ASSUME CodeAssumption ==
  /\ Main \in Fn
  /\ nparams \in [Fn -> Nat]
  /\ nregs \in [Fn -> Nat]
  /\ CodeLen \in [Fn -> Nat \ {0}]
  /\ nparams[Main] = 0
  /\ \A f \in Fn : nparams[f] <= nregs[f]

ASSUME DataAssumption == Nil \in Data /\ Data \cap Fn = {}

ASSUME CapacityAssumption ==
  /\ FrameCapacity \in Nat \ {0}
  /\ ArenaSize \in Nat \ {0}
  /\ nregs[Main] <= ArenaSize

Value == Data \cup (Fn \ {Main})

Regs(f) == 0..(IF nregs[f] = 0 THEN 0 ELSE nregs[f] - 1)

NoFrame == 0   \* a null Frame*

Frame == [fn : Fn, caller : Nat, caller_dst : Nat, pc : Nat,
          regs : Nat, nregs : Nat]

VARIABLES
  frame_stack,   \* frame_stack_: every slot, live or not
  frame_depth,   \* frame_depth_
  reg_arena,     \* reg_arena_
  reg_sp,        \* reg_sp_
  running,       \* dispatch_loop is on the C++ stack
  cur,           \* dispatch_loop's locals: cur_frame,
  fn,            \*   fn,
  regs,          \*   regs (the arena index it points at)
  ip,            \*   and ip
  overrun        \* a write went past the end of frame_stack_ or reg_arena_

locals == <<running, cur, fn, regs, ip>>
callVars == <<frame_stack, frame_depth, reg_arena, reg_sp, locals, overrun>>

Cells == 0..(ArenaSize - 1)

\* Mutant: the callee's registers are not zeroed.
PreparedUnzeroed(base, f, zeroed, args, nargs) ==
  [c \in Cells |->
     LET r == c - base
     IN  IF r \in 0..(nregs[f] - 1) /\ r < nargs /\ r < nparams[f] THEN args[r]
         ELSE reg_arena[c]]

\* The arena after the callee's registers, from base on, are prepared: zeroes
\* from register zeroed on, then the arguments there are.
Prepared(base, f, zeroed, args, nargs) ==
  [c \in Cells |->
     LET r == c - base
     IN  IF r \in 0..(nregs[f] - 1)
           THEN IF r < nargs /\ r < nparams[f] THEN args[r]
                ELSE IF r >= zeroed THEN Nil
                ELSE reg_arena[c]
           ELSE reg_arena[c]]

-----------------------------------------------------------------------------
CallInit ==
  /\ frame_stack = [k \in 1..FrameCapacity |->
       [fn |-> Main, caller |-> NoFrame, caller_dst |-> 0, pc |-> 0,
        regs |-> 0, nregs |-> 0]]
  /\ frame_depth = 0
  /\ reg_arena = [c \in Cells |-> Nil]
  /\ reg_sp = 0
  /\ running = FALSE
  /\ cur = NoFrame
  /\ fn = Main
  /\ regs = 0
  /\ ip = 0
  /\ overrun = FALSE

\* Mutant: reg_sp_ keeps what the last execution left.
execute_with_args_unreset(f, args, nargs) ==
  /\ frame_stack' = [frame_stack EXCEPT ![1] =
       [fn |-> f, caller |-> NoFrame, caller_dst |-> 0, pc |-> 0,
        regs |-> 0, nregs |-> nregs[f]]]
  /\ frame_depth' = 1
  /\ reg_arena' = Prepared(0, f, 0, args, nargs)
  /\ reg_sp' = reg_sp + nregs[f]
  /\ running' = TRUE
  /\ cur' = 1
  /\ fn' = f
  /\ regs' = 0
  /\ ip' = 0
  /\ UNCHANGED overrun

\* execute_with_args: whatever an earlier execution left is dropped, and f
\* starts in the bottom frame.  Its own parameters are zeroed too.
execute_with_args(f, args, nargs) ==
  /\ frame_stack' = [frame_stack EXCEPT ![1] =
       [fn |-> f, caller |-> NoFrame, caller_dst |-> 0, pc |-> 0,
        regs |-> 0, nregs |-> nregs[f]]]
  /\ frame_depth' = 1
  /\ reg_arena' = Prepared(0, f, 0, args, nargs)
  /\ reg_sp' = nregs[f]
  /\ running' = TRUE
  /\ cur' = 1
  /\ fn' = f
  /\ regs' = 0
  /\ ip' = 0
  /\ UNCHANGED overrun

\* The embedder runs the program.
Execute ==
  /\ ~running
  /\ execute_with_args(Main, <<>>, 0)

\* An instruction of the running function other than the ones below: it
\* writes one register of its frame and goes on to the next instruction.  A
\* call of a builtin that does not call back is one of these.
Step(r, v) ==
  /\ ip + 1 < CodeLen[fn]
  /\ reg_arena' = [reg_arena EXCEPT ![regs + r] = v]
  /\ ip' = ip + 1
  /\ UNCHANGED <<frame_stack, frame_depth, reg_sp, running, cur, fn, regs, overrun>>

\* RJIT_DISPATCH_GOTO: op_JUMP and the conditional jumps.
JUMP(target) ==
  /\ ip' = target
  /\ UNCHANGED <<frame_stack, frame_depth, reg_arena, reg_sp, running, cur, fn,
                 regs, overrun>>

\* Whether the next frame and its registers are inside their arrays.
Fits(f) == frame_depth < FrameCapacity /\ reg_sp + nregs[f] <= ArenaSize
                                       /\ reg_sp < ArenaSize

\* op_CALL of the closure in register ra, with the nargs registers after it:
\* registers lower_call allocated.
CALL(ra, nargs, dst) ==
  LET f    == reg_arena[regs + ra]
      args == [i \in 0..(nargs - 1) |-> reg_arena[regs + ra + 1 + i]]
      new  == frame_depth + 1
  IN  /\ ra + nargs < nregs[fn]
      /\ f \in Fn
      /\ ip + 1 < CodeLen[fn]
      /\ Fits(f)
      /\ frame_stack' = [frame_stack EXCEPT
           ![cur].pc = ip + 1,
           ![new] = [fn |-> f, caller |-> cur, caller_dst |-> dst, pc |-> 0,
                     regs |-> reg_sp, nregs |-> nregs[f]]]
      /\ frame_depth' = new
      /\ reg_arena' = Prepared(reg_sp, f, nparams[f], args, nargs)
      /\ reg_sp' = reg_sp + nregs[f]
      /\ cur' = new
      /\ fn' = f
      /\ regs' = reg_sp
      /\ ip' = 0
      /\ UNCHANGED <<running, overrun>>

\* The same call when the frame or its registers lie past the end: undefined.
CALL_overrun(ra) ==
  /\ ra < nregs[fn]
  /\ reg_arena[regs + ra] \in Fn
  /\ ip + 1 < CodeLen[fn]
  /\ ~Fits(reg_arena[regs + ra])
  /\ overrun' = TRUE
  /\ UNCHANGED <<frame_stack, frame_depth, reg_arena, reg_sp, locals>>

\* Mutant: the registers are popped by the size of the frame returned to.
RETURN_callers_size(v) ==
  LET caller == frame_stack[cur].caller
      dst    == frame_stack[cur].caller_dst
  IN  /\ frame_depth' = frame_depth - 1
      /\ IF caller = NoFrame
           THEN /\ reg_sp' = reg_sp - frame_stack[cur].nregs
                /\ running' = FALSE
                /\ UNCHANGED <<cur, fn, regs, ip, reg_arena>>
           ELSE /\ reg_sp' = reg_sp - frame_stack[caller].nregs
                /\ cur' = caller
                /\ fn' = frame_stack[caller].fn
                /\ regs' = frame_stack[caller].regs
                /\ ip' = frame_stack[caller].pc
                /\ reg_arena' = [reg_arena EXCEPT
                                   ![frame_stack[caller].regs + dst] = v]
                /\ UNCHANGED running
      /\ UNCHANGED <<frame_stack, overrun>>

\* Mutant: the local that points at the registers is not restored.
RETURN_same_regs(v) ==
  LET caller == frame_stack[cur].caller
      dst    == frame_stack[cur].caller_dst
  IN  /\ reg_sp' = reg_sp - frame_stack[cur].nregs
      /\ frame_depth' = frame_depth - 1
      /\ IF caller = NoFrame
           THEN /\ running' = FALSE
                /\ UNCHANGED <<cur, fn, ip, reg_arena>>
           ELSE /\ cur' = caller
                /\ fn' = frame_stack[caller].fn
                /\ ip' = frame_stack[caller].pc
                /\ reg_arena' = [reg_arena EXCEPT
                                   ![frame_stack[caller].regs + dst] = v]
                /\ UNCHANGED running
      /\ UNCHANGED <<frame_stack, regs, overrun>>

\* op_RETURN and op_RETURN_NULL with the value v.  The bottom frame has no
\* caller: its return ends dispatch_loop.
RETURN(v) ==
  LET caller == frame_stack[cur].caller
      dst    == frame_stack[cur].caller_dst
  IN  /\ reg_sp' = reg_sp - frame_stack[cur].nregs
      /\ frame_depth' = frame_depth - 1
      /\ IF caller = NoFrame
           THEN /\ running' = FALSE
                /\ UNCHANGED <<cur, fn, regs, ip, reg_arena>>
           ELSE /\ cur' = caller
                /\ fn' = frame_stack[caller].fn
                /\ regs' = frame_stack[caller].regs
                /\ ip' = frame_stack[caller].pc
                /\ reg_arena' = [reg_arena EXCEPT
                                   ![frame_stack[caller].regs + dst] = v]
                /\ UNCHANGED running
      /\ UNCHANGED <<frame_stack, overrun>>

\* dispatch_loop is left with nothing popped: by op_HALT, which only the code
\* of the program reaches, or by an error, which any instruction may raise.
HALT == fn = Main /\ running' = FALSE
        /\ UNCHANGED <<frame_stack, frame_depth, reg_arena, reg_sp, cur, fn,
                       regs, ip, overrun>>

raise_error == running' = FALSE
               /\ UNCHANGED <<frame_stack, frame_depth, reg_arena, reg_sp, cur,
                              fn, regs, ip, overrun>>

\* One instruction of the running function.
Instruction ==
  \/ \E r \in Regs(fn), v \in Value : Step(r, v)
  \/ \E target \in 0..(CodeLen[fn] - 1) : JUMP(target)
  \/ \E ra, nargs, dst \in Regs(fn) : CALL(ra, nargs, dst)
  \/ \E ra \in Regs(fn) : CALL_overrun(ra)
  \/ \E r \in Regs(fn) : RETURN(reg_arena[regs + r])
  \/ RETURN(Nil)
  \/ HALT
  \/ raise_error

CallNext ==
  /\ ~overrun
  /\ Execute \/ (running /\ Instruction)

CallSpec == CallInit /\ [][CallNext]_callVars

-----------------------------------------------------------------------------
(***************************************************************************)
(* Properties                                                              *)
(***************************************************************************)

\* The type invariant.
CallTypeOK ==
  /\ frame_stack \in [1..FrameCapacity -> Frame]
  /\ frame_depth \in 0..FrameCapacity
  /\ reg_arena \in [Cells -> Value]
  /\ reg_sp \in 0..ArenaSize
  /\ running \in BOOLEAN
  /\ cur \in 0..FrameCapacity
  /\ fn \in Fn
  /\ regs \in Nat
  /\ ip \in Nat
  /\ overrun \in BOOLEAN

\* The live frames are the first frame_depth_ slots, each the caller of the
\* next, their register windows follow one another from the bottom of the
\* arena, and reg_sp_ is the end of the last one.  So the windows are
\* disjoint, and what RETURN subtracts is what CALL added.
StackDiscipline ==
  running =>
    /\ frame_depth > 0
    /\ \A k \in 1..frame_depth :
         LET f == frame_stack[k]
         IN  /\ f.nregs = nregs[f.fn]
             /\ f.caller = k - 1
             /\ k = 1 => f.regs = 0
             /\ f.regs + f.nregs = IF k = frame_depth THEN reg_sp
                                   ELSE frame_stack[k + 1].regs
             /\ k < frame_depth => /\ f.pc < CodeLen[f.fn]
                                   /\ frame_stack[k + 1].caller_dst < f.nregs

\* The locals of dispatch_loop agree with the frame it executes.
LocalsCurrent ==
  running => /\ cur = frame_depth
             /\ fn = frame_stack[cur].fn
             /\ regs = frame_stack[cur].regs
             /\ ip < CodeLen[fn]
             /\ regs < ArenaSize

\* The activations the frames and the arena stand for.
activations ==
  [k \in 1..(IF running THEN frame_depth ELSE 0) |->
     LET f == frame_stack[k]
     IN  [fn   |-> f.fn,
          pc   |-> IF k = frame_depth THEN ip ELSE f.pc,
          dst  |-> f.caller_dst,
          regs |-> [r \in Regs(f.fn) |-> reg_arena[f.regs + r]]]]

Act == INSTANCE Activations WITH stack <- activations

\* Programs see activations with registers of their own.
ImplementsActivations == Act!ActSpec
=============================================================================
