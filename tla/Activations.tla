----------------------------- MODULE Activations ----------------------------
(***************************************************************************)
(* What calls promise R programs: every activation of a function has       *)
(* registers of its own, a call suspends the caller until the callee       *)
(* returns, and a return gives the caller back its registers and its place *)
(* in the code, with the result in the register the call named.  No frame  *)
(* array, no arena and no stack pointer: those are the business of module  *)
(* CallStack, which implements this one.                                   *)
(***************************************************************************)
EXTENDS Naturals, Sequences

CONSTANTS
  Fn,         \* the functions (BytecodeFunctions)
  Main,       \* the code of the program, which only the embedder executes
  Data,       \* values that are not closures
  Nil,        \* NULL
  nparams,    \* nparams[f]: the parameters of f
  nregs,      \* nregs[f]: the registers of f
  CodeLen     \* CodeLen[f]: the instructions of f

\* A closure is named by its function; Main is never a value.
Value == Data \cup (Fn \ {Main})

\* The registers the instructions of f name.  Code without a register of its
\* own (a function whose body is a constant) still leaves its result in r0.
Regs(f) == 0..(IF nregs[f] = 0 THEN 0 ELSE nregs[f] - 1)

VARIABLE
  stack       \* the activations, the running one last

Depth == Len(stack)

\* A new activation of f: an argument in the register of each parameter it was
\* passed for, anything in the registers of the others, NULL elsewhere.
Fresh(f, args, nargs, dst) ==
  {a \in [fn : {f}, pc : {0}, dst : {dst}, regs : [Regs(f) -> Value]] :
     \A r \in Regs(f) :
       /\ r < nargs /\ r < nparams[f] => a.regs[r] = args[r]
       /\ r >= nparams[f] /\ r < nregs[f] => a.regs[r] = Nil}

NoArgs == <<>>

-----------------------------------------------------------------------------
ActInit == stack = <<>>

\* The embedder executes the program.
Begin ==
  /\ stack = <<>>
  /\ \E a \in Fresh(Main, NoArgs, 0, 0) : stack' = <<a>>

\* An instruction that computes: register r gets v.
Compute(r, v) ==
  /\ stack # <<>>
  /\ stack' = [stack EXCEPT ![Depth].regs[r] = v, ![Depth].pc = @ + 1]

\* A jump to instruction t.
Goto(t) ==
  /\ stack # <<>>
  /\ stack' = [stack EXCEPT ![Depth].pc = t]

\* A call of the closure in register ra with the nargs registers after it.
Invoke(ra, nargs, dst) ==
  /\ stack # <<>>
  /\ LET caller == stack[Depth]
         args   == [i \in 0..(nargs - 1) |-> caller.regs[ra + 1 + i]]
     IN  \E a \in Fresh(caller.regs[ra], args, nargs, dst) :
           stack' = Append([stack EXCEPT ![Depth].pc = @ + 1], a)

\* A return with the value v, to the caller if there is one.
Yield(v) ==
  /\ stack # <<>>
  /\ LET dst  == stack[Depth].dst
         rest == SubSeq(stack, 1, Depth - 1)
     IN  stack' = IF rest = <<>> THEN <<>>
                  ELSE [rest EXCEPT ![Depth - 1].regs[dst] = v]

\* The program ends, or an error unwinds every activation.
Unwind == stack # <<>> /\ stack' = <<>>

ActNext ==
  \/ Begin
  \/ Unwind
  \/ /\ stack # <<>>
     /\ LET top == stack[Depth]
        IN  \/ \E r \in Regs(top.fn), v \in Value : Compute(r, v)
            \/ \E t \in 0..(CodeLen[top.fn] - 1) : Goto(t)
            \/ \E ra, nargs, dst \in Regs(top.fn) :
                 /\ ra + nargs < nregs[top.fn]
                 /\ top.regs[ra] \in Fn
                 /\ Invoke(ra, nargs, dst)
            \/ \E r \in Regs(top.fn) : Yield(top.regs[r])
            \/ Yield(Nil)

ActSpec == ActInit /\ [][ActNext]_stack
=============================================================================
