-------------------------- MODULE CallStackProofs ---------------------------
(***************************************************************************)
(* Proofs about the frame stack and the register arena, for any functions, *)
(* register counts and capacities: first what the stack keeps, then that   *)
(* it implements activations with registers of their own, as long as       *)
(* nothing runs past an array's end.                                       *)
(***************************************************************************)
EXTENDS CallStack, LeastNumber, SequenceTheorems

\* The live frames and the locals describe the same stack: together they say
\* where a RETURN goes and how much a RETURN gives back.
CallIInv == CallTypeOK /\ StackDiscipline /\ LocalsCurrent

LEMMA CallInitial == CallInit => CallIInv
<1> SUFFICES ASSUME CallInit PROVE CallIInv
  OBVIOUS
<1>1. frame_stack \in [1..FrameCapacity -> Frame]
  BY CodeAssumption DEF CallInit, Frame, NoFrame
<1>2. Nil \in Value
  BY DataAssumption DEF Value
<1>3. reg_arena \in [Cells -> Value]
  BY <1>2 DEF CallInit
<1>4. /\ frame_depth \in 0..FrameCapacity /\ cur \in 0..FrameCapacity
      /\ reg_sp \in 0..ArenaSize
  BY CapacityAssumption DEF CallInit, NoFrame
<1>5. running \in BOOLEAN /\ overrun \in BOOLEAN /\ fn \in Fn /\ regs \in Nat /\ ip \in Nat
  BY CodeAssumption DEF CallInit
<1>6. CallTypeOK
  BY <1>1, <1>3, <1>4, <1>5 DEF CallTypeOK
<1> QED  BY <1>6 DEF CallInit, CallIInv, StackDiscipline, LocalsCurrent

\* The arena stays an arena of values however a call prepares it.
LEMMA PreparedType ==
  ASSUME reg_arena \in [Cells -> Value], NEW base \in Nat, NEW f \in Fn,
         NEW zeroed, NEW args, NEW nargs \in Nat,
         \A r \in 0..(nargs - 1) : args[r] \in Value
  PROVE  Prepared(base, f, zeroed, args, nargs) \in [Cells -> Value]
<1>1. Nil \in Value
  BY DataAssumption DEF Value
<1>2. \A c \in Cells : Prepared(base, f, zeroed, args, nargs)[c] \in Value
  <2> SUFFICES ASSUME NEW c \in Cells
               PROVE  Prepared(base, f, zeroed, args, nargs)[c] \in Value
    OBVIOUS
  <2>1. reg_arena[c] \in Value
    OBVIOUS
  <2>2. (c - base) \in 0..(nregs[f] - 1) /\ c - base < nargs => args[c - base] \in Value
    BY CodeAssumption DEF Cells
  <2> QED  BY <1>1, <2>1, <2>2 DEF Prepared
<1> QED  BY <1>2 DEF Prepared

\* The registers of the running function are cells of the arena.
LEMMA RegistersInArena ==
  ASSUME CallIInv, running
  PROVE  /\ fn \in Fn /\ nregs[fn] \in Nat /\ regs \in Nat /\ ArenaSize \in Nat
         /\ cur = frame_depth /\ cur \in 1..FrameCapacity
         /\ frame_stack[cur] \in Frame
         /\ frame_stack[cur].fn = fn /\ frame_stack[cur].nregs = nregs[fn]
         /\ frame_stack[cur].regs = regs /\ frame_stack[cur].caller = cur - 1
         /\ regs + nregs[fn] = reg_sp /\ reg_sp <= ArenaSize /\ reg_sp \in Nat
         /\ \A r \in Regs(fn) : regs + r \in Cells
<1>1. /\ fn \in Fn /\ nregs[fn] \in Nat /\ regs \in Nat /\ ArenaSize \in Nat
      /\ reg_sp \in Nat /\ reg_sp <= ArenaSize /\ regs < ArenaSize
      /\ cur = frame_depth /\ cur \in 1..FrameCapacity
      /\ frame_stack[cur] \in Frame
      /\ fn = frame_stack[cur].fn /\ regs = frame_stack[cur].regs
  BY CodeAssumption, CapacityAssumption
  DEF CallIInv, CallTypeOK, StackDiscipline, LocalsCurrent
<1>2. /\ frame_stack[cur].nregs = nregs[fn]
      /\ frame_stack[cur].caller = cur - 1
      /\ regs + nregs[fn] = reg_sp
  BY <1>1 DEF CallIInv, StackDiscipline
<1>3. \A r \in Regs(fn) : regs + r \in Cells
  BY <1>1, <1>2 DEF Regs, Cells
<1> QED  BY <1>1, <1>2, <1>3

LEMMA ExecuteStep ==
  ASSUME CallIInv, Execute
  PROVE  CallIInv'
<1> USE CodeAssumption, CapacityAssumption
<1> DEFINE bottom == [fn |-> Main, caller |-> NoFrame, caller_dst |-> 0, pc |-> 0,
                      regs |-> 0, nregs |-> nregs[Main]]
<1>1. /\ frame_stack' = [frame_stack EXCEPT ![1] = bottom]
      /\ frame_depth' = 1
      /\ reg_arena' = Prepared(0, Main, 0, <<>>, 0)
      /\ reg_sp' = nregs[Main]
      /\ running' = TRUE /\ cur' = 1 /\ fn' = Main /\ regs' = 0 /\ ip' = 0
      /\ overrun' = overrun
  BY DEF Execute, execute_with_args
<1>2. bottom \in Frame
  BY DEF Frame, NoFrame
<1>3. frame_stack' \in [1..FrameCapacity -> Frame] /\ frame_stack'[1] = bottom
  BY <1>1, <1>2 DEF CallIInv, CallTypeOK
<1>4. reg_arena' \in [Cells -> Value]
  BY <1>1, PreparedType DEF CallIInv, CallTypeOK
<1>5. CallTypeOK'
  BY <1>1, <1>3, <1>4 DEF CallIInv, CallTypeOK
<1>6. StackDiscipline'
  BY <1>1, <1>3 DEF StackDiscipline, NoFrame
<1>7. LocalsCurrent'
  BY <1>1, <1>3 DEF LocalsCurrent
<1> QED  BY <1>5, <1>6, <1>7 DEF CallIInv

\* An instruction that changes no frame, only registers and the place in the
\* code, which stays in the code.
LEMMA LocalStep ==
  ASSUME CallIInv, running,
         UNCHANGED <<frame_stack, frame_depth, reg_sp, running, cur, fn, regs, overrun>>,
         reg_arena' \in [Cells -> Value],
         ip' \in 0..(CodeLen[fn] - 1)
  PROVE  CallIInv'
<1>1. CodeLen[fn] \in Nat /\ ip' \in Nat /\ ip' < CodeLen[fn]
  BY CodeAssumption DEF CallIInv, CallTypeOK
<1> QED  BY <1>1 DEF CallIInv, CallTypeOK, StackDiscipline, LocalsCurrent

\* A call appends a frame whose registers start where the caller's end.
LEMMA CALLStep ==
  ASSUME CallIInv, running,
         NEW ra \in Regs(fn), NEW nargs \in Regs(fn), NEW dst \in Regs(fn),
         CALL(ra, nargs, dst)
  PROVE  CallIInv'
<1> USE CodeAssumption, CapacityAssumption
<1> DEFINE f == reg_arena[regs + ra]
           args == [i \in 0..(nargs - 1) |-> reg_arena[regs + ra + 1 + i]]
           new == frame_depth + 1
           callee == [fn |-> f, caller |-> cur, caller_dst |-> dst, pc |-> 0,
                      regs |-> reg_sp, nregs |-> nregs[f]]
<1>1. /\ ra + nargs < nregs[fn] /\ f \in Fn /\ ip + 1 < CodeLen[fn]
      /\ frame_depth < FrameCapacity /\ reg_sp + nregs[f] <= ArenaSize
      /\ reg_sp < ArenaSize
      /\ frame_stack' = [frame_stack EXCEPT ![cur].pc = ip + 1, ![new] = callee]
      /\ frame_depth' = new
      /\ reg_arena' = Prepared(reg_sp, f, nparams[f], args, nargs)
      /\ reg_sp' = reg_sp + nregs[f]
      /\ cur' = new /\ fn' = f /\ regs' = reg_sp /\ ip' = 0
      /\ running' = running /\ overrun' = overrun
  BY DEF CALL, Fits
<1>2. /\ fn \in Fn /\ nregs[fn] \in Nat /\ regs \in Nat /\ ArenaSize \in Nat
      /\ cur = frame_depth /\ cur \in 1..FrameCapacity
      /\ frame_stack[cur] \in Frame
      /\ frame_stack[cur].fn = fn /\ frame_stack[cur].nregs = nregs[fn]
      /\ regs + nregs[fn] = reg_sp /\ reg_sp <= ArenaSize /\ reg_sp \in Nat
      /\ \A r \in Regs(fn) : regs + r \in Cells
      /\ ip \in Nat /\ CodeLen[fn] \in Nat
      /\ frame_stack \in [1..FrameCapacity -> Frame]
      /\ reg_arena \in [Cells -> Value]
  BY RegistersInArena DEF CallIInv, CallTypeOK
<1>3. /\ nregs[f] \in Nat /\ ra \in Nat /\ nargs \in Nat /\ dst \in Nat
      /\ dst < nregs[fn] /\ new \in 1..FrameCapacity /\ new # cur
  <2>1. /\ ra \in Nat /\ nargs \in Nat /\ dst \in Nat
        /\ dst = 0 \/ dst < nregs[fn]
    BY <1>2 DEF Regs
  <2>2. f \in Fn /\ nregs[f] \in Nat
    BY <1>1
  <2>3. new \in 1..FrameCapacity /\ new # cur
    <3>1. cur = frame_depth /\ cur \in 1..FrameCapacity /\ frame_depth < FrameCapacity
      BY <1>1, <1>2
    <3> QED  BY <3>1
  <2>4. dst < nregs[fn]
    <3>1. nregs[fn] \in Nat /\ ra + nargs < nregs[fn]
      BY <1>1, <1>2
    <3> QED  BY <2>1, <3>1
  <2> QED  BY <2>1, <2>2, <2>3, <2>4
<1>4. \A i \in 0..(nargs - 1) : args[i] \in Value
  <2> SUFFICES ASSUME NEW i \in 0..(nargs - 1)
               PROVE  reg_arena[regs + ra + 1 + i] \in Value
    OBVIOUS
  <2>1. i \in Nat /\ i < nargs
    BY <1>3
  <2>2. regs + ra + 1 + i \in Nat /\ regs + ra + 1 + i < ArenaSize
    <3>1. /\ regs \in Nat /\ ra \in Nat /\ nargs \in Nat /\ nregs[fn] \in Nat
          /\ reg_sp \in Nat /\ ArenaSize \in Nat
          /\ ra + nargs < nregs[fn] /\ regs + nregs[fn] = reg_sp /\ reg_sp <= ArenaSize
      BY <1>1, <1>2, <1>3
    <3> QED  BY <2>1, <3>1
  <2>3. regs + ra + 1 + i \in Cells
    BY <1>2, <2>2 DEF Cells
  <2> QED  BY <1>2, <2>3
<1> HIDE DEF f, args, new
<1>5. reg_arena' \in [Cells -> Value]
  BY <1>1, <1>2, <1>3, <1>4, PreparedType
<1>6. callee \in Frame
  BY <1>1, <1>2, <1>3 DEF Frame
<1> HIDE DEF callee
<1>7. [frame_stack[cur] EXCEPT !.pc = ip + 1] \in Frame
  <2>1. ip + 1 \in Nat /\ frame_stack[cur] \in Frame
    BY <1>2
  <2> QED  BY <2>1 DEF Frame
<1>8. /\ frame_stack' \in [1..FrameCapacity -> Frame]
      /\ frame_stack'[new] = callee
      /\ frame_stack'[cur] = [frame_stack[cur] EXCEPT !.pc = ip + 1]
      /\ \A k \in 1..FrameCapacity : k \notin {cur, new} => frame_stack'[k] = frame_stack[k]
  BY <1>1, <1>2, <1>3, <1>6, <1>7
<1>9. /\ frame_stack'[cur].fn = fn /\ frame_stack'[cur].nregs = nregs[fn]
      /\ frame_stack'[cur].caller = frame_stack[cur].caller
      /\ frame_stack'[cur].caller_dst = frame_stack[cur].caller_dst
      /\ frame_stack'[cur].regs = frame_stack[cur].regs
      /\ frame_stack'[cur].pc = ip + 1
  BY <1>2, <1>8 DEF Frame
<1>10. /\ callee.fn = f /\ callee.caller = cur /\ callee.caller_dst = dst
       /\ callee.regs = reg_sp /\ callee.nregs = nregs[f]
  BY DEF callee
<1>11. new = cur + 1
  BY <1>2 DEF new
<1>12. CallTypeOK'
  <2>1. /\ frame_depth' \in 0..FrameCapacity /\ cur' \in 0..FrameCapacity
        /\ reg_sp' \in 0..ArenaSize
    <3>1. /\ frame_depth' = new /\ cur' = new /\ new \in 1..FrameCapacity
          /\ reg_sp' = reg_sp + nregs[f] /\ reg_sp + nregs[f] <= ArenaSize
          /\ reg_sp \in Nat /\ nregs[f] \in Nat
      BY <1>1, <1>2, <1>3
    <3> QED  BY <3>1
  <2>2. running' \in BOOLEAN /\ overrun' \in BOOLEAN
    BY <1>1 DEF CallTypeOK, CallIInv
  <2>3. fn' \in Fn /\ regs' \in Nat /\ ip' \in Nat
    BY <1>1, <1>2
  <2> QED  BY <1>5, <1>8, <2>1, <2>2, <2>3 DEF CallTypeOK
<1>13. LocalsCurrent'
  BY <1>1, <1>2, <1>8, <1>10 DEF LocalsCurrent
<1>14. StackDiscipline'
  <2> SUFFICES ASSUME NEW k \in 1..new
               PROVE  /\ frame_stack'[k].nregs = nregs[frame_stack'[k].fn]
                      /\ frame_stack'[k].caller = k - 1
                      /\ k = 1 => frame_stack'[k].regs = 0
                      /\ frame_stack'[k].regs + frame_stack'[k].nregs =
                           IF k = new THEN reg_sp' ELSE frame_stack'[k + 1].regs
                      /\ k < new => /\ frame_stack'[k].pc < CodeLen[frame_stack'[k].fn]
                                    /\ frame_stack'[k + 1].caller_dst < frame_stack'[k].nregs
    <3>1. frame_depth' = new /\ new > 0
      BY <1>1, <1>2, <1>11
    <3> QED  BY <3>1 DEF StackDiscipline
  <2>1. CASE k = new
    <3>1. /\ frame_stack'[k].nregs = nregs[frame_stack'[k].fn]
          /\ frame_stack'[k].caller = cur
          /\ frame_stack'[k].regs + frame_stack'[k].nregs = reg_sp'
      BY <1>1, <1>8, <1>10, <2>1
    <3>2. cur = k - 1 /\ k # 1 /\ ~(k < new)
      BY <1>2, <1>11, <2>1
    <3> QED  BY <2>1, <3>1, <3>2
  <2>2. CASE k = cur
    <3>1. /\ frame_stack[k].caller = k - 1
          /\ k = 1 => frame_stack[k].regs = 0
          /\ frame_stack[k].regs = regs
      BY <1>2, <2>2 DEF CallIInv, StackDiscipline, LocalsCurrent
    <3> QED  BY <1>1, <1>2, <1>3, <1>8, <1>9, <1>10, <1>11, <2>2, <3>1
  <2>3. CASE k < cur
    <3>1. k \in 1..frame_depth /\ k # frame_depth /\ k + 1 \in 1..cur
      BY <1>2, <2>3
    <3>2. /\ frame_stack[k].nregs = nregs[frame_stack[k].fn]
          /\ frame_stack[k].caller = k - 1
          /\ k = 1 => frame_stack[k].regs = 0
          /\ frame_stack[k].regs + frame_stack[k].nregs = frame_stack[k + 1].regs
          /\ frame_stack[k].pc < CodeLen[frame_stack[k].fn]
          /\ frame_stack[k + 1].caller_dst < frame_stack[k].nregs
      BY <1>2, <2>3, <3>1 DEF CallIInv, StackDiscipline
    <3>3. /\ frame_stack'[k] = frame_stack[k]
          /\ frame_stack'[k + 1].regs = frame_stack[k + 1].regs
          /\ frame_stack'[k + 1].caller_dst = frame_stack[k + 1].caller_dst
      <4>1. k \in 1..FrameCapacity /\ k \notin {cur, new}
        BY <1>2, <1>11, <2>3
      <4>2. k + 1 = cur \/ (k + 1 \in 1..FrameCapacity /\ k + 1 \notin {cur, new})
        BY <1>2, <1>11, <3>1
      <4> QED  BY <1>8, <1>9, <4>1, <4>2
    <3>4. k # new
      BY <1>2, <1>11, <2>3
    <3> QED  BY <3>2, <3>3, <3>4
  <2> QED  BY <1>2, <1>11, <2>1, <2>2, <2>3
<1> QED  BY <1>12, <1>13, <1>14 DEF CallIInv

\* A return drops the last frame and goes on in the one before it.
LEMMA RETURNStep ==
  ASSUME CallIInv, running, NEW v \in Value, RETURN(v)
  PROVE  CallIInv'
<1> USE CodeAssumption, CapacityAssumption
<1> DEFINE caller == frame_stack[cur].caller
           dst == frame_stack[cur].caller_dst
<1>1. /\ reg_sp' = reg_sp - frame_stack[cur].nregs
      /\ frame_depth' = frame_depth - 1
      /\ frame_stack' = frame_stack /\ overrun' = overrun
  BY DEF RETURN
<1>2. /\ fn \in Fn /\ nregs[fn] \in Nat /\ regs \in Nat /\ ArenaSize \in Nat
      /\ cur = frame_depth /\ cur \in 1..FrameCapacity
      /\ frame_stack[cur].nregs = nregs[fn] /\ frame_stack[cur].regs = regs
      /\ caller = cur - 1
      /\ regs + nregs[fn] = reg_sp /\ reg_sp <= ArenaSize /\ reg_sp \in Nat
      /\ frame_stack \in [1..FrameCapacity -> Frame]
      /\ reg_arena \in [Cells -> Value]
  BY RegistersInArena DEF CallIInv, CallTypeOK
<1>3. reg_sp' = regs /\ reg_sp' \in 0..ArenaSize /\ frame_depth' \in 0..FrameCapacity
  BY <1>1, <1>2
<1>4. CASE caller = NoFrame
  <2>1. running' = FALSE /\ UNCHANGED <<cur, fn, regs, ip, reg_arena>>
    BY <1>4 DEF RETURN
  <2> QED  BY <1>1, <1>3, <2>1
           DEF CallIInv, CallTypeOK, StackDiscipline, LocalsCurrent
<1>5. CASE caller # NoFrame
  <2>1. /\ cur' = caller
        /\ fn' = frame_stack[caller].fn
        /\ regs' = frame_stack[caller].regs
        /\ ip' = frame_stack[caller].pc
        /\ reg_arena' = [reg_arena EXCEPT ![frame_stack[caller].regs + dst] = v]
        /\ running' = running
    BY <1>5 DEF RETURN
  <2>2. caller \in 1..FrameCapacity /\ caller \in 1..frame_depth /\ caller < frame_depth
        /\ caller + 1 = cur /\ frame_depth' = caller
    BY <1>1, <1>2, <1>5 DEF NoFrame
  <2>3. frame_stack[caller] \in Frame
    BY <1>2, <2>2
  <2>4. /\ frame_stack[caller].nregs = nregs[frame_stack[caller].fn]
        /\ frame_stack[caller].regs + frame_stack[caller].nregs = regs
        /\ frame_stack[caller].pc < CodeLen[frame_stack[caller].fn]
    BY <1>2, <2>2 DEF CallIInv, StackDiscipline
  <2>5. reg_arena' \in [Cells -> Value]
    BY <1>2, <2>1
  <2>6. CallTypeOK'
    BY <1>1, <1>2, <1>3, <2>1, <2>2, <2>3, <2>5 DEF CallIInv, CallTypeOK, Frame
  <2>7. LocalsCurrent'
    <3>1. /\ frame_stack[caller].regs \in Nat /\ frame_stack[caller].nregs \in Nat
          /\ regs < ArenaSize
      BY <2>3 DEF CallIInv, LocalsCurrent, Frame
    <3>2. frame_stack[caller].regs < ArenaSize
      <4>1. frame_stack[caller].regs + frame_stack[caller].nregs = regs /\ regs \in Nat
        BY <1>2, <2>4
      <4> HIDE DEF caller
      <4> QED  BY <3>1, <4>1
    <3> QED  BY <1>1, <2>1, <2>2, <2>4, <3>2 DEF LocalsCurrent
  <2>8. StackDiscipline'
    <3> SUFFICES ASSUME NEW k \in 1..caller
                 PROVE  /\ frame_stack[k].nregs = nregs[frame_stack[k].fn]
                        /\ frame_stack[k].caller = k - 1
                        /\ k = 1 => frame_stack[k].regs = 0
                        /\ frame_stack[k].regs + frame_stack[k].nregs =
                             IF k = caller THEN regs ELSE frame_stack[k + 1].regs
                        /\ k < caller => /\ frame_stack[k].pc < CodeLen[frame_stack[k].fn]
                                         /\ frame_stack[k + 1].caller_dst < frame_stack[k].nregs
      <4>1. frame_depth' = caller /\ caller > 0 /\ frame_stack' = frame_stack
            /\ reg_sp' = regs
        BY <1>1, <1>3, <2>2
      <4> QED  BY <4>1 DEF StackDiscipline
    <3>1. k \in 1..frame_depth /\ k < frame_depth /\ k # frame_depth
      <4>1. caller \in Nat /\ caller < frame_depth /\ frame_depth \in Nat
        BY <1>2, <2>2
      <4> HIDE DEF caller
      <4> QED  BY <4>1
    <3>2. /\ frame_stack[k].nregs = nregs[frame_stack[k].fn]
          /\ frame_stack[k].caller = k - 1
          /\ k = 1 => frame_stack[k].regs = 0
          /\ frame_stack[k].regs + frame_stack[k].nregs = frame_stack[k + 1].regs
          /\ frame_stack[k].pc < CodeLen[frame_stack[k].fn]
          /\ frame_stack[k + 1].caller_dst < frame_stack[k].nregs
      BY <3>1 DEF CallIInv, StackDiscipline
    <3> QED  BY <2>4, <3>2
  <2> QED  BY <2>6, <2>7, <2>8 DEF CallIInv
<1> QED  BY <1>4, <1>5

\* Leaving the dispatch loop leaves everything in place.
LEMMA LeaveStep ==
  ASSUME CallIInv, HALT \/ raise_error
  PROVE  CallIInv'
  BY DEF CallIInv, CallTypeOK, StackDiscipline, LocalsCurrent, HALT, raise_error

LEMMA CallStep == CallIInv /\ [CallNext]_callVars => CallIInv'
<1> SUFFICES ASSUME CallIInv, [CallNext]_callVars PROVE CallIInv'
  OBVIOUS
<1>1. CASE Execute
  BY <1>1, ExecuteStep
<1>2. CASE running /\ \E r \in Regs(fn), v \in Value : Step(r, v)
  <2>1. PICK r \in Regs(fn), v \in Value : Step(r, v)
    BY <1>2
  <2>2. reg_arena' \in [Cells -> Value]
    BY <2>1 DEF Step, CallIInv, CallTypeOK
  <2>3. ip' \in 0..(CodeLen[fn] - 1)
    BY <2>1, CodeAssumption DEF Step, CallIInv, CallTypeOK
  <2> QED  BY <1>2, <2>1, <2>2, <2>3, LocalStep DEF Step
<1>3. CASE running /\ \E target \in 0..(CodeLen[fn] - 1) : JUMP(target)
  <2>1. PICK target \in 0..(CodeLen[fn] - 1) : JUMP(target)
    BY <1>3
  <2>2. reg_arena' \in [Cells -> Value]
    BY <2>1 DEF JUMP, CallIInv, CallTypeOK
  <2> QED  BY <1>3, <2>1, <2>2, LocalStep DEF JUMP
<1>4. CASE running /\ \E ra, nargs, dst \in Regs(fn) : CALL(ra, nargs, dst)
  BY <1>4, CALLStep
<1>5. CASE \E ra \in Regs(fn) : CALL_overrun(ra)
  BY <1>5 DEF CALL_overrun, locals, CallIInv, CallTypeOK, StackDiscipline, LocalsCurrent
<1>6. CASE running /\ \E r \in Regs(fn) : RETURN(reg_arena[regs + r])
  <2>1. \A r \in Regs(fn) : reg_arena[regs + r] \in Value
    BY <1>6, RegistersInArena DEF CallIInv, CallTypeOK
  <2> QED  BY <1>6, <2>1, RETURNStep
<1>7. CASE running /\ RETURN(Nil)
  <2>1. Nil \in Value
    BY DataAssumption DEF Value
  <2> QED  BY <1>7, <2>1, RETURNStep
<1>8. CASE HALT \/ raise_error
  BY <1>8, LeaveStep
<1>9. CASE UNCHANGED callVars
  BY <1>9 DEF callVars, locals, CallIInv, CallTypeOK, StackDiscipline, LocalsCurrent
<1> QED  BY <1>1, <1>2, <1>3, <1>4, <1>5, <1>6, <1>7, <1>8, <1>9
         DEF CallNext, Instruction

\* The type invariant of the call stack.
THEOREM CallStackTypes == CallSpec => []CallTypeOK
<1>1. CallIInv => CallTypeOK
  BY DEF CallIInv
<1> QED  BY CallInitial, CallStep, <1>1, PTL DEF CallSpec

\* As long as the interpreter is entered from outside only, the register
\* windows of the live frames follow one another and every frame returns to
\* the one below it, however deep and in whatever order the program calls and
\* returns.
THEOREM CallStackDisciplined == CallSpec => []StackDiscipline
<1>1. CallIInv => StackDiscipline
  BY DEF CallIInv
<1> QED  BY CallInitial, CallStep, <1>1, PTL DEF CallSpec

\* And the dispatch loop's locals are those of the last frame: a return
\* restores all of them.
THEOREM LocalsFollowFrames == CallSpec => []LocalsCurrent
<1>1. CallIInv => LocalsCurrent
  BY DEF CallIInv
<1> QED  BY CallInitial, CallStep, <1>1, PTL DEF CallSpec

-----------------------------------------------------------------------------
(***************************************************************************)
(* Windows                                                                 *)
(***************************************************************************)

\* The windows of the live frames lie below one another, however far apart.
LEMMA WindowsApart ==
  ASSUME CallIInv, running,
         NEW j \in 1..frame_depth, NEW k \in 1..frame_depth, j < k
  PROVE  frame_stack[j].regs + frame_stack[j].nregs <= frame_stack[k].regs
<1> DEFINE End(i) == frame_stack[i].regs + frame_stack[i].nregs
           Bad == {i \in 1..frame_depth : j < i /\ ~(End(j) <= frame_stack[i].regs)}
<1>1. frame_depth \in Nat /\ frame_depth <= FrameCapacity
  BY CapacityAssumption DEF CallIInv, CallTypeOK
<1>2. \A i \in 1..frame_depth : frame_stack[i].regs \in Nat /\ frame_stack[i].nregs \in Nat
  BY <1>1, CapacityAssumption DEF CallIInv, CallTypeOK, Frame
<1>3. \A i \in 1..frame_depth : i # frame_depth => End(i) = frame_stack[i + 1].regs
  BY DEF CallIInv, StackDiscipline
<1>4. SUFFICES ASSUME Bad # {} PROVE FALSE
  BY <1>1, <1>2
<1>5. PICK m \in Bad : \A i \in Bad : m <= i
  <2>1. Bad \in SUBSET Nat
    BY <1>1
  <2> HIDE DEF Bad
  <2> QED  BY <1>4, <2>1, LeastNumber
<1>6. m \in 1..frame_depth /\ j < m /\ ~(End(j) <= frame_stack[m].regs)
  OBVIOUS
<1> HIDE DEF End
<1>7. m - 1 \in 1..frame_depth /\ m - 1 # frame_depth /\ End(m - 1) = frame_stack[m].regs
  BY <1>1, <1>3, <1>6
<1>8. CASE j = m - 1
  BY <1>2, <1>6, <1>7, <1>8
<1>9. CASE j < m - 1
  <2>1. m - 1 \notin Bad
    BY <1>5, <1>1
  <2>2. End(j) <= frame_stack[m - 1].regs
    BY <1>7, <1>9, <2>1
  <2>3. frame_stack[m - 1].regs <= End(m - 1) /\ End(j) \in Nat /\ End(m - 1) \in Nat
        /\ frame_stack[m - 1].regs \in Nat
    BY <1>2, <1>7 DEF End
  <2> QED  BY <1>6, <1>7, <2>2, <2>3
<1> QED  BY <1>1, <1>6, <1>8, <1>9

\* No two live frames share a register.
PrivateRegisters ==
  running => \A j, k \in 1..frame_depth :
    j < k => frame_stack[j].regs + frame_stack[j].nregs <= frame_stack[k].regs

\* However many calls lie between them, the registers of a frame end before
\* those of every frame above it begin.
THEOREM RegistersPrivate == CallSpec => []PrivateRegisters
<1>1. CallIInv => PrivateRegisters
  BY WindowsApart DEF PrivateRegisters
<1> QED  BY CallInitial, CallStep, <1>1, PTL DEF CallSpec

-----------------------------------------------------------------------------
(***************************************************************************)
(* What frames stand for                                                   *)
(***************************************************************************)

\* The activation a frame stands for, at a place in the code, with its
\* registers in an arena.
ActivationOf(f, pc, arena) ==
  [fn |-> f.fn, pc |-> pc, dst |-> f.caller_dst,
   regs |-> [r \in Regs(f.fn) |-> arena[f.regs + r]]]

Activation ==
  [fn : Fn, pc : Nat, dst : Nat, regs : UNION {[Regs(f) -> Value] : f \in Fn}]

\* A caller, that is, every live frame but the last, has registers.
LEMMA CallersHaveRegisters ==
  ASSUME CallIInv, running, NEW k \in 1..frame_depth, k < frame_depth
  PROVE  /\ frame_stack[k] \in Frame
         /\ frame_stack[k].nregs = nregs[frame_stack[k].fn]
         /\ frame_stack[k].nregs > 0
<1>1. k \in 1..FrameCapacity /\ k + 1 \in 1..FrameCapacity
  BY CapacityAssumption DEF CallIInv, CallTypeOK
<1>2. frame_stack[k] \in Frame /\ frame_stack[k + 1] \in Frame
  BY <1>1 DEF CallIInv, CallTypeOK
<1>3. /\ frame_stack[k].nregs = nregs[frame_stack[k].fn]
      /\ frame_stack[k + 1].caller_dst < frame_stack[k].nregs
  BY DEF CallIInv, StackDiscipline
<1>4. frame_stack[k].nregs \in Nat /\ frame_stack[k + 1].caller_dst \in Nat
  BY <1>2 DEF Frame
<1> QED  BY <1>2, <1>3, <1>4

\* The registers of a frame survive every change of the arena beyond them.
LEMMA SameRegisters ==
  ASSUME NEW f \in Frame, f.nregs = nregs[f.fn], f.nregs > 0,
         NEW arena, NEW arena2, NEW limit \in Nat, f.regs + f.nregs <= limit,
         \A c \in Cells : c < limit => arena2[c] = arena[c],
         limit <= ArenaSize, NEW pc
  PROVE  ActivationOf(f, pc, arena2) = ActivationOf(f, pc, arena)
<1>1. \A r \in Regs(f.fn) : arena2[f.regs + r] = arena[f.regs + r]
  <2> SUFFICES ASSUME NEW r \in Regs(f.fn)
               PROVE  arena2[f.regs + r] = arena[f.regs + r]
    OBVIOUS
  <2>1. /\ f.regs \in Nat /\ f.nregs \in Nat /\ r \in Nat /\ r < f.nregs
        /\ ArenaSize \in Nat
    BY CapacityAssumption DEF Frame, Regs
  <2>2. f.regs + r \in Cells /\ f.regs + r < limit
    BY <2>1 DEF Cells
  <2> QED  BY <2>2
<1> QED  BY <1>1 DEF ActivationOf

\* The live frames as activations, one by one.
LEMMA ActivationsAre ==
  ASSUME CallIInv, running
  PROVE  /\ frame_depth \in 1..FrameCapacity /\ cur = frame_depth
         /\ activations \in Seq(Activation)
         /\ Len(activations) = frame_depth
         /\ \A k \in 1..frame_depth : activations[k] =
              ActivationOf(frame_stack[k], IF k = frame_depth THEN ip ELSE frame_stack[k].pc, reg_arena)
<1>1. frame_depth \in 1..FrameCapacity /\ cur = frame_depth
  BY RegistersInArena
<1>2. activations = [k \in 1..frame_depth |->
        ActivationOf(frame_stack[k], IF k = frame_depth THEN ip ELSE frame_stack[k].pc, reg_arena)]
  BY DEF activations, ActivationOf
<1>3. ASSUME NEW k \in 1..frame_depth
      PROVE  activations[k] \in Activation
  <2> DEFINE f == frame_stack[k]
  <2>1. f \in Frame /\ k \in 1..FrameCapacity
    BY <1>1, CapacityAssumption DEF CallIInv, CallTypeOK
  <2>2. [r \in Regs(f.fn) |-> reg_arena[f.regs + r]] \in [Regs(f.fn) -> Value]
    <3> SUFFICES ASSUME NEW r \in Regs(f.fn) PROVE reg_arena[f.regs + r] \in Value
      OBVIOUS
    <3>1. CASE k = frame_depth
      BY <1>1, <3>1, RegistersInArena DEF CallIInv, CallTypeOK
    <3>2. CASE k < frame_depth
      <4>1. /\ f.nregs = nregs[f.fn] /\ f.nregs > 0 /\ f.nregs \in Nat /\ f.regs \in Nat
            /\ r \in Nat /\ r < f.nregs
        BY <2>1, <3>2, CallersHaveRegisters DEF Frame, Regs
      <4>2. f.regs + f.nregs <= frame_stack[frame_depth].regs
        BY <1>1, <3>2, WindowsApart
      <4>3. /\ frame_stack[frame_depth].regs = regs /\ regs \in Nat
            /\ regs < ArenaSize /\ ArenaSize \in Nat
        BY <1>1, RegistersInArena, CapacityAssumption DEF CallIInv, LocalsCurrent, CallTypeOK
      <4> HIDE DEF f
      <4>4. f.regs + r \in Cells
        BY <4>1, <4>2, <4>3 DEF Cells
      <4> QED  BY <4>4 DEF CallIInv, CallTypeOK, f
    <3> QED  BY <1>1, <3>1, <3>2
  <2>3. f.fn \in Fn /\ f.caller_dst \in Nat /\ f.pc \in Nat /\ ip \in Nat
    BY <2>1 DEF Frame, CallIInv, CallTypeOK
  <2> QED  BY <1>2, <2>2, <2>3 DEF ActivationOf, Activation
<1>4. activations \in [1..frame_depth -> Activation] /\ frame_depth \in Nat
  BY <1>1, <1>2, <1>3
<1>5. activations \in Seq(Activation) /\ Len(activations) = frame_depth
  BY <1>4
<1> QED  BY <1>1, <1>2, <1>5

\* The last one is the running function's.
LEMMA TopIs ==
  ASSUME CallIInv, running
  PROVE  /\ activations # <<>> /\ Act!Depth = frame_depth
         /\ activations[frame_depth] =
              [fn |-> fn, pc |-> ip, dst |-> frame_stack[cur].caller_dst,
               regs |-> [r \in Regs(fn) |-> reg_arena[regs + r]]]
<1>1. /\ frame_depth \in 1..FrameCapacity /\ cur = frame_depth
      /\ activations \in Seq(Activation)
      /\ Len(activations) = frame_depth
      /\ activations[frame_depth] = ActivationOf(frame_stack[frame_depth], ip, reg_arena)
  BY ActivationsAre
<1>2. frame_stack[cur].fn = fn /\ frame_stack[cur].regs = regs
  BY RegistersInArena
<1>3. activations # <<>>
  BY <1>1, EmptySeq
<1> QED  BY <1>1, <1>2, <1>3 DEF Act!Depth, ActivationOf

LEMMA NoActivations ==
  ASSUME ~running
  PROVE  activations = <<>>
  BY DEF activations

LEMMA ActivationsAfter ==
  /\ running' => activations' =
       [k \in 1..frame_depth' |->
          ActivationOf(frame_stack'[k], IF k = frame_depth' THEN ip' ELSE frame_stack'[k].pc, reg_arena')]
  /\ ~running' => activations' = <<>>
  BY DEF activations, ActivationOf

-----------------------------------------------------------------------------
(***************************************************************************)
(* The steps                                                               *)
(***************************************************************************)

\* A sequence, or a register file, with another element at d.
Replaced(s, d, e) == [s EXCEPT ![d] = e]

LEMMA OneUpdated ==
  ASSUME NEW S, NEW s \in Seq(S), NEW d \in 1..Len(s), NEW e,
         NEW t, t = [k \in 1..Len(s) |-> t[k]], t[d] = e,
         \A k \in 1..Len(s) : k # d => t[k] = s[k]
  PROVE  t = Replaced(s, d, e)
<1>1. DOMAIN s = 1..Len(s) /\ s = [k \in 1..Len(s) |-> s[k]]
  BY LenProperties
<1> DEFINE u == [s EXCEPT ![d] = e]
<1>2. u = [k \in 1..Len(s) |-> IF k = d THEN e ELSE s[k]]
  BY <1>1
<1> HIDE DEF u
<1>3. u = [k \in 1..Len(s) |-> t[k]]
  BY <1>2
<1> QED  BY <1>3 DEF u, Replaced

\* An activation by its fields.
Fields(f, pc, dst, g) == [fn |-> f, pc |-> pc, dst |-> dst, regs |-> g]

\* A stack whose activation d is at pc, or has v in its register r, or both.
At(s, d, pc)              == [s EXCEPT ![d].pc = pc]
Written(s, d, r, v)       == [s EXCEPT ![d].regs[r] = v]
WrittenAt(s, d, r, v, pc) == [s EXCEPT ![d].regs[r] = v, ![d].pc = pc]

LEMMA FieldsUpdated ==
  ASSUME NEW s \in Seq(Activation), NEW d \in 1..Len(s), NEW r, NEW v, NEW pc
  PROVE  /\ At(s, d, pc) = Replaced(s, d, Fields(s[d].fn, pc, s[d].dst, s[d].regs))
         /\ Written(s, d, r, v)
              = Replaced(s, d, Fields(s[d].fn, s[d].pc, s[d].dst, Replaced(s[d].regs, r, v)))
         /\ WrittenAt(s, d, r, v, pc)
              = Replaced(s, d, Fields(s[d].fn, pc, s[d].dst, Replaced(s[d].regs, r, v)))
<1> DEFINE a == s[d]
           h == Replaced(a.regs, r, v)
           R == UNION {[Regs(f) -> Value] : f \in Fn}
<1>1. a = [fn |-> a.fn, pc |-> a.pc, dst |-> a.dst, regs |-> a.regs]
  <2>1. a \in [fn : Fn, pc : Nat, dst : Nat, regs : R]
    BY ElementOfSeq DEF Activation
  <2> HIDE DEF a, R
  <2> QED  BY <2>1
<1>2. [s EXCEPT ![d].pc = pc] = [s EXCEPT ![d] = [a EXCEPT !.pc = pc]]
  OBVIOUS
<1>3. [s EXCEPT ![d].regs[r] = v] = [s EXCEPT ![d] = [a EXCEPT !.regs = h]]
  BY DEF Replaced
<1>4. [s EXCEPT ![d].regs[r] = v, ![d].pc = pc] = [s EXCEPT ![d] = [[a EXCEPT !.regs = h] EXCEPT !.pc = pc]]
  BY LenProperties DEF Replaced
<1> HIDE DEF a, h
<1>5. [a EXCEPT !.pc = pc] = [fn |-> a.fn, pc |-> pc, dst |-> a.dst, regs |-> a.regs]
  BY <1>1
<1> DEFINE b == [a EXCEPT !.regs = h]
<1>6. b = [fn |-> a.fn, pc |-> a.pc, dst |-> a.dst, regs |-> h]
  BY <1>1
<1> HIDE DEF b
<1>7. [b EXCEPT !.pc = pc] = [fn |-> a.fn, pc |-> pc, dst |-> a.dst, regs |-> h]
  BY <1>6
<1>8. /\ At(s, d, pc) = [s EXCEPT ![d] = [a EXCEPT !.pc = pc]]
      /\ Written(s, d, r, v) = [s EXCEPT ![d] = b]
      /\ WrittenAt(s, d, r, v, pc) = [s EXCEPT ![d] = [b EXCEPT !.pc = pc]]
  BY <1>2, <1>3, <1>4 DEF At, Written, WrittenAt, b
<1> QED  BY <1>5, <1>6, <1>7, <1>8 DEF Fields, Replaced, a, h

\* The abstract module has the same registers and values.
LEMMA SameNames == Act!Value = Value /\ \A f : Act!Regs(f) = Regs(f)
  BY DEF Act!Value, Value, Act!Regs, Regs

LEMMA FreshMember ==
  ASSUME NEW f, NEW args, NEW n, NEW dst,
         NEW x \in [fn : {f}, pc : {0}, dst : {dst}, regs : [Regs(f) -> Value]],
         \A r \in Regs(f) : /\ r < n /\ r < nparams[f] => x.regs[r] = args[r]
                            /\ r >= nparams[f] /\ r < nregs[f] => x.regs[r] = Nil
  PROVE  x \in Act!Fresh(f, args, n, dst)
<1>1. x \in [fn : {f}, pc : {0}, dst : {dst}, regs : [Act!Regs(f) -> Act!Value]]
  BY SameNames
<1>2. \A r \in Act!Regs(f) : /\ r < n /\ r < nparams[f] => x.regs[r] = args[r]
                             /\ r >= nparams[f] /\ r < nregs[f] => x.regs[r] = Nil
  BY SameNames
<1> QED  BY <1>1, <1>2 DEF Act!Fresh

LEMMA ExecuteBegins ==
  ASSUME CallIInv, CallIInv', Execute
  PROVE  Act!Begin
<1> USE CodeAssumption, CapacityAssumption
<1> DEFINE bottom == [fn |-> Main, caller |-> NoFrame, caller_dst |-> 0, pc |-> 0,
                      regs |-> 0, nregs |-> nregs[Main]]
           a == ActivationOf(bottom, 0, reg_arena')
<1>1. /\ ~running /\ running' /\ frame_depth' = 1 /\ ip' = 0
      /\ frame_stack' = [frame_stack EXCEPT ![1] = bottom]
      /\ reg_arena' = Prepared(0, Main, 0, <<>>, 0)
  BY DEF Execute, execute_with_args
<1>2. frame_stack'[1] = bottom
  BY <1>1 DEF CallIInv, CallTypeOK
<1> HIDE DEF bottom
<1>3. activations' = <<a>>
  <2>1. activations' = [k \in 1..1 |-> ActivationOf(frame_stack'[k], IF k = 1 THEN 0 ELSE frame_stack'[k].pc, reg_arena')]
    BY <1>1, ActivationsAfter
  <2>2. activations' = [k \in 1..1 |-> a]
    BY <1>2, <2>1
  <2> HIDE DEF a
  <2> QED  BY <2>2
<1>4. a = [fn |-> Main, pc |-> 0, dst |-> 0, regs |-> [r \in Regs(Main) |-> reg_arena'[0 + r]]]
  BY DEF ActivationOf, bottom
<1>5. \A r \in Regs(Main) : r \in Cells /\ 0 + r = r /\ reg_arena'[r] \in Value
  <2>1. \A r \in Regs(Main) : r \in Cells /\ 0 + r = r
    BY DEF Regs, Cells
  <2> QED  BY <2>1 DEF CallIInv, CallTypeOK
<1>6. ASSUME NEW r \in Regs(Main), r < nregs[Main]
      PROVE  reg_arena'[r] = Nil
  <2>1. r \in Cells /\ r \in 0..(nregs[Main] - 1) /\ r - 0 = r /\ ~(r < 0) /\ r >= 0
    BY <1>5, <1>6 DEF Regs
  <2> QED  BY <1>1, <2>1 DEF Prepared
<1>7. a \in Act!Fresh(Main, Act!NoArgs, 0, 0)
  <2>1. a \in [fn : {Main}, pc : {0}, dst : {0}, regs : [Regs(Main) -> Value]]
    BY <1>4, <1>5
  <2>2. \A r \in Regs(Main) : r \in Nat /\ ~(r < 0)
    BY DEF Regs
  <2>3. \A r \in Regs(Main) : r >= nparams[Main] /\ r < nregs[Main] => a.regs[r] = Nil
    BY <1>4, <1>5, <1>6
  <2> HIDE DEF a
  <2> QED  BY <2>1, <2>2, <2>3 DEF Act!Fresh, Regs, Act!Regs, Value, Act!Value
<1> HIDE DEF a
<1>8. activations = <<>>
  BY <1>1, NoActivations
<1> QED  BY <1>3, <1>7, <1>8 DEF Act!Begin

LEMMA StepComputes ==
  ASSUME CallIInv, running, NEW r \in Regs(fn), NEW v \in Value, Step(r, v)
  PROVE  Act!Compute(r, v)
<1> DEFINE d == frame_depth
<1>1. /\ running' /\ frame_depth' = d /\ frame_stack' = frame_stack /\ ip' = ip + 1
      /\ reg_arena' = [reg_arena EXCEPT ![regs + r] = v]
  BY DEF Step
<1>2. /\ d \in 1..FrameCapacity /\ cur = d
      /\ frame_stack[d].fn = fn /\ frame_stack[d].regs = regs
      /\ regs \in Nat /\ \A i \in Regs(fn) : regs + i \in Cells
      /\ reg_arena \in [Cells -> Value]
  BY RegistersInArena DEF CallIInv, CallTypeOK
<1>3. /\ activations \in Seq(Activation) /\ Len(activations) = d /\ d \in 1..Len(activations)
      /\ \A k \in 1..d : activations[k] =
           ActivationOf(frame_stack[k], IF k = d THEN ip ELSE frame_stack[k].pc, reg_arena)
  BY <1>2, ActivationsAre
<1>4. /\ activations # <<>> /\ Act!Depth = d
      /\ activations[d] = [fn |-> fn, pc |-> ip, dst |-> frame_stack[cur].caller_dst,
                          regs |-> [i \in Regs(fn) |-> reg_arena[regs + i]]]
  BY TopIs
<1> DEFINE top  == activations[d]
           h    == Replaced(top.regs, r, v)
           next == Fields(top.fn, top.pc + 1, top.dst, h)
<1>5. activations' = [k \in 1..d |->
        ActivationOf(frame_stack[k], IF k = d THEN ip + 1 ELSE frame_stack[k].pc, reg_arena')]
  BY <1>1, ActivationsAfter
<1>6. activations'[d] = next
  <2>1. activations'[d] = ActivationOf(frame_stack[d], ip + 1, reg_arena')
    BY <1>2, <1>5
  <2>2. [i \in Regs(fn) |-> reg_arena'[regs + i]]
          = [[i \in Regs(fn) |-> reg_arena[regs + i]] EXCEPT ![r] = v]
    <3>1. \A i \in Regs(fn) : i \in Int /\ (regs + i = regs + r <=> i = r)
      BY <1>2 DEF Regs
    <3> QED  BY <1>1, <1>2, <3>1
  <2>3. ActivationOf(frame_stack[d], ip + 1, reg_arena') =
          [fn |-> fn, pc |-> ip + 1, dst |-> frame_stack[cur].caller_dst,
           regs |-> [i \in Regs(fn) |-> reg_arena'[regs + i]]]
    BY <1>2 DEF ActivationOf
  <2>4. /\ top.regs = [i \in Regs(fn) |-> reg_arena[regs + i]] /\ top.pc = ip
        /\ top.fn = fn /\ top.dst = frame_stack[cur].caller_dst
    BY <1>4
  <2> QED  BY <2>1, <2>2, <2>3, <2>4 DEF Fields, Replaced
<1>7. ASSUME NEW k \in 1..d, k # d
      PROVE  activations'[k] = activations[k]
  <2>1. k < d
    BY <1>2, <1>7
  <2>2. /\ frame_stack[k] \in Frame /\ frame_stack[k].nregs = nregs[frame_stack[k].fn]
        /\ frame_stack[k].nregs > 0
    BY <2>1, CallersHaveRegisters
  <2>3. frame_stack[k].regs + frame_stack[k].nregs <= regs
    BY <1>2, <2>1, WindowsApart
  <2>4. \A c \in Cells : c < regs => reg_arena'[c] = reg_arena[c]
    BY <1>1, <1>2 DEF Cells, Regs
  <2>5. regs <= ArenaSize
    BY CapacityAssumption DEF CallIInv, LocalsCurrent, CallTypeOK
  <2>6. ActivationOf(frame_stack[k], frame_stack[k].pc, reg_arena')
          = ActivationOf(frame_stack[k], frame_stack[k].pc, reg_arena)
    BY <1>2, <2>2, <2>3, <2>4, <2>5, SameRegisters
  <2> QED  BY <1>3, <1>5, <1>7, <2>6
<1> HIDE DEF next
<1>8. activations' = Replaced(activations, d, next)
  <2>1. activations' = [k \in 1..d |-> activations'[k]]
    BY <1>5
  <2> QED  BY <1>3, <1>6, <1>7, <2>1, OneUpdated
<1>9. activations' = WrittenAt(activations, d, r, v, top.pc + 1)
  BY <1>3, <1>8, FieldsUpdated DEF next
<1> QED  BY <1>4, <1>9 DEF Act!Compute, WrittenAt

LEMMA JumpGoes ==
  ASSUME CallIInv, running, NEW t, JUMP(t)
  PROVE  Act!Goto(t)
<1> DEFINE d == frame_depth
<1>1. /\ running' /\ frame_depth' = d /\ frame_stack' = frame_stack /\ ip' = t
      /\ reg_arena' = reg_arena
  BY DEF JUMP
<1>2. /\ d \in 1..FrameCapacity /\ cur = d /\ d \in 1..Len(activations)
      /\ activations \in Seq(Activation) /\ Len(activations) = d
      /\ \A k \in 1..d : activations[k] =
           ActivationOf(frame_stack[k], IF k = d THEN ip ELSE frame_stack[k].pc, reg_arena)
  BY ActivationsAre
<1>3. activations # <<>> /\ Act!Depth = d
  BY TopIs
<1>4. activations' = [k \in 1..d |->
        ActivationOf(frame_stack[k], IF k = d THEN t ELSE frame_stack[k].pc, reg_arena)]
  BY <1>1, ActivationsAfter
<1> DEFINE top  == activations[d]
           next == Fields(top.fn, t, top.dst, top.regs)
<1>5. activations'[d] = next
  <2>1. activations'[d] = ActivationOf(frame_stack[d], t, reg_arena)
    BY <1>2, <1>4
  <2>2. top = ActivationOf(frame_stack[d], ip, reg_arena)
    BY <1>2
  <2> QED  BY <2>1, <2>2 DEF ActivationOf, Fields
<1>6. /\ activations' = [k \in 1..d |-> activations'[k]]
      /\ \A k \in 1..d : k # d => activations'[k] = activations[k]
  BY <1>2, <1>4
<1> HIDE DEF next
<1>7. activations' = Replaced(activations, d, next)
  BY <1>2, <1>5, <1>6, OneUpdated
<1>8. activations' = At(activations, d, t)
  BY <1>2, <1>7, FieldsUpdated DEF next
<1> QED  BY <1>3, <1>8 DEF Act!Goto, At

LEMMA CALLInvokes ==
  ASSUME CallIInv, CallIInv', running,
         NEW ra \in Regs(fn), NEW nargs \in Regs(fn), NEW dst \in Regs(fn),
         CALL(ra, nargs, dst)
  PROVE  /\ activations[frame_depth].regs[ra] \in Fn
         /\ Act!Invoke(ra, nargs, dst)
<1> DEFINE d == frame_depth
           f == reg_arena[regs + ra]
           args == [i \in 0..(nargs - 1) |-> reg_arena[regs + ra + 1 + i]]
           callee == [fn |-> f, caller |-> cur, caller_dst |-> dst, pc |-> 0,
                      regs |-> reg_sp, nregs |-> nregs[f]]
           a == ActivationOf(callee, 0, reg_arena')
<1>0. /\ ra + nargs < nregs[fn] /\ f \in Fn /\ nregs[f] \in Nat
      /\ reg_sp < ArenaSize /\ reg_sp + nregs[f] <= ArenaSize /\ frame_depth < FrameCapacity
  BY CodeAssumption DEF CALL, Fits
<1>1. /\ frame_stack' = [frame_stack EXCEPT ![cur].pc = ip + 1, ![d + 1] = callee]
      /\ frame_depth' = d + 1 /\ running' /\ ip' = 0
      /\ reg_arena' = Prepared(reg_sp, f, nparams[f], args, nargs)
  BY DEF CALL
<1>2. /\ d \in 1..FrameCapacity /\ cur = d /\ fn \in Fn /\ nregs[fn] \in Nat
      /\ frame_stack[d].fn = fn /\ frame_stack[d].regs = regs /\ frame_stack[d].nregs = nregs[fn]
      /\ regs \in Nat /\ reg_sp \in Nat /\ regs + nregs[fn] = reg_sp
      /\ \A i \in Regs(fn) : regs + i \in Cells
      /\ frame_stack \in [1..FrameCapacity -> Frame]
      /\ FrameCapacity \in Nat /\ ArenaSize \in Nat
  BY RegistersInArena, CapacityAssumption DEF CallIInv, CallTypeOK
<1>3. /\ activations \in Seq(Activation) /\ Len(activations) = d /\ d \in 1..Len(activations)
      /\ \A k \in 1..d : activations[k] =
           ActivationOf(frame_stack[k], IF k = d THEN ip ELSE frame_stack[k].pc, reg_arena)
  BY <1>2, ActivationsAre
<1>4. /\ activations # <<>> /\ Act!Depth = d
      /\ activations[d] = [fn |-> fn, pc |-> ip, dst |-> frame_stack[cur].caller_dst,
                          regs |-> [i \in Regs(fn) |-> reg_arena[regs + i]]]
  BY TopIs
<1> HIDE DEF f, args, callee
<1>5. /\ ra \in Nat /\ nargs \in Nat /\ nregs[fn] > 0 /\ nregs[f] \in Nat
      /\ ra + nargs < nregs[fn] /\ d \in Nat /\ d + 1 \in 1..FrameCapacity /\ d # d + 1
      /\ ArenaSize \in Nat /\ reg_sp <= ArenaSize
  <2>1. ra \in Nat /\ nargs \in Nat /\ nregs[f] \in Nat
    BY <1>0, <1>2 DEF Regs
  <2>2. ra + nargs < nregs[fn] /\ nregs[fn] > 0
    BY <1>0, <1>2, <2>1
  <2>3. d \in Nat /\ d + 1 \in 1..FrameCapacity /\ d # d + 1 /\ ArenaSize \in Nat
    BY <1>0, <1>2
  <2>4. reg_sp <= ArenaSize
    BY <1>0, <1>2
  <2> QED  BY <2>1, <2>2, <2>3, <2>4
<1> DEFINE top  == activations[d]
           next == Fields(top.fn, top.pc + 1, top.dst, top.regs)
           called == Replaced(activations, d, next)
<1>6. /\ top.fn = fn /\ top.pc = ip /\ top.dst = frame_stack[cur].caller_dst
      /\ top.regs = [i \in Regs(fn) |-> reg_arena[regs + i]]
  BY <1>4
<1>7. top.regs[ra] = f
  BY <1>6 DEF f
<1>8. args = [i \in 0..(nargs - 1) |-> top.regs[ra + 1 + i]]
  <2> SUFFICES ASSUME NEW i \in 0..(nargs - 1)
               PROVE  reg_arena[regs + ra + 1 + i] = top.regs[ra + 1 + i]
    BY DEF args
  <2>1. i \in Nat /\ i < nargs
    BY <1>5
  <2>2. ra + 1 + i \in Nat /\ ra + 1 + i < nregs[fn] /\ nregs[fn] \in Nat
    BY <1>2, <1>5, <2>1
  <2>3. ra + 1 + i \in Regs(fn)
    BY <2>2 DEF Regs
  <2>4. regs + (ra + 1 + i) = regs + ra + 1 + i
    BY <1>2, <1>5, <2>1
  <2> QED  BY <1>6, <2>3, <2>4
<1>9. a = [fn |-> f, pc |-> 0, dst |-> dst, regs |-> [r \in Regs(f) |-> reg_arena'[reg_sp + r]]]
  BY DEF ActivationOf, callee
<1>10. a \in Act!Fresh(f, args, nargs, dst)
  <2>1. \A r \in Regs(f) : r \in Nat /\ reg_sp + r \in Cells /\ (reg_sp + r) - reg_sp = r
    <3> SUFFICES ASSUME NEW r \in Regs(f)
                 PROVE  r \in Nat /\ reg_sp + r \in Cells /\ (reg_sp + r) - reg_sp = r
      OBVIOUS
    <3>1. r \in Nat /\ (r = 0 \/ r < nregs[f])
      BY <1>5 DEF Regs
    <3>2. reg_sp \in Nat /\ reg_sp < ArenaSize /\ reg_sp + nregs[f] <= ArenaSize
      BY <1>0, <1>2
    <3> QED  BY <1>5, <3>1, <3>2 DEF Cells
  <2>2. \A r \in Regs(f) : reg_arena'[reg_sp + r] \in Value
    BY <2>1 DEF CallIInv, CallTypeOK
  <2>3. a \in [fn : {f}, pc : {0}, dst : {dst}, regs : [Regs(f) -> Value]]
    BY <1>9, <2>2
  <2>4. ASSUME NEW r \in Regs(f)
        PROVE  /\ r < nargs /\ r < nparams[f] => a.regs[r] = args[r]
               /\ r >= nparams[f] /\ r < nregs[f] => a.regs[r] = Nil
    <3>1. a.regs[r] = reg_arena'[reg_sp + r]
      BY <1>9
    <3>2. nparams[f] \in Nat /\ nparams[f] <= nregs[f]
      BY <1>0, CodeAssumption
    <3>3. r < nregs[f] =>
            reg_arena'[reg_sp + r] = IF r < nargs /\ r < nparams[f] THEN args[r]
                                     ELSE IF r >= nparams[f] THEN Nil
                                     ELSE reg_arena[reg_sp + r]
      <4>1. r < nregs[f] => r \in 0..(nregs[f] - 1)
        BY <1>5, <2>1
      <4>2. reg_sp + r \in Cells /\ (reg_sp + r) - reg_sp = r
        BY <2>1
      <4> DEFINE c == reg_sp + r
      <4>3. c \in Cells /\ c - reg_sp = r
        BY <4>2
      <4> HIDE DEF c
      <4>4. reg_arena'[c] = IF r \in 0..(nregs[f] - 1)
                              THEN IF r < nargs /\ r < nparams[f] THEN args[r]
                                   ELSE IF r >= nparams[f] THEN Nil ELSE reg_arena[c]
                              ELSE reg_arena[c]
        BY <1>1, <4>3 DEF Prepared
      <4> QED  BY <4>1, <4>4 DEF c
    <3> HIDE DEF a
    <3>4. r \in Nat
      BY <2>1
    <3> QED  BY <1>5, <3>1, <3>2, <3>3, <3>4
  <2> HIDE DEF a
  <2> QED  BY <2>3, <2>4, FreshMember
<1>11. activations' = [k \in 1..(d + 1) |->
         ActivationOf(frame_stack'[k], IF k = d + 1 THEN 0 ELSE frame_stack'[k].pc, reg_arena')]
  <2>1. frame_depth' = d + 1 /\ running' /\ ip' = 0
    BY <1>1
  <2> QED  BY <2>1, ActivationsAfter
<1>12. frame_stack'[d + 1] = callee
  BY <1>1, <1>2, <1>5
<1>13. ASSUME NEW k \in 1..d
       PROVE  activations'[k] = called[k]
  <2>1. /\ frame_stack[k] \in Frame /\ frame_stack[k].nregs = nregs[frame_stack[k].fn]
        /\ frame_stack[k].nregs > 0
        /\ frame_stack[k].regs + frame_stack[k].nregs <= reg_sp
    <3>1. CASE k = d
      <4>1. frame_stack[d] \in Frame /\ nregs[fn] > 0 /\ regs + nregs[fn] <= reg_sp
        BY <1>2, <1>5
      <4> QED  BY <1>2, <3>1, <4>1
    <3>2. CASE k < d
      <4>1. frame_stack[k].regs + frame_stack[k].nregs <= regs
        BY <1>2, <3>2, WindowsApart
      <4>2. frame_stack[k] \in Frame /\ frame_stack[k].nregs = nregs[frame_stack[k].fn]
            /\ frame_stack[k].nregs > 0
        BY <3>2, CallersHaveRegisters
      <4>3. frame_stack[k].regs \in Nat /\ frame_stack[k].nregs \in Nat
        BY <4>2 DEF Frame
      <4> QED  BY <1>2, <4>1, <4>2, <4>3
    <3> QED  BY <1>2, <3>1, <3>2
  <2>2. \A c \in Cells : c < reg_sp => reg_arena'[c] = reg_arena[c]
    <3> SUFFICES ASSUME NEW c \in Cells, c < reg_sp PROVE reg_arena'[c] = reg_arena[c]
      OBVIOUS
    <3>1. c - reg_sp \notin 0..(nregs[f] - 1)
      BY <1>2 DEF Cells
    <3> QED  BY <1>1, <3>1 DEF Prepared
  <2>4. \A pc : ActivationOf(frame_stack[k], pc, reg_arena') = ActivationOf(frame_stack[k], pc, reg_arena)
    <3> TAKE pc
    <3>1. reg_sp \in Nat
      BY <1>2
    <3> HIDE DEF d
    <3> QED  BY <1>5, <2>1, <2>2, <3>1, SameRegisters
  <2>5. activations'[k] = ActivationOf(frame_stack'[k], frame_stack'[k].pc, reg_arena')
    BY <1>2, <1>11
  <2>6. CASE k = d
    <3>1. frame_stack'[d] = [frame_stack[d] EXCEPT !.pc = ip + 1]
      BY <1>1, <1>2, <1>5
    <3>2. /\ frame_stack'[d].fn = fn /\ frame_stack'[d].regs = regs /\ frame_stack'[d].pc = ip + 1
          /\ frame_stack'[d].caller_dst = frame_stack[d].caller_dst
      BY <1>2, <2>1, <2>6, <3>1 DEF Frame
    <3>3. ActivationOf(frame_stack'[d], ip + 1, reg_arena') = ActivationOf(frame_stack[d], ip + 1, reg_arena')
      BY <1>2, <3>2 DEF ActivationOf
    <3>4. activations'[d] = ActivationOf(frame_stack[d], ip + 1, reg_arena)
      BY <2>4, <2>5, <2>6, <3>2, <3>3
    <3>5. ActivationOf(frame_stack[d], ip + 1, reg_arena) = next
      BY <1>2, <1>6 DEF ActivationOf, Fields
    <3>6. called[d] = next
      BY <1>3, LenProperties DEF Replaced
    <3> QED  BY <2>6, <3>4, <3>5, <3>6
  <2>7. CASE k # d
    <3>1. frame_stack'[k] = frame_stack[k]
      <4>1. k \in 1..FrameCapacity /\ k # cur /\ k # d + 1
        BY <1>2, <1>5, <2>7
      <4> QED  BY <1>1, <1>2, <4>1
    <3>2. called[k] = activations[k]
      BY <1>3, <2>7, LenProperties DEF Replaced
    <3> HIDE DEF called
    <3> QED  BY <1>3, <2>4, <2>5, <2>7, <3>1, <3>2
  <2> QED  BY <2>6, <2>7
<1> HIDE DEF next
<1>14. called = [k \in 1..d |-> called[k]]
  BY <1>3, LenProperties DEF Replaced
<1> HIDE DEF called, a
<1>15. activations'[d + 1] = a
  BY <1>2, <1>11, <1>12 DEF a
<1>16. Append(called, a) = [k \in 1..(d + 1) |-> IF k = d + 1 THEN a ELSE called[k]]
  <2>1. Len(called) = d /\ d \in Nat
    BY <1>2, <1>14
  <2> QED  BY <1>14, <2>1
<1>17. activations' = Append(called, a)
  <2>1. activations' = [k \in 1..(d + 1) |-> activations'[k]]
    BY <1>11
  <2>2. \A k \in 1..(d + 1) : k # d + 1 => k \in 1..d
    BY <1>2
  <2>3. \A k \in 1..(d + 1) : activations'[k] = IF k = d + 1 THEN a ELSE called[k]
    BY <1>13, <1>15, <2>2
  <2>4. Append(called, a) = [k \in 1..(d + 1) |-> activations'[k]]
    BY <1>16, <2>3
  <2> QED  BY <2>1, <2>4, Zenon
<1>18. called = At(activations, d, top.pc + 1)
  BY <1>3, FieldsUpdated DEF called, next
<1> QED  BY <1>0, <1>4, <1>7, <1>8, <1>10, <1>17, <1>18 DEF Act!Invoke, At

LEMMA RETURNYields ==
  ASSUME CallIInv, running, NEW v \in Value, RETURN(v)
  PROVE  Act!Yield(v)
<1> DEFINE d    == frame_depth
           c    == frame_depth - 1
           f    == frame_stack[c]
           dst  == frame_stack[cur].caller_dst
           rest == SubSeq(activations, 1, d - 1)
<1>1. /\ d \in 1..FrameCapacity /\ cur = d /\ frame_stack[cur].caller = c
      /\ frame_stack[d].regs = regs /\ regs \in Nat /\ regs < ArenaSize
      /\ frame_stack \in [1..FrameCapacity -> Frame] /\ ArenaSize \in Nat
      /\ reg_arena \in [Cells -> Value] /\ FrameCapacity \in Nat
  BY RegistersInArena, CapacityAssumption DEF CallIInv, CallTypeOK, LocalsCurrent
<1>2. /\ activations \in Seq(Activation) /\ Len(activations) = d
      /\ \A k \in 1..d : activations[k] =
           ActivationOf(frame_stack[k], IF k = d THEN ip ELSE frame_stack[k].pc, reg_arena)
  BY ActivationsAre
<1>3. activations # <<>> /\ Act!Depth = d /\ activations[d].dst = dst
  BY TopIs
<1>4. /\ rest \in Seq(Activation) /\ Len(rest) = c
      /\ \A k \in 1..c : rest[k] = activations[k]
  <2>1. c \in Nat /\ \A k \in 1..c : k \in 1..Len(activations)
    BY <1>1, <1>2
  <2>2. \A k \in 1..c : activations[k] \in Activation
    BY <1>2, <2>1, ElementOfSeq
  <2> QED  BY <2>1, <2>2, SubSeqProperties
<1>5. CASE c = 0
  <2>1. ~running'
    BY <1>1, <1>5 DEF RETURN, NoFrame
  <2>2. rest = <<>>
    BY <1>4, <1>5, EmptySeq
  <2> QED  BY <1>3, <2>1, <2>2, ActivationsAfter DEF Act!Yield
<1>6. CASE c # 0
  <2>1. /\ frame_depth' = c /\ frame_stack' = frame_stack /\ running' /\ ip' = f.pc
        /\ reg_arena' = [reg_arena EXCEPT ![f.regs + dst] = v]
    BY <1>1, <1>6 DEF RETURN, NoFrame
  <2>2. c \in 1..d /\ c \in Nat /\ c < d /\ c \in 1..FrameCapacity /\ c + 1 = d
    BY <1>1, <1>6
  <2>3. /\ f \in Frame /\ f.nregs = nregs[f.fn] /\ f.nregs > 0 /\ dst < f.nregs
        /\ f.regs + f.nregs = regs
    <3>1. f \in Frame /\ f.nregs = nregs[f.fn] /\ f.nregs > 0
      BY <2>2, CallersHaveRegisters
    <3>2. dst < f.nregs /\ f.regs + f.nregs = frame_stack[c + 1].regs
      <4> HIDE DEF c
      <4> QED  BY <1>1, <2>2 DEF CallIInv, StackDiscipline
    <3> QED  BY <1>1, <2>2, <3>1, <3>2
  <2>4. dst \in Nat /\ f.regs \in Nat /\ f.nregs \in Nat /\ f.regs <= ArenaSize
    <3>1. dst \in Nat /\ f.regs \in Nat /\ f.nregs \in Nat
      BY <1>1, <2>3 DEF Frame
    <3> QED  BY <1>1, <2>3, <3>1
  <2> HIDE DEF c, f, dst, rest
  <2>5. rest # <<>> /\ c \in 1..Len(rest)
    BY <1>4, <2>2, EmptySeq
  <2> DEFINE was  == rest[c]
             next == Fields(was.fn, was.pc, was.dst, Replaced(was.regs, dst, v))
  <2>6. activations' = [k \in 1..c |-> ActivationOf(frame_stack[k], frame_stack[k].pc, reg_arena')]
    <3>1. activations' = [k \in 1..c |-> ActivationOf(frame_stack[k], IF k = c THEN f.pc ELSE frame_stack[k].pc, reg_arena')]
      BY <2>1, ActivationsAfter
    <3> QED  BY <3>1 DEF f
  <2>7. \A k \in 1..c : rest[k] = ActivationOf(frame_stack[k], frame_stack[k].pc, reg_arena)
    BY <1>1, <1>2, <1>4, <2>2
  <2>8. activations'[c] = next
    <3>1. activations'[c] = ActivationOf(f, f.pc, reg_arena')
      BY <2>2, <2>6 DEF f
    <3>2. was = ActivationOf(f, f.pc, reg_arena)
      BY <2>2, <2>7 DEF f
    <3>3. [r \in Regs(f.fn) |-> reg_arena'[f.regs + r]]
            = [[r \in Regs(f.fn) |-> reg_arena[f.regs + r]] EXCEPT ![dst] = v]
      <4>1. ASSUME NEW r \in Regs(f.fn)
            PROVE  r \in Int /\ f.regs + r \in Cells /\ (f.regs + r = f.regs + dst <=> r = dst)
        <5>1. r \in Nat /\ r < f.nregs
          BY <2>3, <2>4 DEF Regs
        <5> QED  BY <1>1, <2>3, <2>4, <5>1 DEF Cells
      <4> QED  BY <1>1, <2>1, <4>1
    <3> QED  BY <3>1, <3>2, <3>3 DEF ActivationOf, Fields, Replaced
  <2>9. ASSUME NEW k \in 1..c, k # c
        PROVE  activations'[k] = rest[k]
    <3>1. k \in 1..d /\ k < d /\ k < c
      BY <1>1, <2>2, <2>9
    <3>2. /\ frame_stack[k] \in Frame /\ frame_stack[k].nregs = nregs[frame_stack[k].fn]
          /\ frame_stack[k].nregs > 0
      BY <3>1, CallersHaveRegisters
    <3>3. frame_stack[k].regs + frame_stack[k].nregs <= f.regs
      BY <2>2, <3>1, WindowsApart DEF f
    <3>4. \A i \in Cells : i < f.regs => reg_arena'[i] = reg_arena[i]
      BY <1>1, <2>1, <2>4 DEF Cells
    <3>5. ActivationOf(frame_stack[k], frame_stack[k].pc, reg_arena')
            = ActivationOf(frame_stack[k], frame_stack[k].pc, reg_arena)
      BY <2>4, <3>2, <3>3, <3>4, SameRegisters
    <3> QED  BY <2>6, <2>7, <3>5
  <2> HIDE DEF next
  <2>10. activations' = Replaced(rest, c, next)
    <3>1. activations' = [k \in 1..c |-> activations'[k]]
      BY <2>6
    <3> QED  BY <1>4, <2>5, <2>8, <2>9, <3>1, OneUpdated
  <2>11. activations' = Written(rest, c, dst, v)
    BY <1>4, <2>5, <2>10, FieldsUpdated DEF next
  <2> QED  BY <1>3, <2>5, <2>11 DEF Act!Yield, Written, rest, c
<1> QED  BY <1>5, <1>6

LEMMA LeaveUnwinds ==
  ASSUME CallIInv, running, ~running'
  PROVE  Act!Unwind
  BY TopIs, ActivationsAfter DEF Act!Unwind

LEMMA NothingRuns ==
  ASSUME UNCHANGED <<frame_stack, frame_depth, reg_arena, running, ip>>
  PROVE  UNCHANGED activations
  BY DEF activations

-----------------------------------------------------------------------------
\* Every step of the machine is a step of the activations, or none.
LEMMA StepMaps ==
  CallIInv /\ CallIInv' /\ [CallNext]_callVars => [Act!ActNext]_activations
<1> SUFFICES ASSUME CallIInv, CallIInv', [CallNext]_callVars
             PROVE  Act!ActNext \/ UNCHANGED activations
  OBVIOUS
<1>1. CASE Execute
  BY <1>1, ExecuteBegins DEF Act!ActNext
<1> DEFINE top == activations[Act!Depth]
<1>2. running => /\ activations # <<>> /\ Act!Depth = frame_depth /\ top.fn = fn
                 /\ \A r \in Regs(fn) : top.regs[r] = reg_arena[regs + r]
  BY TopIs
<1> HIDE DEF top
<1>3. CASE running /\ \E r \in Regs(fn), v \in Value : Step(r, v)
  <2>1. \E r \in Regs(fn), v \in Value : Act!Compute(r, v)
    BY <1>3, StepComputes
  <2> QED  BY <1>2, <1>3, <2>1, SameNames DEF Act!ActNext, top
<1>4. CASE running /\ \E target \in 0..(CodeLen[fn] - 1) : JUMP(target)
  <2>1. \E target \in 0..(CodeLen[fn] - 1) : Act!Goto(target)
    BY <1>4, JumpGoes
  <2> QED  BY <1>2, <1>4, <2>1 DEF Act!ActNext, top
<1>5. CASE running /\ \E ra, nargs, dst \in Regs(fn) : CALL(ra, nargs, dst)
  <2>1. PICK ra \in Regs(fn), nargs \in Regs(fn), dst \in Regs(fn) : CALL(ra, nargs, dst)
    BY <1>5
  <2>2. ra + nargs < nregs[fn]
    BY <2>1 DEF CALL
  <2>3. top.regs[ra] \in Fn /\ Act!Invoke(ra, nargs, dst)
    BY <1>2, <1>5, <2>1, CALLInvokes DEF top
  <2> QED  BY <1>2, <1>5, <2>2, <2>3, SameNames DEF Act!ActNext, top
<1>6. CASE \E ra \in Regs(fn) : CALL_overrun(ra)
  BY <1>6, NothingRuns DEF CALL_overrun, locals
<1>7. CASE running /\ \E r \in Regs(fn) : RETURN(reg_arena[regs + r])
  <2>1. PICK r \in Regs(fn) : RETURN(reg_arena[regs + r])
    BY <1>7
  <2>2. reg_arena[regs + r] \in Value
    BY <1>7, RegistersInArena DEF CallIInv, CallTypeOK
  <2>3. Act!Yield(top.regs[r])
    BY <1>2, <1>7, <2>1, <2>2, RETURNYields
  <2> QED  BY <1>2, <1>7, <2>3, SameNames DEF Act!ActNext, top
<1>8. CASE running /\ RETURN(Nil)
  <2>1. Act!Yield(Nil)
    BY <1>8, RETURNYields, DataAssumption DEF Value
  <2> QED  BY <1>2, <1>8, <2>1 DEF Act!ActNext
<1>9. CASE running /\ (HALT \/ raise_error)
  BY <1>9, LeaveUnwinds DEF HALT, raise_error, Act!ActNext
<1>10. CASE UNCHANGED callVars
  BY <1>10, NothingRuns DEF callVars, locals
<1> QED  BY <1>1, <1>3, <1>4, <1>5, <1>6, <1>7, <1>8, <1>9, <1>10
         DEF CallNext, Instruction

\* As long as nothing runs past the end of an array, however deep the program
\* calls: an instruction, a call and a return do to the frames and the shared
\* arena what they would do to activations with registers of their own.
THEOREM CallsAreActivations == CallSpec => ImplementsActivations
<1>1. CallInit => Act!ActInit
  BY NoActivations DEF CallInit, Act!ActInit
<1> QED  BY CallInitial, CallStep, StepMaps, <1>1, PTL
         DEF CallSpec, ImplementsActivations, Act!ActSpec
=============================================================================
