------------------------- MODULE DispatchLoopProofs -------------------------
(***************************************************************************)
(* Proofs about the dispatch loop: code that fits its frame, in functions  *)
(* that make closures of such functions only, is executed without a step   *)
(* out of a register file, out of code, or to a value without a type,      *)
(* whatever it computes.                                                   *)
(***************************************************************************)
EXTENDS DispatchLoop, LeastNumber, SequenceTheorems

\* A set of functions that can be executed: all of them fit and have ids of
\* their own, and a function that one makes a closure of is one of them.
Closed(Fns) ==
  \A f \in Fns :
    /\ Fits(f)
    /\ \A g \in Fns : f.id = g.id => f = g
    /\ \A i \in DOMAIN f.code : f.code[i].op = "MAKE_CLOSURE" => f.code[i].k \in Fns

\* A value with a type, and with a function of the set if it is a closure.
Sound(v, envs, Fns) == Typed(v, envs) /\ (v.tag = "closure" => v.fn \in Fns)

IsSeq(s) == s \in Seq({s[i] : i \in DOMAIN s})

\* One activation.
IsFrame(f) == f = [fn |-> f.fn, env |-> f.env, dst |-> f.dst, pc |-> f.pc, regs |-> f.regs]

FrameOK(f, envs, Fns) ==
  /\ IsFrame(f)
  /\ f.fn \in Fns
  /\ f.pc \in DOMAIN f.fn.code
  /\ f.env \in envs
  /\ DOMAIN f.regs = Registers(f.fn)
  /\ \A r \in Registers(f.fn) : Sound(f.regs[r], envs, Fns)

FramesOK(fs, envs, Fns) ==
  /\ IsSeq(fs)
  /\ Len(fs) >= 1
  /\ \A k \in 1..Len(fs) :
       FrameOK(fs[k], envs, Fns) /\ (k > 1 => fs[k].dst \in Registers(fs[k - 1].fn))

\* Environments ps with the bindings bs.
EnvsOK(ps, bs, Fns) ==
  /\ IsSeq(ps) /\ IsSeq(bs)
  /\ Len(ps) = Len(bs) /\ Len(ps) >= 3 /\ Len(ps) <= MaxEnvs
  /\ \A e \in 1..Len(ps) : ps[e] \in 0..(e - 1)
  /\ \A e \in 1..Len(bs) : \A x \in DOMAIN bs[e] : Sound(bs[e][x], 1..Len(ps), Fns)

\* Registers that activations have left.
LeftOK(rs, envs, Fns) == IsSeq(rs) /\ \A i \in 1..Len(rs) : Sound(rs[i], envs, Fns)

\* What instructions remember: environments that exist, with names that are
\* bound there, the instruction's own one of them.
CachesOK(Fns) ==
  /\ \A at \in DOMAIN ic :
       ic[at].env \in 1..Len(parent) /\ ic[at].names \subseteq DOMAIN bound[ic[at].env]
  /\ \A f \in Fns : \A pc \in DOMAIN f.code :
       <<f.id, pc>> \in DOMAIN ic => f.code[pc].k \in ic[<<f.id, pc>>].names

\* The inductive invariant, with CachesOK: the type invariant, and that every
\* function there is, in an activation or in a closure, is one of the set.
LoopIInv(Fns) ==
  /\ status \in {"running", "done", "error", "cut"}
  /\ EnvsOK(parent, bound, Fns)
  /\ FramesOK(frames, 1..Len(parent), Fns)
  /\ LeftOK(left, 1..Len(parent), Fns)

-----------------------------------------------------------------------------
(***************************************************************************)
(* Sequences                                                               *)
(***************************************************************************)

LEMMA SeqFacts ==
  ASSUME NEW s, IsSeq(s)
  PROVE  Len(s) \in Nat /\ DOMAIN s = 1..Len(s)
<1> DEFINE S == {s[i] : i \in DOMAIN s}
<1>1. s \in Seq(S)
  BY DEF IsSeq
<1> HIDE DEF S
<1> QED  BY <1>1

LEMMA SeqIs ==
  ASSUME NEW S, NEW s \in Seq(S)
  PROVE  IsSeq(s)
<1>1. Len(s) \in Nat /\ DOMAIN s = 1..Len(s) /\ s = [i \in 1..Len(s) |-> s[i]]
  OBVIOUS
<1> DEFINE T == {s[i] : i \in DOMAIN s}
<1>2. s \in [1..Len(s) -> T]
  <2>1. \A i \in 1..Len(s) : s[i] \in T
    BY <1>1
  <2> HIDE DEF T
  <2> QED  BY <1>1, <2>1
<1>3. s \in Seq(T)
  BY <1>1, <1>2, SeqDef
<1> QED  BY <1>3 DEF IsSeq

LEMMA Replaced ==
  ASSUME NEW s, IsSeq(s), NEW i \in 1..Len(s), NEW v
  PROVE  LET t == [s EXCEPT ![i] = v]
         IN  /\ IsSeq(t) /\ Len(t) = Len(s) /\ t[i] = v
             /\ \A k \in 1..Len(s) : k # i => t[k] = s[k]
<1> DEFINE S == {s[k] : k \in DOMAIN s} \cup {v}
           t == [s EXCEPT ![i] = v]
<1>1. s \in Seq({s[k] : k \in DOMAIN s})
  BY DEF IsSeq
<1>2. s \in Seq(S) /\ v \in S
  <2> DEFINE R == {s[k] : k \in DOMAIN s}
  <2>1. R \subseteq S /\ v \in S
    OBVIOUS
  <2>2. s \in Seq(R)
    BY <1>1
  <2> HIDE DEF R, S
  <2> QED  BY <2>1, <2>2
<1> HIDE DEF S
<1>3. t \in Seq(S) /\ Len(t) = Len(s) /\ t[i] = v /\ \A k \in 1..Len(s) : k # i => t[k] = s[k]
  BY <1>2, ExceptSeq
<1> QED  BY <1>3, SeqIs

LEMMA Pushed ==
  ASSUME NEW s, IsSeq(s), NEW v
  PROVE  LET t == Append(s, v)
         IN  /\ IsSeq(t) /\ Len(t) = Len(s) + 1 /\ t[Len(s) + 1] = v
             /\ \A k \in 1..Len(s) : t[k] = s[k]
<1> DEFINE R == {s[k] : k \in DOMAIN s}
           S == R \cup {v}
           t == Append(s, v)
<1>1. s \in Seq(R)
  BY DEF IsSeq
<1>2. R \subseteq S /\ v \in S
  OBVIOUS
<1> HIDE DEF R, S
<1>3. s \in Seq(S)
  BY <1>1, <1>2
<1>4. t \in Seq(S) /\ Len(t) = Len(s) + 1 /\ t[Len(s) + 1] = v /\ \A k \in 1..Len(s) : t[k] = s[k]
  BY <1>2, <1>3, AppendProperties
<1> QED  BY <1>4, SeqIs

LEMMA Popped ==
  ASSUME NEW s, IsSeq(s), Len(s) >= 1
  PROVE  LET t == SubSeq(s, 1, Len(s) - 1)
         IN  IsSeq(t) /\ Len(t) = Len(s) - 1 /\ \A k \in 1..(Len(s) - 1) : t[k] = s[k]
<1> DEFINE R == {s[k] : k \in DOMAIN s}
           t == SubSeq(s, 1, Len(s) - 1)
<1>1. s \in Seq(R)
  BY DEF IsSeq
<1> HIDE DEF R
<1>2. t \in Seq(R) /\ Len(t) = Len(s) - 1 /\ \A k \in 1..(Len(s) - 1) : t[k] = s[k]
  <2>1. Len(s) \in Nat /\ \A i \in 1..(Len(s) - 1) : s[i] \in R
    BY <1>1
  <2> DEFINE n == Len(s) - 1
  <2>2. n \in Nat
    BY <2>1
  <2> HIDE DEF n
  <2>3. LET u == SubSeq(s, 1, n)
        IN  /\ u \in Seq(R) /\ Len(u) = IF 1 <= n THEN n - 1 + 1 ELSE 0
            /\ \A i \in 1..(n - 1 + 1) : u[i] = s[1 + i - 1]
    BY <2>1, <2>2, SubSeqProperties DEF n
  <2>4. LET u == SubSeq(s, 1, n) IN u \in Seq(R) /\ Len(u) = n /\ \A i \in 1..n : u[i] = s[i]
    BY <2>2, <2>3
  <2> QED  BY <2>4 DEF n
<1> QED  BY <1>2, SeqIs

\* What follows the first n elements of a sequence is of its elements.
LEMMA Dropped ==
  ASSUME NEW s, IsSeq(s), NEW n \in Nat
  PROVE  LET t == SubSeq(s, n + 1, Len(s))
         IN  IsSeq(t) /\ \A k \in 1..Len(t) : \E i \in 1..Len(s) : t[k] = s[i]
<1> DEFINE R == {s[k] : k \in DOMAIN s}
           t == SubSeq(s, n + 1, Len(s))
<1>1. s \in Seq(R) /\ Len(s) \in Nat /\ DOMAIN s = 1..Len(s)
  BY SeqFacts DEF IsSeq
<1>2. \A i \in (n + 1)..Len(s) : s[i] \in R
  BY <1>1
<1> HIDE DEF R
<1>3. t \in Seq(R)
  <2>1. n + 1 \in Int /\ Len(s) \in Int
    BY <1>1
  <2> HIDE DEF t
  <2> QED  BY <1>2, <2>1, SubSeqProperties DEF t
<1> HIDE DEF t
<1>4. \A k \in 1..Len(t) : t[k] \in R
  BY <1>3
<1>5. \A v \in R : \E i \in 1..Len(s) : v = s[i]
  BY <1>1 DEF R
<1>6. IsSeq(t)
  BY <1>3, SeqIs
<1> QED  BY <1>4, <1>5, <1>6 DEF t

\* A sequence before another.
LEMMA Joined ==
  ASSUME NEW a, NEW b, IsSeq(a), IsSeq(b)
  PROVE  LET t == a \o b
         IN  /\ IsSeq(t)
             /\ \A k \in 1..Len(t) : \/ \E i \in 1..Len(a) : t[k] = a[i]
                                    \/ \E i \in 1..Len(b) : t[k] = b[i]
<1> DEFINE R == {a[k] : k \in DOMAIN a}
           S == {b[k] : k \in DOMAIN b}
           U == R \cup S
           t == a \o b
<1>1. a \in Seq(R) /\ DOMAIN a = 1..Len(a) /\ b \in Seq(S) /\ DOMAIN b = 1..Len(b)
  BY SeqFacts DEF IsSeq
<1>2. /\ \A v \in R : \E i \in 1..Len(a) : v = a[i]
      /\ \A v \in S : \E i \in 1..Len(b) : v = b[i]
  BY <1>1
<1>3. R \subseteq U /\ S \subseteq U /\ \A v \in U : v \in R \/ v \in S
  OBVIOUS
<1> HIDE DEF R, S, U
<1>4. a \in Seq(U) /\ b \in Seq(U)
  BY <1>1, <1>3
<1>5. t \in Seq(U)
  BY <1>4, ConcatProperties
<1> HIDE DEF t
<1>6. \A k \in 1..Len(t) : t[k] \in U
  BY <1>5
<1>7. IsSeq(t)
  BY <1>5, SeqIs
<1> QED  BY <1>2, <1>3, <1>6, <1>7 DEF t

-----------------------------------------------------------------------------
(***************************************************************************)
(* What handlers compute has a type                                        *)
(***************************************************************************)

\* A value that is not a function is sound wherever it is.
LEMMA DataSound ==
  ASSUME NEW v, NEW envs, NEW Fns,
         \/ v.tag \in {"nil", "num", "real", "lgl", "str"}
         \/ v.tag = "vec" /\ v.vtype \in {"num", "real", "str"}
  PROVE  Sound(v, envs, Fns)
  BY DEF Sound, Typed

\* Operators raise an error or compute numbers, logicals and vectors of them.
LEMMA OperateSound ==
  ASSUME NEW op \in Binary, NEW a, NEW b, NEW envs, NEW Fns, Operate(op, a, b) # Raised
  PROVE  Sound(Operate(op, a, b), envs, Fns)
<1> DEFINE Data(v) == \/ v.tag \in {"num", "real", "lgl"}
                      \/ v.tag = "vec" /\ v.vtype \in {"num", "real"}
<1>1. Plus(a, b) = Raised \/ Data(Plus(a, b))
  BY DEF Plus, Num, OfDoubles, Dbl, AddVectors, Vec
<1>2. Data(Minus(a, b)) /\ Data(Times(a, b))
  BY DEF Minus, Times, Num, OfDoubles, Dbl
<1>3. Data(Seq2(a, b))
  BY DEF Seq2, Range2, Vec
<1>4. Data(Logical(op, a, b))
  BY DEF Logical, Bool, Truth
<1>5. Data(Compare(op, a, b))
  BY DEF Compare, Bool, Truth
<1>6. Operate(op, a, b) \in {Plus(a, b), Minus(a, b), Times(a, b), Seq2(a, b),
                             Logical(op, a, b), Compare(op, a, b)}
  BY DEF Operate, Binary
<1>7. Data(Operate(op, a, b))
  <2> HIDE DEF Data
  <2> QED  BY <1>1, <1>2, <1>3, <1>4, <1>5, <1>6
<1> QED  BY <1>7, DataSound

\* Builtins compute values that are not functions.
LEMMA ImplSound ==
  ASSUME NEW f \in DOMAIN register_primitives, NEW args, NEW envs, NEW Fns
  PROVE  Sound(Impl(f, args), envs, Fns)
<1> DEFINE Data(v) == \/ v.tag \in {"nil", "num", "real", "lgl"}
                      \/ v.tag = "vec" /\ v.vtype \in {"num", "real", "str"}
<1>1. Data(length_impl(args)) /\ Data(as_integer_impl(args)) /\ Data(as_real_impl(args))
  BY DEF length_impl, as_integer_impl, as_real_impl, Num, Dbl
<1>2. Data(sum_impl(args))
  BY DEF sum_impl, Num, Dbl
<1>3. Data(c_impl(args))
  <2>1. Common(args) \in {"num", "real", "str"}
    BY DEF Common
  <2> QED  BY <2>1 DEF c_impl, Vec
<1>4. Data(seq_impl(args)) /\ Data(seq_len_impl(args)) /\ Data(seq_along_impl(args))
  BY DEF seq_impl, seq_len_impl, seq_along_impl, Range2, Vec, Nil
<1>5. Data(mean_impl(args)) /\ Data(min_impl(args)) /\ Data(max_impl(args))
  BY DEF mean_impl, min_impl, max_impl, Dbl
<1>6. Data(is_na_impl(args)) /\ Data(Nil)
  BY DEF is_na_impl, Truth, Bool, Nil
<1>7. Impl(f, args) \in
        {length_impl(args), sum_impl(args), c_impl(args), seq_impl(args), seq_len_impl(args),
         seq_along_impl(args), mean_impl(args), min_impl(args), max_impl(args), is_na_impl(args),
         as_real_impl(args), as_integer_impl(args), Nil}
  BY DEF Impl, register_primitives
<1>8. Data(Impl(f, args))
  <2> HIDE DEF Data
  <2> QED  BY <1>1, <1>2, <1>3, <1>4, <1>5, <1>6, <1>7
<1> QED  BY <1>8, DataSound

-----------------------------------------------------------------------------
(***************************************************************************)
(* Frames                                                                  *)
(***************************************************************************)

\* More environments make no frame wrong.
LEMMA MoreEnvs ==
  ASSUME NEW fs, NEW envs, NEW more, NEW Fns, FramesOK(fs, envs, Fns), envs \subseteq more
  PROVE  FramesOK(fs, more, Fns)
  BY DEF FramesOK, FrameOK, Sound, Typed

LEMMA MoreEnvsLeft ==
  ASSUME NEW rs, NEW envs, NEW more, NEW Fns, LeftOK(rs, envs, Fns), envs \subseteq more
  PROVE  LeftOK(rs, more, Fns)
  BY DEF LeftOK, Sound, Typed

\* A frame may get a value in a register and another instruction.
LEMMA FrameAt ==
  ASSUME NEW f, NEW envs, NEW Fns, FrameOK(f, envs, Fns), NEW pc \in DOMAIN f.fn.code
  PROVE  LET g == [f EXCEPT !.pc = pc]
         IN  FrameOK(g, envs, Fns) /\ g.fn = f.fn /\ g.dst = f.dst
<1> DEFINE g == [f EXCEPT !.pc = pc]
<1>1. g = [fn |-> f.fn, env |-> f.env, dst |-> f.dst, pc |-> pc, regs |-> f.regs]
  BY DEF FrameOK, IsFrame
<1>2. FrameOK(g, envs, Fns) /\ g.fn = f.fn /\ g.dst = f.dst
  <2> HIDE DEF g
  <2>1. g.fn = f.fn /\ g.env = f.env /\ g.dst = f.dst /\ g.pc = pc /\ g.regs = f.regs /\ IsFrame(g)
    BY <1>1 DEF IsFrame
  <2> QED  BY <2>1 DEF FrameOK
<1> QED  BY <1>2

LEMMA FrameWith ==
  ASSUME NEW f, NEW envs, NEW Fns, FrameOK(f, envs, Fns),
         NEW r \in Registers(f.fn), NEW v, Sound(v, envs, Fns)
  PROVE  LET g == [f EXCEPT !.regs = [@ EXCEPT ![r] = v]]
         IN  FrameOK(g, envs, Fns) /\ g.fn = f.fn /\ g.dst = f.dst
<1> DEFINE g == [f EXCEPT !.regs = [@ EXCEPT ![r] = v]]
           regs == [f.regs EXCEPT ![r] = v]
<1>1. g = [fn |-> f.fn, env |-> f.env, dst |-> f.dst, pc |-> f.pc, regs |-> regs]
  BY DEF FrameOK, IsFrame
<1>2. DOMAIN regs = Registers(f.fn) /\ \A q \in Registers(f.fn) : Sound(regs[q], envs, Fns)
  BY DEF FrameOK
<1>3. FrameOK(g, envs, Fns) /\ g.fn = f.fn /\ g.dst = f.dst
  <2> HIDE DEF g, regs
  <2>1. g.fn = f.fn /\ g.env = f.env /\ g.dst = f.dst /\ g.pc = f.pc /\ g.regs = regs /\ IsFrame(g)
    BY <1>1 DEF IsFrame
  <2> QED  BY <1>2, <2>1 DEF FrameOK
<1> QED  BY <1>3

LEMMA FrameReplaced ==
  ASSUME NEW fs, NEW envs, NEW Fns, FramesOK(fs, envs, Fns),
         NEW i \in 1..Len(fs), NEW f, FrameOK(f, envs, Fns), f.fn = fs[i].fn, f.dst = fs[i].dst
  PROVE  FramesOK([fs EXCEPT ![i] = f], envs, Fns)
<1> DEFINE t == [fs EXCEPT ![i] = f]
<1>1. IsSeq(t) /\ Len(t) = Len(fs) /\ t[i] = f /\ \A k \in 1..Len(fs) : k # i => t[k] = fs[k]
  BY Replaced DEF FramesOK
<1>2. Len(fs) \in Nat
  BY SeqFacts DEF FramesOK
<1>3. \A k \in 1..Len(fs) : FrameOK(t[k], envs, Fns) /\ t[k].fn = fs[k].fn /\ t[k].dst = fs[k].dst
  <2> HIDE DEF t
  <2> QED  BY <1>1 DEF FramesOK
<1>4. FramesOK(t, envs, Fns)
  <2> HIDE DEF t
  <2>1. \A k \in 1..Len(fs) : k > 1 => t[k].dst \in Registers(t[k - 1].fn)
    BY <1>2, <1>3 DEF FramesOK
  <2> QED  BY <1>1, <1>3, <2>1 DEF FramesOK
<1> QED  BY <1>4

\* The instruction that executes, and what it names.
LEMMA Current ==
  ASSUME NEW Fns, Closed(Fns), LoopIInv(Fns)
  PROVE  /\ Len(frames) \in Nat /\ Len(frames) >= 1
         /\ FrameOK(top, 1..Len(parent), Fns) /\ Fits(top.fn)
         /\ {I.rdest, I.ra, I.rb} \subseteq Registers(top.fn)
         /\ \A r \in Registers(top.fn) : Sound(top.regs[r], 1..Len(parent), Fns)
         /\ I.op # "HALT" => top.pc + 1 \in DOMAIN top.fn.code
         /\ I.op \in {"JUMP", "JUMP_IF_FALSE"} => I.k \in DOMAIN top.fn.code
         /\ I.op = "CALL" => I.k \in Nat /\ I.ra + I.k < top.fn.nregs
         /\ I.op = "MAKE_CLOSURE" => I.k \in Fns
<1>1. Len(frames) \in Nat /\ Len(frames) >= 1 /\ FrameOK(top, 1..Len(parent), Fns)
  BY SeqFacts DEF LoopIInv, FramesOK, top
<1>2. top.fn \in Fns /\ top.pc \in DOMAIN top.fn.code /\ Fits(top.fn)
  BY <1>1 DEF FrameOK, Closed
<1>3. I.op # "HALT" => top.pc + 1 \in DOMAIN top.fn.code
  BY <1>2 DEF Fits, I
<1>4. I.op = "MAKE_CLOSURE" => I.k \in Fns
  BY <1>2 DEF Closed, I
<1> QED  BY <1>1, <1>2, <1>3, <1>4 DEF Fits, I, FrameOK

\* A handler that only moves on.
LEMMA AtKeeps ==
  ASSUME NEW Fns, Closed(Fns), LoopIInv(Fns), NEW pc \in DOMAIN top.fn.code
  PROVE  FramesOK(At(pc), 1..Len(parent), Fns)
<1> DEFINE g == [top EXCEPT !.pc = pc]
<1>1. Len(frames) \in 1..Len(frames) /\ FrameOK(top, 1..Len(parent), Fns)
  BY Current
<1>2. FrameOK(g, 1..Len(parent), Fns) /\ g.fn = top.fn /\ g.dst = top.dst
  BY <1>1, FrameAt
<1>3. At(pc) = [frames EXCEPT ![Len(frames)] = g]
  BY DEF At, top
<1>4. FramesOK([frames EXCEPT ![Len(frames)] = g], 1..Len(parent), Fns)
  <2> HIDE DEF g
  <2> QED  BY <1>1, <1>2, FrameReplaced DEF LoopIInv, top
<1> QED  BY <1>3, <1>4

\* A handler that leaves a value in a register.
LEMMA WithKeeps ==
  ASSUME NEW Fns, Closed(Fns), LoopIInv(Fns), NEW r \in Registers(top.fn),
         NEW pc \in DOMAIN top.fn.code, NEW v, Sound(v, 1..Len(parent), Fns)
  PROVE  FramesOK(With(r, v, pc), 1..Len(parent), Fns)
<1> DEFINE f == [top EXCEPT !.regs = [@ EXCEPT ![r] = v]]
           g == [f EXCEPT !.pc = pc]
<1>1. Len(frames) \in 1..Len(frames) /\ FrameOK(top, 1..Len(parent), Fns)
  BY Current
<1>2. FrameOK(f, 1..Len(parent), Fns) /\ f.fn = top.fn /\ f.dst = top.dst
  BY <1>1, FrameWith
<1>3. With(r, v, pc) = [frames EXCEPT ![Len(frames)] = g]
  <2>1. g = [top EXCEPT !.regs = [top.regs EXCEPT ![r] = v], !.pc = pc]
    BY <1>1 DEF FrameOK, IsFrame
  <2> QED  BY <2>1 DEF With
<1>4. FrameOK(g, 1..Len(parent), Fns) /\ g.fn = top.fn /\ g.dst = top.dst
  <2> HIDE DEF f
  <2> QED  BY <1>2, FrameAt
<1>5. FramesOK([frames EXCEPT ![Len(frames)] = g], 1..Len(parent), Fns)
  <2> HIDE DEF g
  <2> QED  BY <1>1, <1>4, FrameReplaced DEF LoopIInv, top
<1> QED  BY <1>3, <1>5

LEMMA PutKeeps ==
  ASSUME NEW Fns, Closed(Fns), LoopIInv(Fns), NEW v, Sound(v, 1..Len(parent), Fns),
         I.op # "HALT", Put(v)
  PROVE  LoopIInv(Fns)'
<1>1. FramesOK(With(I.rdest, v, top.pc + 1), 1..Len(parent), Fns)
  BY Current, WithKeeps
<1> QED  BY <1>1 DEF Put, LoopIInv

-----------------------------------------------------------------------------
(***************************************************************************)
(* Every handler keeps the invariant                                       *)
(***************************************************************************)

\* A stop where it is: an error, an end, or the bound.
LEMMA StopKeeps ==
  ASSUME NEW Fns, LoopIInv(Fns), status' \in {"done", "error", "cut"},
         UNCHANGED <<frames, left, parent, bound>>
  PROVE  LoopIInv(Fns)'
  BY DEF LoopIInv

LEMMA ComputeKeeps ==
  ASSUME NEW Fns, Closed(Fns), LoopIInv(Fns),
         LOAD \/ Arith \/ NEG \/ NOT \/ LENGTH \/ INDEX \/ MAKE_CLOSURE
  PROVE  LoopIInv(Fns)'
<1> DEFINE envs == 1..Len(parent)
<1>1. /\ \A r \in Registers(top.fn) : Sound(top.regs[r], envs, Fns)
      /\ I.ra \in Registers(top.fn) /\ I.rdest \in Registers(top.fn) /\ top.env \in envs
      /\ I.op = "MAKE_CLOSURE" => I.k \in Fns
  BY Current DEF FrameOK
<1> HIDE DEF envs
<1>2. \A v : Sound(v, envs, Fns) /\ I.op # "HALT" /\ Put(v) => LoopIInv(Fns)'
  BY PutKeeps DEF envs
<1>3. CASE LOAD
  <2>1. /\ Sound(Nil, envs, Fns) /\ \A n : Sound(Num(n), envs, Fns) /\ Sound(Dbl(n), envs, Fns)
        /\ \A n : Sound(Bool(n), envs, Fns) /\ Sound(Text(n), envs, Fns)
    BY DataSound DEF Nil, Num, Dbl, Bool, Text
  <2> QED  BY <1>1, <1>2, <1>3, <2>1 DEF LOAD
<1>4. CASE Arith
  <2> DEFINE v == Operate(I.op, top.regs[I.ra], top.regs[I.rb])
  <2>1. I.op \in Binary /\ I.op # "HALT"
    BY <1>4 DEF Arith, Binary
  <2>2. CASE v = Raised
    BY <1>4, <2>2, StopKeeps DEF Arith, raise_error
  <2>3. CASE v # Raised
    <3>1. Sound(v, envs, Fns)
      BY <2>1, <2>3, OperateSound
    <3>2. Put(v)
      BY <1>4, <2>3 DEF Arith
    <3> HIDE DEF v
    <3> QED  BY <1>2, <2>1, <3>1, <3>2
  <2> QED  BY <2>2, <2>3
<1>5. CASE NEG
  <2> DEFINE n == Negated(top.regs[I.ra])
             v == IF n = Raised THEN top.regs[I.rdest] ELSE n
  <2>1. n = Raised \/ Sound(n, envs, Fns)
    BY DataSound DEF Negated, Num, Dbl
  <2>2. Sound(v, envs, Fns)
    <3> HIDE DEF n
    <3> QED  BY <1>1, <2>1
  <2>3. I.op = "NEG" /\ Put(v)
    BY <1>5 DEF NEG
  <2> HIDE DEF v
  <2> QED  BY <1>2, <2>2, <2>3
<1>6. CASE NOT
  <2>1. Sound(Not(top.regs[I.ra]), envs, Fns)
    BY DataSound DEF Not, Bool, Truth
  <2> QED  BY <1>2, <1>6, <2>1 DEF NOT
<1>7. CASE LENGTH
  <2>1. \A n : Sound(Num(n), envs, Fns)
    BY DataSound DEF Num
  <2> QED  BY <1>2, <1>7, <2>1 DEF LENGTH
<1>8. CASE INDEX
  <2> DEFINE v == Element(top.regs[I.ra], top.regs[I.rb])
  <2>1. Sound(Nil, envs, Fns)
    BY DataSound DEF Nil
  <2>2. Sound(v, envs, Fns)
    <3>1. Sound(top.regs[I.ra], envs, Fns)
      BY <1>1
    <3>2. v.tag \in {"nil", "num", "real", "str"}
      BY <3>1 DEF Element, IsVec, Sound, Typed, Nil
    <3> HIDE DEF v
    <3> QED  BY <3>2, DataSound
  <2> HIDE DEF v
  <2> QED  BY <1>2, <1>8, <2>1, <2>2 DEF INDEX, v
<1>9. CASE MAKE_CLOSURE
  <2>1. I.op = "MAKE_CLOSURE" /\ Put(Closure(I.k, top.env))
    BY <1>9 DEF MAKE_CLOSURE
  <2>2. Sound(Closure(I.k, top.env), envs, Fns)
    BY <1>1, <2>1 DEF Sound, Typed, Closure
  <2> QED  BY <1>2, <2>1, <2>2
<1> QED  BY <1>3, <1>4, <1>5, <1>6, <1>7, <1>8, <1>9

LEMMA MoveKeeps ==
  ASSUME NEW Fns, Closed(Fns), LoopIInv(Fns), Nothing \/ JUMP
  PROVE  LoopIInv(Fns)'
<1>1. PICK pc \in DOMAIN top.fn.code : frames' = At(pc) /\ UNCHANGED <<left, parent, bound, status>>
  <2>1. /\ I.op # "HALT" => top.pc + 1 \in DOMAIN top.fn.code
        /\ I.op \in {"JUMP", "JUMP_IF_FALSE"} => I.k \in DOMAIN top.fn.code
    BY Current
  <2>2. CASE Nothing
    BY <2>1, <2>2 DEF Nothing
  <2>3. CASE JUMP
    BY <2>1, <2>3 DEF JUMP
  <2> QED  BY <2>2, <2>3
<1>2. FramesOK(At(pc), 1..Len(parent), Fns)
  BY AtKeeps
<1> QED  BY <1>1, <1>2 DEF LoopIInv

\* A name that is found is bound where it is found, to a sound value.
LEMMA FoundBound ==
  ASSUME NEW Fns, LoopIInv(Fns), NEW e, NEW x, Found(e, x) # Store!NoEnv
  PROVE  /\ Found(e, x) \in 1..Len(parent) /\ x \in DOMAIN bound[Found(e, x)]
         /\ Sound(bound[Found(e, x)][x], 1..Len(parent), Fns)
<1>1. Found(e, x) \in {d \in DOMAIN parent : x \in DOMAIN bound[d]}
  BY DEF Found
<1>2. DOMAIN parent = 1..Len(parent) /\ Len(parent) = Len(bound)
  BY SeqFacts DEF LoopIInv, EnvsOK
<1> QED  BY <1>1, <1>2 DEF LoopIInv, EnvsOK

\* A hit reads the name of its instruction, bound where it remembers it.
LEMMA HitBound ==
  ASSUME NEW Fns, Closed(Fns), LoopIInv(Fns), CachesOK(Fns), Hit
  PROVE  Sound(bound[ic[site].env][I.k], 1..Len(parent), Fns)
<1> DEFINE e == ic[site].env
<1>1. top.fn \in Fns /\ top.pc \in DOMAIN top.fn.code
  BY Current DEF FrameOK
<1>2. site \in DOMAIN ic /\ DOMAIN bound[e] = ic[site].names
  BY DEF Hit
<1>3. I.k \in DOMAIN bound[e]
  BY <1>1, <1>2 DEF CachesOK, site, I
<1>4. e \in 1..Len(parent) /\ Len(parent) = Len(bound)
  BY <1>2 DEF CachesOK, LoopIInv, EnvsOK
<1> HIDE DEF e
<1>5. Sound(bound[e][I.k], 1..Len(parent), Fns)
  BY <1>3, <1>4 DEF LoopIInv, EnvsOK
<1> QED  BY <1>5 DEF e

LEMMA LoadVarKeeps ==
  ASSUME NEW Fns, Closed(Fns), LoopIInv(Fns), CachesOK(Fns), LOAD_VAR
  PROVE  LoopIInv(Fns)'
<1> DEFINE b == Found(top.env, I.k)
<1>1. I.op # "HALT"
  BY DEF LOAD_VAR
<1>2. CASE LoadHit
  <2> DEFINE v == bound[ic[site].env][I.k]
  <2>1. Sound(v, 1..Len(parent), Fns) /\ Put(v)
    BY <1>2, HitBound DEF LoadHit
  <2> HIDE DEF v
  <2> QED  BY <1>1, <2>1, PutKeeps
<1>3. CASE LoadMiss
  <2>1. Sound(bound[b][I.k], 1..Len(parent), Fns) /\ Put(bound[b][I.k])
    BY <1>3, FoundBound DEF LoadMiss
  <2> QED  BY <1>1, <2>1, PutKeeps
<1>4. CASE LoadError
  BY <1>4, StopKeeps DEF LoadError, raise_error
<1> QED  BY <1>2, <1>3, <1>4 DEF LOAD_VAR

\* A binding is made or changed.
LEMMA StoreKeeps ==
  ASSUME NEW Fns, Closed(Fns), LoopIInv(Fns), NEW e \in 1..Len(parent),
         I.op # "HALT", StoreTo(e)
  PROVE  LoopIInv(Fns)'
<1> DEFINE v == top.regs[I.ra]
           new == Defined(bound[e], I.k, v)
           envs == 1..Len(parent)
<1>1. FramesOK(frames', envs, Fns)
  BY Current, AtKeeps DEF StoreTo
<1>2. Sound(v, envs, Fns)
  BY Current
<1>3. IsSeq(bound) /\ e \in 1..Len(bound)
  BY DEF LoopIInv, EnvsOK
<1>4. bound' = [bound EXCEPT ![e] = new]
  BY DEF StoreTo
<1>5. \A x \in DOMAIN new : Sound(new[x], envs, Fns)
  <2>1. \A x \in DOMAIN bound[e] : Sound(bound[e][x], envs, Fns)
    BY <1>3 DEF LoopIInv, EnvsOK
  <2> HIDE DEF v, envs
  <2> QED  BY <1>2, <2>1 DEF Defined
<1> HIDE DEF new
<1>6. LET t == [bound EXCEPT ![e] = new]
      IN  /\ IsSeq(t) /\ Len(t) = Len(bound) /\ t[e] = new
          /\ \A k \in 1..Len(bound) : k # e => t[k] = bound[k]
  BY <1>3, Replaced
<1>7. EnvsOK(parent, bound', Fns)
  BY <1>4, <1>5, <1>6 DEF LoopIInv, EnvsOK
<1> QED  BY <1>1, <1>7 DEF LoopIInv, StoreTo

LEMMA AssignKeeps ==
  ASSUME NEW Fns, Closed(Fns), LoopIInv(Fns), STORE_VAR \/ STORE_SUPER
  PROVE  LoopIInv(Fns)'
<1>1. CASE STORE_VAR
  <2>1. top.env \in 1..Len(parent)
    BY Current DEF FrameOK
  <2> QED  BY <1>1, <2>1, StoreKeeps DEF STORE_VAR
<1>2. CASE STORE_SUPER
  <2> DEFINE b == Found(top.env, I.k)
             e == IF b = Store!NoEnv THEN Store!Global ELSE b
  <2>1. Store!Global \in 1..Len(parent)
    <3>1. Len(parent) \in Nat /\ Len(parent) >= 3
      BY SeqFacts DEF LoopIInv, EnvsOK
    <3> QED  BY <3>1 DEF Store!Global
  <2>2. e \in 1..Len(parent)
    BY <2>1, FoundBound
  <2>3. I.op # "HALT" /\ StoreTo(e)
    BY <1>2 DEF STORE_SUPER
  <2> HIDE DEF e
  <2> QED  BY <2>2, <2>3, StoreKeeps
<1> QED  BY <1>1, <1>2

-----------------------------------------------------------------------------
(***************************************************************************)
(* Calls                                                                   *)
(***************************************************************************)

LEMMA GreatestIn ==
  ASSUME NEW n \in Nat, NEW T \in SUBSET (1..n), T # {}
  PROVE  \E i \in T : \A j \in (i + 1)..n : j \notin T
<1> DEFINE U == {n - i : i \in T}
<1>1. U \in SUBSET Nat /\ U # {}
  <2>1. \A i \in T : n - i \in Nat
    OBVIOUS
  <2> QED  BY <2>1
<1> HIDE DEF U
<1>2. PICK m \in U : \A k \in U : m <= k
  BY <1>1, LeastNumber
<1>3. PICK i \in T : m = n - i
  BY DEF U
<1>4. \A j \in T : n - j \in U
  BY DEF U
<1>5. \A j \in (i + 1)..n : j \notin T
  <2> SUFFICES ASSUME NEW j \in (i + 1)..n, j \in T PROVE FALSE
    OBVIOUS
  <2>1. n - i <= n - j /\ i \in Int /\ j \in Int /\ j >= i + 1
    BY <1>2, <1>3, <1>4
  <2> QED  BY <2>1
<1> QED  BY <1>5

\* The arguments are the registers after the callee's.
LEMMA ArgsSound ==
  ASSUME NEW Fns, Closed(Fns), LoopIInv(Fns), I.op = "CALL"
  PROVE  /\ I.k \in Nat /\ Len(Args) = I.k
         /\ \A i \in 1..I.k : Sound(Args[i], 1..Len(parent), Fns)
<1>1. /\ I.k \in Nat /\ I.ra \in Registers(top.fn) /\ I.ra + I.k < top.fn.nregs
      /\ top.fn.nregs \in Nat
      /\ \A r \in Registers(top.fn) : Sound(top.regs[r], 1..Len(parent), Fns)
  BY Current DEF Fits
<1>2. \A i \in 1..I.k : I.ra + i \in Registers(top.fn)
  <2> SUFFICES ASSUME NEW i \in 1..I.k PROVE I.ra + i \in Registers(top.fn)
    OBVIOUS
  <2>1. I.ra \in Nat
    BY <1>1 DEF Registers
  <2>2. top.fn.nregs # 0 /\ Registers(top.fn) = 0..(top.fn.nregs - 1)
    BY <1>1, <2>1 DEF Registers, Size
  <2> QED  BY <1>1, <2>1, <2>2
<1>3. Len(Args) = I.k
  <2>1. Args \in Seq({top.regs[I.ra + i] : i \in 1..I.k}) /\ DOMAIN Args = 1..I.k
    BY <1>1, SeqDef DEF Args
  <2> QED  BY <1>1, <2>1
<1> QED  BY <1>1, <1>2, <1>3 DEF Args

\* A parameter is bound to the argument of the last one of its name.
LEMMA BindingsSound ==
  ASSUME NEW Fns, Closed(Fns), LoopIInv(Fns), I.op = "CALL", NEW f, f.nparams \in Nat,
         NEW x \in DOMAIN Bindings(f)
  PROVE  Sound(Bindings(f)[x], 1..Len(parent), Fns)
<1> DEFINE n == IF I.k < f.nparams THEN I.k ELSE f.nparams
           P(i) == f.params[i] = x /\ \A j \in (i + 1)..n : f.params[j] # x
           last == CHOOSE i \in 1..n : P(i)
<1>1. n \in Nat /\ \A i \in 1..n : i \in 1..I.k
  BY ArgsSound
<1>2. x \in {f.params[i] : i \in 1..n} /\ Bindings(f)[x] = Args[last]
  BY DEF Bindings
<1> HIDE DEF n
<1>3. \E i \in 1..n : P(i)
  <2> DEFINE T == {i \in 1..n : f.params[i] = x}
  <2>1. T \in SUBSET (1..n) /\ T # {}
    BY <1>2
  <2> HIDE DEF T
  <2>2. PICK i \in T : \A j \in (i + 1)..n : j \notin T
    BY <1>1, <2>1, GreatestIn
  <2>3. i \in 1..n /\ \A j \in (i + 1)..n : j \in 1..n
    BY <1>1, <2>1
  <2> QED  BY <2>2, <2>3 DEF T
<1>4. last \in 1..n
  BY <1>3
<1> HIDE DEF last
<1> QED  BY <1>1, <1>2, <1>4, ArgsSound

LEMMA ActivationOK ==
  ASSUME NEW Fns, Closed(Fns), NEW fn \in Fns, NEW envs, NEW env \in envs, NEW dst,
         NEW args, Len(args) \in Nat, LeftOK(left, envs, Fns),
         \A i \in 1..Len(args) : Sound(args[i], envs, Fns)
  PROVE  FrameOK(Activation(fn, env, dst, args), envs, Fns)
<1> DEFINE f == Activation(fn, env, dst, args)
<1>1. Fits(fn)
  BY DEF Closed
<1>2. 1 \in DOMAIN fn.code
  BY <1>1 DEF Fits
<1>3. Sound(Nil, envs, Fns)
  BY DataSound DEF Nil
<1>4. /\ \A r \in Registers(fn) : r \in Nat /\ (r < Len(args) => r + 1 \in 1..Len(args))
      /\ \A r \in Registers(fn) : r < Len(left) => Sound(left[r + 1], envs, Fns)
  <2>1. Len(left) \in Nat /\ \A i \in 1..Len(left) : Sound(left[i], envs, Fns)
    BY SeqFacts DEF LeftOK
  <2>2. \A r \in Registers(fn) : r \in Nat
    BY <1>1 DEF Fits, Registers, Size
  <2>3. \A r \in Nat : r < Len(left) => r + 1 \in 1..Len(left)
    BY <2>1
  <2> QED  BY <2>1, <2>2, <2>3
<1>5. f.fn = fn /\ f.env = env /\ f.pc = 1 /\ IsFrame(f)
  BY DEF Activation, IsFrame
<1>6. DOMAIN f.regs = Registers(fn) /\ \A r \in Registers(fn) : Sound(f.regs[r], envs, Fns)
  BY <1>3, <1>4 DEF Activation
<1> HIDE DEF f
<1>7. FrameOK(f, envs, Fns)
  BY <1>2, <1>5, <1>6 DEF FrameOK
<1> QED  BY <1>7 DEF f

LEMMA EnterKeeps ==
  ASSUME NEW Fns, Closed(Fns), LoopIInv(Fns), NEW c, Sound(c, 1..Len(parent), Fns),
         c.tag = "closure", I.op = "CALL", Enter(c)
  PROVE  LoopIInv(Fns)'
<1>1. CASE Len(parent) = MaxEnvs
  BY <1>1, StopKeeps DEF Enter
<1>2. CASE Len(parent) # MaxEnvs
  <2> DEFINE n == Len(parent)
             callee == Activation(c.fn, n + 1, I.rdest, Args)
             new == Bindings(c.fn)
  <2>1. /\ parent' = Append(parent, c.env) /\ bound' = Append(bound, new)
        /\ frames' = Append(At(top.pc + 1), callee) /\ status' = status
        /\ left' = SubSeq(left, Size(c.fn) + 1, Len(left))
    BY <1>2 DEF Enter
  <2>2. /\ n \in Nat /\ n >= 3 /\ n < MaxEnvs /\ Len(bound) = n /\ IsSeq(parent) /\ IsSeq(bound)
        /\ \A e \in 1..n : parent[e] \in 0..(e - 1)
        /\ \A e \in 1..n : \A x \in DOMAIN bound[e] : Sound(bound[e][x], 1..n, Fns)
    BY <1>2, SeqFacts, MaxEnvsAssumption DEF LoopIInv, EnvsOK
  <2>3. c.fn \in Fns /\ c.env \in 1..n /\ Fits(c.fn)
    BY DEF Sound, Typed, Closed
  <2>4. \A v : Sound(v, 1..n, Fns) => Sound(v, 1..(n + 1), Fns)
    BY <2>2 DEF Sound, Typed
  <2>5. FrameOK(callee, 1..(n + 1), Fns) /\ callee.dst = I.rdest
    <3>1. Len(Args) \in Nat /\ \A i \in 1..Len(Args) : Sound(Args[i], 1..(n + 1), Fns)
      BY <2>4, ArgsSound
    <3>2. n + 1 \in 1..(n + 1)
      BY <2>2
    <3>3. callee.dst = I.rdest
      BY DEF Activation
    <3>4. LeftOK(left, 1..(n + 1), Fns)
      BY <2>2, MoreEnvsLeft DEF LoopIInv
    <3> QED  BY <2>3, <3>1, <3>2, <3>3, <3>4, ActivationOK
  <2>6. \A x \in DOMAIN new : Sound(new[x], 1..(n + 1), Fns)
    <3>1. c.fn.nparams \in Nat
      BY <2>3 DEF Fits
    <3> QED  BY <2>4, <3>1, BindingsSound
  <2>7. EnvsOK(parent', bound', Fns)
    <3> HIDE DEF new
    <3>1. LET t == Append(parent, c.env)
          IN  IsSeq(t) /\ Len(t) = n + 1 /\ t[n + 1] = c.env /\ \A k \in 1..n : t[k] = parent[k]
      BY <2>2, Pushed
    <3>2. LET t == Append(bound, new)
          IN  IsSeq(t) /\ Len(t) = n + 1 /\ t[n + 1] = new /\ \A k \in 1..n : t[k] = bound[k]
      BY <2>2, Pushed
    <3>3. \A e \in 1..(n + 1) : e = n + 1 \/ e \in 1..n
      BY <2>2
    <3>4. /\ IsSeq(parent') /\ IsSeq(bound') /\ Len(parent') = n + 1 /\ Len(bound') = n + 1
          /\ n + 1 >= 3 /\ n + 1 <= MaxEnvs
      BY <2>1, <2>2, <3>1, <3>2, MaxEnvsAssumption
    <3>5. \A e \in 1..(n + 1) : parent'[e] \in 0..(e - 1)
      BY <2>1, <2>2, <2>3, <3>1, <3>3
    <3>6. \A e \in 1..(n + 1) : \A x \in DOMAIN bound'[e] : Sound(bound'[e][x], 1..(n + 1), Fns)
      BY <2>1, <2>2, <2>4, <2>6, <3>2, <3>3
    <3> QED  BY <3>4, <3>5, <3>6 DEF EnvsOK
  <2>8. FramesOK(frames', 1..(n + 1), Fns)
    <3> DEFINE fs == At(top.pc + 1)
    <3>1. FramesOK(fs, 1..n, Fns)
      BY Current, AtKeeps
    <3>2. FramesOK(fs, 1..(n + 1), Fns) /\ IsSeq(fs) /\ Len(fs) \in Nat /\ Len(fs) >= 1
      <4>1. 1..n \subseteq 1..(n + 1)
        BY <2>2
      <4> HIDE DEF fs
      <4>2. FramesOK(fs, 1..(n + 1), Fns)
        BY <3>1, <4>1, MoreEnvs
      <4> QED  BY <4>2, SeqFacts DEF FramesOK
    <3>3. Len(fs) = Len(frames) /\ fs[Len(fs)].fn = top.fn
      <4> DEFINE g == [top EXCEPT !.pc = top.pc + 1]
      <4>1. g.fn = top.fn
        BY Current, FrameAt
      <4>2. fs = [frames EXCEPT ![Len(frames)] = g]
        BY DEF At
      <4>3. Len(frames) \in 1..Len(frames) /\ IsSeq(frames)
        BY Current DEF LoopIInv, FramesOK
      <4> HIDE DEF fs, g
      <4> QED  BY <4>1, <4>2, <4>3, Replaced
    <3>4. I.rdest \in Registers(top.fn)
      BY Current
    <3> HIDE DEF fs, callee
    <3>5. LET t == Append(fs, callee)
          IN  /\ IsSeq(t) /\ Len(t) = Len(fs) + 1 /\ t[Len(fs) + 1] = callee
              /\ \A k \in 1..Len(fs) : t[k] = fs[k]
      BY <3>2, Pushed
    <3>6. frames' = Append(fs, callee)
      BY <2>1 DEF fs, callee
    <3>7. \A k \in 1..(Len(fs) + 1) : k \in 1..Len(fs) \/ k = Len(fs) + 1
      BY <3>2
    <3>8. \A k \in 1..(Len(fs) + 1) : FrameOK(frames'[k], 1..(n + 1), Fns)
      BY <2>5, <3>2, <3>5, <3>6, <3>7 DEF FramesOK
    <3>9. \A k \in 1..(Len(fs) + 1) : k > 1 => frames'[k].dst \in Registers(frames'[k - 1].fn)
      <4> SUFFICES ASSUME NEW k \in 1..(Len(fs) + 1), k > 1
                   PROVE  frames'[k].dst \in Registers(frames'[k - 1].fn)
        OBVIOUS
      <4>1. k - 1 \in 1..Len(fs) /\ frames'[k - 1] = fs[k - 1]
        BY <3>2, <3>5, <3>6
      <4>2. CASE k = Len(fs) + 1
        <5>1. k - 1 = Len(fs)
          BY <3>2, <4>2
        <5> QED  BY <2>5, <3>3, <3>4, <3>5, <3>6, <4>1, <4>2, <5>1
      <4>3. CASE k \in 1..Len(fs)
        BY <3>2, <3>5, <3>6, <4>1, <4>3 DEF FramesOK
      <4> QED  BY <3>7, <4>2, <4>3
    <3> QED  BY <3>2, <3>5, <3>6, <3>8, <3>9 DEF FramesOK
  <2>9. Len(parent') = n + 1
    BY <2>1, <2>2, Pushed
  <2>10. LeftOK(left', 1..(n + 1), Fns)
    <3>1. LeftOK(left, 1..(n + 1), Fns)
      BY <2>2, MoreEnvsLeft DEF LoopIInv
    <3>2. Size(c.fn) \in Nat
      BY <2>3 DEF Size, Fits
    <3> DEFINE t == SubSeq(left, Size(c.fn) + 1, Len(left))
    <3>3. IsSeq(t) /\ \A k \in 1..Len(t) : \E i \in 1..Len(left) : t[k] = left[i]
      BY <3>1, <3>2, Dropped DEF LeftOK
    <3> HIDE DEF t
    <3>4. LeftOK(t, 1..(n + 1), Fns)
      BY <3>1, <3>3 DEF LeftOK
    <3> QED  BY <2>1, <3>4 DEF t
  <2> QED  BY <2>1, <2>7, <2>8, <2>9, <2>10 DEF LoopIInv
<1> QED  BY <1>1, <1>2

LEMMA CallKeeps ==
  ASSUME NEW Fns, Closed(Fns), LoopIInv(Fns), CALL
  PROVE  LoopIInv(Fns)'
<1> DEFINE f == top.regs[I.ra]
<1>1. I.op = "CALL" /\ I.op # "HALT" /\ Sound(f, 1..Len(parent), Fns)
  BY Current DEF CALL
<1>2. CASE f.tag = "closure"
  <2>1. Enter(f)
    BY <1>2 DEF CALL
  <2> HIDE DEF f
  <2> QED  BY <1>1, <1>2, <2>1, EnterKeeps
<1>3. CASE f.tag = "builtin"
  <2> DEFINE v == Impl(f.name, Args)
  <2>1. Put(v)
    BY <1>3 DEF CALL
  <2>2. Sound(v, 1..Len(parent), Fns)
    <3>1. f.name \in DOMAIN register_primitives
      BY <1>1, <1>3 DEF Sound, Typed
    <3> QED  BY <3>1, ImplSound
  <2> HIDE DEF v
  <2> QED  BY <1>1, <2>1, <2>2, PutKeeps
<1>4. CASE f.tag \notin {"closure", "builtin"}
  BY <1>4, StopKeeps DEF CALL, raise_error
<1> QED  BY <1>2, <1>3, <1>4

\* The caller gets the value in the register the call named.
LEMMA ReturnKeeps ==
  ASSUME NEW Fns, Closed(Fns), LoopIInv(Fns), RETURN
  PROVE  LoopIInv(Fns)'
<1> DEFINE n == Len(frames) - 1
           v == IF I.op = "RETURN" THEN top.regs[I.ra] ELSE Nil
           rest == SubSeq(frames, 1, n)
           envs == 1..Len(parent)
<1>1. n \in Nat /\ Sound(v, envs, Fns)
  <2>1. Sound(Nil, envs, Fns)
    BY DataSound DEF Nil
  <2> QED  BY <2>1, Current
<1>2. CASE n = 0
  BY <1>2, StopKeeps DEF RETURN
<1>3. CASE n # 0
  <2> DEFINE g == [frames[n] EXCEPT !.regs = [@ EXCEPT ![top.dst] = v]]
  <2> DEFINE gone == [i \in 1..Size(top.fn) |-> top.regs[i - 1]]
  <2>1. /\ frames' = [rest EXCEPT ![n] = [@ EXCEPT !.regs = [frames[n].regs EXCEPT ![top.dst] = v]]]
        /\ left' = gone \o left /\ UNCHANGED <<parent, bound, status>>
    BY <1>3 DEF RETURN
  <2>2. FramesOK(frames, envs, Fns) /\ IsSeq(frames) /\ Len(frames) = n + 1 /\ n \in 1..n
    <3>1. FramesOK(frames, envs, Fns) /\ IsSeq(frames)
      BY DEF LoopIInv, FramesOK
    <3>2. Len(frames) = n + 1 /\ n \in 1..n
      <4>1. Len(frames) \in Nat
        BY <3>1, SeqFacts
      <4>2. \A m \in Nat : m >= 1 /\ m - 1 # 0 => m = (m - 1) + 1 /\ m - 1 \in 1..(m - 1)
        OBVIOUS
      <4>3. Len(frames) >= 1 /\ Len(frames) - 1 # 0
        BY <1>3, Current
      <4> QED  BY <4>1, <4>2, <4>3
    <3> HIDE DEF n, envs
    <3> QED  BY <3>1, <3>2
  <2>3. IsSeq(rest) /\ Len(rest) = n /\ \A k \in 1..n : rest[k] = frames[k]
    BY <1>1, <2>2, Popped
  <2>4. FramesOK(rest, envs, Fns)
    <3> HIDE DEF rest, n, envs
    <3>1. \A k \in 1..n : k \in 1..(n + 1) /\ (k > 1 => k - 1 \in 1..n) /\ n >= 1
      BY <1>1, <2>2
    <3>2. \A k \in 1..n : FrameOK(rest[k], envs, Fns)
      BY <2>2, <2>3, <3>1 DEF FramesOK
    <3>3. \A k \in 1..n : k > 1 => rest[k].dst \in Registers(rest[k - 1].fn)
      BY <2>2, <2>3, <3>1 DEF FramesOK
    <3> QED  BY <2>2, <2>3, <3>1, <3>2, <3>3 DEF FramesOK
  <2>5. FrameOK(frames[n], envs, Fns) /\ top.dst \in Registers(frames[n].fn)
    <3>1. n + 1 \in 1..Len(frames) /\ n \in 1..Len(frames) /\ n + 1 > 1 /\ (n + 1) - 1 = n
      BY <1>1, <1>3, <2>2
    <3> HIDE DEF n, envs
    <3> QED  BY <2>2, <3>1 DEF FramesOK, top
  <2>6. FrameOK(g, envs, Fns) /\ g.fn = frames[n].fn /\ g.dst = frames[n].dst
    <3> HIDE DEF v, n, envs
    <3> QED  BY <1>1, <2>5, FrameWith
  <2>7. frames' = [rest EXCEPT ![n] = g]
    <3>1. rest[n] = frames[n]
      BY <2>2, <2>3
    <3> HIDE DEF rest, n, v
    <3> QED  BY <2>1, <3>1
  <2>8. FramesOK([rest EXCEPT ![n] = g], envs, Fns)
    <3> HIDE DEF rest, g, n, envs
    <3> QED  BY <2>2, <2>3, <2>4, <2>6, FrameReplaced
  <2>9. LeftOK(gone \o left, envs, Fns)
    <3>1. Size(top.fn) \in Nat /\ \A i \in 1..Size(top.fn) : i - 1 \in Registers(top.fn)
      BY Current DEF Size, Fits, Registers
    <3>2. IsSeq(gone) /\ Len(gone) = Size(top.fn)
      <4> DEFINE R == {top.regs[i - 1] : i \in 1..Size(top.fn)}
      <4>1. gone \in Seq(R)
        BY <3>1, SeqDef
      <4>2. Len(gone) = Size(top.fn)
        <5> HIDE DEF R
        <5> QED  BY <3>1, <4>1
      <4> HIDE DEF R, gone
      <4> QED  BY <4>1, <4>2, SeqIs
    <3>3. \A i \in 1..Len(gone) : Sound(gone[i], envs, Fns)
      BY <3>1, <3>2, Current
    <3>4. IsSeq(left) /\ \A i \in 1..Len(left) : Sound(left[i], envs, Fns)
      BY DEF LoopIInv, LeftOK
    <3> HIDE DEF gone, envs
    <3>5. LET t == gone \o left
          IN  /\ IsSeq(t)
              /\ \A k \in 1..Len(t) : \/ \E i \in 1..Len(gone) : t[k] = gone[i]
                                     \/ \E i \in 1..Len(left) : t[k] = left[i]
      BY <3>2, <3>4, Joined
    <3> QED  BY <3>3, <3>4, <3>5 DEF LeftOK
  <2> HIDE DEF gone
  <2> QED  BY <2>1, <2>7, <2>8, <2>9 DEF LoopIInv
<1> QED  BY <1>2, <1>3

-----------------------------------------------------------------------------
(***************************************************************************)
(* Executions                                                              *)
(***************************************************************************)

LEMMA LoopInitial ==
  ASSUME NEW Fns, Closed(Fns), NEW fn \in Fns, Started(fn)
  PROVE  LoopIInv(Fns)
<1>1. EnvsOK(parent, bound, Fns)
  <2>1. /\ IsSeq(parent) /\ IsSeq(bound) /\ Len(parent) = 3 /\ Len(bound) = 3
        /\ parent[1] = 0 /\ parent[2] = 1 /\ parent[3] = 2
        /\ bound[1] = <<>> /\ bound[2] = register_primitives /\ bound[3] = <<>>
    <3> DEFINE S == {<<>>, register_primitives}
    <3>1. parent \in Seq(Nat) /\ bound \in Seq(S)
      <4>1. <<>> \in S /\ register_primitives \in S
        OBVIOUS
      <4> HIDE DEF S
      <4> QED  BY <4>1 DEF Started, Store!NoEnv, Store!Empty, Store!Base
    <3> HIDE DEF S
    <3>2. IsSeq(parent) /\ IsSeq(bound)
      BY <3>1, SeqIs
    <3> QED  BY <3>2 DEF Started, Store!NoEnv, Store!Empty, Store!Base
  <2>2. \A e \in 1..3 : e = 1 \/ e = 2 \/ e = 3
    OBVIOUS
  <2>3. DOMAIN <<>> = {}
    OBVIOUS
  <2>4. \A x \in DOMAIN register_primitives : Sound(register_primitives[x], 1..3, Fns)
    BY DEF register_primitives, Sound, Typed, Builtin
  <2>5. \A e \in 1..3 : parent[e] \in 0..(e - 1)
    BY <2>1, <2>2
  <2>6. \A e \in 1..3 : \A x \in DOMAIN bound[e] : Sound(bound[e][x], 1..3, Fns)
    BY <2>1, <2>2, <2>3, <2>4
  <2> QED  BY <2>1, <2>5, <2>6, MaxEnvsAssumption DEF EnvsOK
<1>2. \A envs : LeftOK(left, envs, Fns)
  <2>1. left \in Seq({}) /\ Len(left) = 0
    BY DEF Started
  <2>2. IsSeq(left)
    BY <2>1, SeqIs
  <2> QED  BY <2>1, <2>2 DEF LeftOK
<1>3. FramesOK(frames, 1..Len(parent), Fns)
  <2> DEFINE f == Activation(fn, Store!Global, 0, <<>>)
  <2>1. FrameOK(f, 1..3, Fns)
    <3>1. 3 \in 1..3 /\ Len(<<>>) \in Nat /\ \A i \in 1..Len(<<>>) : Sound(<<>>[i], 1..3, Fns)
      OBVIOUS
    <3>2. LeftOK(left, 1..3, Fns)
      BY <1>2
    <3> QED  BY <3>1, <3>2, ActivationOK DEF Store!Global
  <2>2. frames = <<f>> /\ Len(parent) = 3
    BY DEF Started
  <2> HIDE DEF f
  <2>3. frames \in Seq({f}) /\ Len(frames) = 1 /\ frames[1] = f
    BY <2>2
  <2>4. IsSeq(frames) /\ \A k \in 1..Len(frames) : k = 1
    BY <2>3, SeqIs
  <2> QED  BY <2>1, <2>2, <2>3, <2>4 DEF FramesOK
<1> QED  BY <1>1, <1>3, <1>2 DEF LoopIInv, Started

LEMMA HandlerKeeps ==
  ASSUME NEW Fns, Closed(Fns), LoopIInv(Fns), CachesOK(Fns), [Handler]_loopVars
  PROVE  LoopIInv(Fns)'
<1>1. CASE LOAD \/ Arith \/ NEG \/ NOT \/ LENGTH \/ INDEX \/ MAKE_CLOSURE
  BY <1>1, ComputeKeeps
<1>2. CASE Nothing \/ JUMP
  BY <1>2, MoveKeeps
<1>3. CASE LOAD_VAR
  BY <1>3, LoadVarKeeps
<1>4. CASE STORE_VAR \/ STORE_SUPER
  BY <1>4, AssignKeeps
<1>5. CASE CALL
  BY <1>5, CallKeeps
<1>6. CASE RETURN
  BY <1>6, ReturnKeeps
<1>7. CASE HALT
  BY <1>7, StopKeeps DEF HALT
<1>8. CASE UNCHANGED loopVars
  BY <1>8 DEF loopVars, LoopIInv
<1> QED  BY <1>1, <1>2, <1>3, <1>4, <1>5, <1>6, <1>7, <1>8 DEF Handler

\* Nothing takes an environment or a binding away.
LEMMA BindingsGrow ==
  ASSUME NEW Fns, Closed(Fns), LoopIInv(Fns), Handler
  PROVE  /\ 1..Len(parent) \subseteq 1..Len(parent')
         /\ \A e \in 1..Len(parent) : DOMAIN bound[e] \subseteq DOMAIN bound'[e]
<1>1. /\ Len(parent) \in Nat /\ IsSeq(parent) /\ IsSeq(bound)
      /\ Len(bound) = Len(parent)
  BY SeqFacts DEF LoopIInv, EnvsOK
<1>2. CASE UNCHANGED <<parent, bound>>
  BY <1>2
<1>3. ASSUME NEW e \in 1..Len(parent), StoreTo(e)
      PROVE  /\ parent' = parent
             /\ \A d \in 1..Len(parent) : DOMAIN bound[d] \subseteq DOMAIN bound'[d]
  <2> DEFINE new == Defined(bound[e], I.k, top.regs[I.ra])
  <2>1. bound' = [bound EXCEPT ![e] = new] /\ parent' = parent
    BY <1>3 DEF StoreTo
  <2>2. DOMAIN bound[e] \subseteq DOMAIN new
    BY DEF Defined
  <2> HIDE DEF new
  <2>3. LET t == [bound EXCEPT ![e] = new]
        IN  t[e] = new /\ \A k \in 1..Len(bound) : k # e => t[k] = bound[k]
    BY <1>1, <1>3, Replaced
  <2> QED  BY <1>1, <2>1, <2>2, <2>3
<1>4. CASE STORE_VAR \/ STORE_SUPER
  <2>1. top.env \in 1..Len(parent) /\ Store!Global \in 1..Len(parent)
    <3>1. Len(parent) >= 3
      BY DEF LoopIInv, EnvsOK
    <3> QED  BY <1>1, <3>1, Current DEF FrameOK, Store!Global
  <2>2. \E e \in 1..Len(parent) : StoreTo(e)
    BY <1>4, <2>1, FoundBound DEF STORE_VAR, STORE_SUPER
  <2> QED  BY <1>3, <2>2
<1>5. ASSUME NEW c, Enter(c)
      PROVE  /\ 1..Len(parent) \subseteq 1..Len(parent')
             /\ \A e \in 1..Len(parent) : DOMAIN bound[e] \subseteq DOMAIN bound'[e]
  <2>1. CASE Len(parent) = MaxEnvs
    BY <1>5, <2>1 DEF Enter
  <2>2. CASE Len(parent) # MaxEnvs
    <3> DEFINE new == Bindings(c.fn)
    <3>1. parent' = Append(parent, c.env) /\ bound' = Append(bound, new)
      BY <1>5, <2>2 DEF Enter
    <3> HIDE DEF new
    <3>2. LET t == Append(bound, new) IN \A k \in 1..Len(bound) : t[k] = bound[k]
      BY <1>1, Pushed
    <3>3. Len(Append(parent, c.env)) = Len(parent) + 1
      BY <1>1, Pushed
    <3> QED  BY <1>1, <3>1, <3>2, <3>3
  <2> QED  BY <2>1, <2>2
<1>6. CASE CALL
  BY <1>5, <1>6 DEF CALL, Put, raise_error
<1>7. CASE LOAD \/ Arith \/ NEG \/ NOT \/ LENGTH \/ INDEX \/ MAKE_CLOSURE
  BY <1>2, <1>7 DEF LOAD, Arith, NEG, NOT, LENGTH, INDEX, MAKE_CLOSURE, Put, raise_error
<1>8. CASE Nothing \/ JUMP \/ RETURN \/ HALT
  BY <1>2, <1>8 DEF Nothing, JUMP, RETURN, HALT
<1>9. CASE LOAD_VAR
  BY <1>2, <1>9 DEF LOAD_VAR, LoadHit, LoadMiss, LoadError, Put, raise_error
<1> QED  BY <1>4, <1>6, <1>7, <1>8, <1>9 DEF Handler

LEMMA CachesKeep ==
  ASSUME NEW Fns, Closed(Fns), LoopIInv(Fns), CachesOK(Fns), [Handler]_loopVars
  PROVE  CachesOK(Fns)'
<1>1. CASE Handler /\ UNCHANGED ic
  BY <1>1, BindingsGrow DEF CachesOK
<1>2. CASE Handler /\ LoadMiss
  <2> DEFINE b   == Found(top.env, I.k)
             new == [env |-> b, names |-> DOMAIN bound[b]]
  <2>1. ic' = Defined(ic, site, new) /\ UNCHANGED <<parent, bound>>
    BY <1>2 DEF LoadMiss, Put
  <2>2. b \in 1..Len(parent) /\ I.k \in DOMAIN bound[b]
    BY <1>2, FoundBound DEF LoadMiss
  <2>3. new.env = b /\ new.names = DOMAIN bound[b]
    OBVIOUS
  <2> HIDE DEF b, new
  <2>4. /\ DOMAIN ic' = DOMAIN ic \cup {site} /\ ic'[site] = new
        /\ \A at \in DOMAIN ic : at # site => ic'[at] = ic[at]
    BY <2>1 DEF Defined
  <2>5. \A at \in DOMAIN ic' :
          ic'[at].env \in 1..Len(parent) /\ ic'[at].names \subseteq DOMAIN bound[ic'[at].env]
    BY <2>2, <2>3, <2>4 DEF CachesOK
  <2>6. ASSUME NEW f \in Fns, NEW pc \in DOMAIN f.code, <<f.id, pc>> \in DOMAIN ic'
        PROVE  f.code[pc].k \in ic'[<<f.id, pc>>].names
    <3>1. CASE <<f.id, pc>> = site
      <4>1. f.id = top.fn.id /\ pc = top.pc
        BY <3>1 DEF site
      <4>2. f = top.fn
        BY <4>1, Current DEF Closed, FrameOK
      <4>3. f.code[pc] = I
        BY <4>1, <4>2 DEF I
      <4> QED  BY <2>2, <2>3, <2>4, <3>1, <4>3
    <3>2. CASE <<f.id, pc>> # site
      BY <2>4, <2>6, <3>2 DEF CachesOK
    <3> QED  BY <3>1, <3>2
  <2> QED  BY <2>1, <2>5, <2>6 DEF CachesOK
<1>3. CASE UNCHANGED loopVars
  BY <1>3 DEF loopVars, CachesOK
<1> QED  BY <1>1, <1>2, <1>3 DEF Handler, LOAD_VAR, LoadHit, LoadError

LEMMA LoopInvariant ==
  ASSUME NEW Fns, Closed(Fns), NEW fn \in Fns
  PROVE  LoopSpec(fn) => [](LoopIInv(Fns) /\ CachesOK(Fns))
<1>1. Started(fn) => LoopIInv(Fns) /\ CachesOK(Fns)
  <2>1. Started(fn) => DOMAIN ic = {}
    BY DEF Started
  <2> QED  BY <2>1, LoopInitial DEF CachesOK
<1>2. LoopIInv(Fns) /\ CachesOK(Fns) /\ [Handler]_loopVars => LoopIInv(Fns)' /\ CachesOK(Fns)'
  BY HandlerKeeps, CachesKeep
<1> QED  BY <1>1, <1>2, PTL DEF LoopSpec

\* Types of the dispatch loop (every handler of src/vm/interpreter.cpp the model
\* has): code that fits is executed with every activation at an instruction of
\* its code and in an environment that exists, its result going to a register
\* of its caller, values in all registers and bindings, a chain of environments
\* that ends, and caches that remember bindings of their names.
THEOREM FittingCodeIsTyped ==
  ASSUME NEW Fns, Closed(Fns), NEW fn \in Fns
  PROVE  LoopSpec(fn) => []CodeTypeOK
<1>1. LoopIInv(Fns) /\ CachesOK(Fns) => CodeTypeOK
  <2> SUFFICES ASSUME LoopIInv(Fns), CachesOK(Fns) PROVE CodeTypeOK
    OBVIOUS
  <2>1. /\ DOMAIN frames = 1..Len(frames) /\ Len(frames) >= 1 /\ frames # <<>>
        /\ DOMAIN parent = 1..Len(parent) /\ Len(parent) = Len(bound)
    BY SeqFacts DEF LoopIInv, FramesOK, EnvsOK
  <2>2. \A k \in DOMAIN frames :
          /\ frames[k].pc \in DOMAIN frames[k].fn.code /\ frames[k].env \in DOMAIN parent
          /\ DOMAIN frames[k].regs = Registers(frames[k].fn)
          /\ \A r \in DOMAIN frames[k].regs : Typed(frames[k].regs[r], DOMAIN parent)
          /\ k > 1 => frames[k].dst \in Registers(frames[k - 1].fn)
    BY <2>1 DEF LoopIInv, FramesOK, FrameOK, Sound
  <2>3. \A e \in DOMAIN parent :
          /\ parent[e] \in 0..(e - 1)
          /\ \A x \in DOMAIN bound[e] : Typed(bound[e][x], DOMAIN parent)
    BY <2>1 DEF LoopIInv, EnvsOK, Sound
  <2>4. \A i \in DOMAIN left : Typed(left[i], DOMAIN parent)
    BY <2>1, SeqFacts DEF LoopIInv, LeftOK, Sound
  <2>5. \A k \in DOMAIN frames :
          LET at == <<frames[k].fn.id, frames[k].pc>>
          IN  at \in DOMAIN ic => frames[k].fn.code[frames[k].pc].k \in ic[at].names
    BY <2>1 DEF CachesOK, LoopIInv, FramesOK, FrameOK
  <2>6. \A at \in DOMAIN ic :
          ic[at].env \in DOMAIN parent /\ ic[at].names \subseteq DOMAIN bound[ic[at].env]
    BY <2>1 DEF CachesOK
  <2> QED  BY <2>1, <2>2, <2>3, <2>4, <2>5, <2>6 DEF CodeTypeOK, LoopIInv, EnvsOK
<1> QED  BY <1>1, LoopInvariant, PTL

\* The frames of the dispatch loop hold code that fits, whatever closures are
\* made, stored, found and called: what CallStack assumes of code.
THEOREM CodeAlwaysFits ==
  ASSUME NEW Fns, Closed(Fns), NEW fn \in Fns
  PROVE  LoopSpec(fn) => []CodeFits
<1>1. LoopIInv(Fns) => CodeFits
  <2> SUFFICES ASSUME LoopIInv(Fns) PROVE CodeFits
    OBVIOUS
  <2>1. DOMAIN frames = 1..Len(frames)
    BY SeqFacts DEF LoopIInv, FramesOK
  <2> QED  BY <2>1 DEF CodeFits, LoopIInv, FramesOK, FrameOK, Closed
<1> QED  BY <1>1, LoopInvariant, PTL
=============================================================================
