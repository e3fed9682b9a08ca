# A TLA+ model of the R_SJIT virtual machine

R_SJIT is a virtual machine for a subset of R, written in C++20. This directory
holds TLA+ modules that model its front end, its run-time core and its
optimizer, TLC configurations that check
them on small instances, and proofs, checked by TLAPS, of theorems about them
for every value of their parameters. `PROJECT.json` ties every definition that
models code to the lines it models; paths below are relative to the repository.

    tlc -config MCEnvironments.cfg MCEnvironments     # one run
    tlapm EnvironmentsProofs.tla                      # one module's proofs

## 1. The system

A program goes through `Lexer`, `Parser` and `Lowerer` (src/frontend) to
bytecode (`BytecodeModule`, src/bytecode), and `Interpreter`
(src/vm/interpreter.cpp) executes that. The tiers above it are in the sources
but off: `execute_with_args` disables compiled code, `TierManager` compiles
nothing, and no code reaches OSR or deoptimization. The command line's
`--dump-graph` builds a sea-of-nodes graph and runs the optimizer's passes on
it, for printing. One thread executes; the shape table has a mutex and the
feedback records are atomic, because compiler threads are meant to read them.

| Component (sources) | State | Operations | Talks to |
|---|---|---|---|
| Environments (core/environment) | shape table and its transition cache; per environment a parent, a shape, a vector of bindings; the empty, base and global environments as process globals | `define`, `lookup`, `set_existing`, `remove`, `slot_get`, `transition_add`, `reset_environments` | interpreter, inline caches, closures |
| Inline caches (bytecode/module, vm/interpreter) | per instruction an environment, a shape id, a slot | the fast and the slow path of `op_LOAD_VAR` | read environments; shared by all activations of a function |
| Interpreter (vm/interpreter, vm/frame) | frame stack, register arena, their two counters, locals of `dispatch_loop`, pending error | `execute_with_args`, one handler per opcode, `call_function` | everything at run time |
| Builtins (vm/primitives, core/vector) | none | one C++ function each; `sapply` calls back into the interpreter | interpreter |
| Promises (core/promise) | code, environment, state, value | `force` | environments, interpreter |
| Garbage collector (core/gc) | object list, roots, mark bits, counters | `allocate`, `register_heap_value`, `collect` | reads every heap object |
| Context (core/context) | interned symbols, error flag, the parts above | `raise_error`, `intern` | everything |
| Lowerer (frontend/lower) | code being emitted, registers, promoted locals, loop targets | one function per kind of syntax | produces what the interpreter executes |
| Lexer, parser (frontend) | position, tokens | one function per rule | produce the syntax tree |
| Feedback (feedback) | counters, callee entries, type sets | `record` of each kind | interpreter and compilers |
| Quickening (vm/quickening) | a counter, two tags and two bits per instruction | `quicken_observe`; the batch pass `quicken`, which nobody calls | rewrites bytecode |
| Graph and optimizer (ir, optimizer) | nodes, inputs, use lists | building; dead code, value numbering, constant folding, strength reduction | `--dump-graph` |
| Type lattice (ir/types) | none | `meet`, `join`, which nobody calls | |
| Tiers (jit) | thresholds, compiled code, deoptimization blobs | compile, enter, deoptimize | off |
| Code generation (codegen), command line | stubs; none | | |

### What is hard

* *Caches that stand for a lookup.* A `LOAD_VAR` compares one shape id and then
  reads a slot without a further check. That is right only if equal ids mean
  that the slot is still this symbol's and bound, after any history of
  assignments and removals, and if the remembered environment is the one the
  executing activation would find. The first holds; the second does not.
* *A hand-made stack.* R calls take a frame and a window of registers from fixed
  arrays, and returns give them back by subtraction; an error leaves everything
  in place; six local variables of `dispatch_loop` must follow. A builtin that
  calls back starts a second loop on the same arrays.
* *Lock-free records.* `CallFeedback::record` races for entries with relaxed
  loads and a compare and swap, and must neither split nor lose a count.
* *Code that moves values.* Locals live in registers and in environments, and
  blocks, loops and functions share destination registers.
* *Instructions that rewrite themselves.* A counter and two tags share a word with
  the bits that say what became of them; the specialised handler has no guard.
* *Text.* Line ends that end statements here and not there, one token for two
  brackets, operators between prefix operators: each construct beside each other.
* *Graphs kept by hand.* Uses mirror inputs under replacement and removal, passes
  repeat until nothing changes, and effects are ordered by the nodes they hang on.

What makes each part correct: environments are nested maps; a cached read is a
lookup; activations have registers of their own; a profile says what was
called; a collection frees what nothing refers to; bytecode means what the
program means; a rewritten graph computes what it computed.

## 2. Modules

    ScopeChain      <== Environments <-- InlineCache <-- LexicalScope
    Activations     <== CallStack    <-- Reentrancy
    CallFeedback
    Quickening
    Values <-- Builtins <-- DispatchLoop
    Lowering, Builtins <-- Meaning
    Meaning, DispatchLoop <-- LoweredCode
    (Lexer, Lowering) <-- Parser <-- Spelling
    SeaOfNodes <-- GraphBuilder, Passes
    Passes <-- Optimizer
    DataFlow        <== GraphEdits (of SeaOfNodes)
    Spelling, GraphBuilder, Optimizer <-- DumpGraph

(`A <== B`: B is shown to implement A. `B <-- C`: C extends B.) Every module
`X` that is checked has an `MCX` that gives its constants values. What is proved
is in the modules `...Proofs` (section 5); `LeastNumber` and `FoldInduction` have the
lemmas on natural numbers and on folds that several proofs need.

**ScopeChain** is what environments promise: mutable maps with an enclosing
environment, `x <- v` binds in the running one, `x <<- v` where the nearest
binding is, or in the global one.

**Environments** is class `Environment` with its shapes: `shapes` is
`ShapeTable::shapes_` (a shape's `next` is its part of `add_cache_`), `shape`,
`parent` and `bindings` are the members of each environment. `TransitionAdd`,
`Defined`, `define`, `set_existing`, `slow_set_super`, `remove`,
`NewEnvironment`, `Lookup` are the functions of those names; a `define` is one
action with the transition, the growth of the vector and the store. Slots and
shape ids count from 1; 0 is `UINT32_MAX` and "no entry". `EnvSpec` is what
compiled programs do (the lowerer emits no `RM_VAR`; `register_primitives`
defines in the base environment; nothing runs in the empty or the base
environment); `ApiSpec` adds `remove`, on any environment. Bindings are empty
or values: no code stores a promise, a missing argument or a flag into one.

**InlineCache** adds the three arrays of `BytecodeFunction` as `ic` and
`op_LOAD_VAR` as `LoadHit`, `LoadMiss` and `LoadError`. Environments change by
`ApiNext` and any running environment may execute any instruction, so what holds
here holds for every program.

**LexicalScope** puts the caches under programs: `op_CALL` with the environment
it makes and fills, closures (a function and the environment of an activation
of the function it is written in), `op_RETURN`, and the variable instructions
of the running activation. A *site* is a name the lowerer reads with
`LOAD_VAR`: free names, and every callee name. The promotion of locals to
registers is not in this module.

**Activations** is what calls promise: each activation has its registers, a call
suspends the caller, a return restores it. Registers of parameters without an
argument may hold anything: `op_CALL` zeroes from `nparams` on and writes the
arguments there are, so that such a register has what an earlier activation left.

**CallStack** is the frame array, the arena, `frame_depth_`, `reg_sp_` and the
locals of `dispatch_loop`. `execute_with_args`, `CALL`, `RETURN`, `JUMP`, `HALT`
and `raise_error` are the handlers; `Step` stands for the instructions that
compute, each of which writes one register of its frame. The code of a function
is only a length, so the model is of every program of those sizes. `Fits` splits
a call in the defined one and the one that writes past an array
(`CALL_overrun`), after which nothing is said.

**Reentrancy** adds the loops that wait in C++ while `sapply` calls back, with
the registers each had when it was left.

**Lowering** is the lowerer as functions: `lower_expr` and the `lower_*` of each
construct take the state of a `BytecodeBuilder` and a `Lowerer` (code, registers
allocated, registers of promoted names, loop targets) and return the next one.
Syntax trees are records, of every kind the parser makes. `patch_k` fills in jumps
as the code does; `Refused` says which trees the lowerer raises an error for.

**Values** has the values of running programs (null, integers, doubles, logicals,
strings, vectors, closures, builtins) and the operators on them as the
interpreter's `add_values`, `cmp_scalar`, `index_value` and the handlers compute
them; **Builtins** has each builtin but `sapply`, by its C++ name. Numbers are whole
and bounded by `Cap`; NA is one more. Division and powers are left out.

**Meaning** is the reference: what a program means, from its syntax, with
environments as maps and no registers. Operators and builtins mean what the
interpreter computes; `Called` gives the builtins whose code is at odds with the
documented function (`c`, `seq_len`, `seq_along`, `is.na`), and a decided `&&`
leaves its second operand alone. Beside the result it notes in `met` which hazards
a program meets: the kinds its header lists. One is the cache, which meaning knows nothing
of: `cached` is met when a function reads a name it does not keep in a register and has
read it in another environment before, in whichever activation. A kind is in the list because
programs of the run that meet only it have a wrong result or never end, and the
list is complete for the programs of the run (`LoweredRight`).

**DispatchLoop** is the handlers of the opcodes the lowerer emits, one action each,
for functions from wherever (id, code, register count, parameters). Registers belong to
activations as `Activations` promises, environments are maps as `ScopeChain` promises,
and each `LOAD_VAR` of a function has its cache, `ic`, for all activations of the
function: `LoadHit`, `LoadMiss`, `LoadError`. Bindings are never removed here, so the names
an environment binds stand for its shape and a name for its slot (`InlineCache` has both as
they are, and the proofs of section 5 say that the one is as good as the other). A function
has an id, so that functions of one text have caches of their own. What activations leave behind in the arena
is `left`: a parameter without an argument, and the register a function without
registers writes its value to, start with what is there. `status` is how the execution
ended. `Fits` says when code stays inside its frame.

**LoweredCode** is the dispatch loop on lowered programs, each beside what it means, so
that what is wrong here is the code; a program leaves its result in the global `r`.

**Quickening** is one instruction of arithmetic or comparison with its flags. Each
step executes the handler it has now on any two operands: `op_generic` observes
the types (`quicken_observe`) and computes by the `*_values`; `op_REAL_REAL` and
`op_INT_INT` compute on the bits they find, which for a value of another type are
unknown (`Garbled`, or any integer). `first`, `mixed` and `runs` are history.

**Lexer** is `next_token` on a sequence of characters, **Parser** the recursive
descent, one operator per function; a parsing function takes a position and
returns a tree and a position, 0 after an error. **Spelling** is the other
direction: `Source` writes a tree as text, with the parentheses the parser's table
of precedences asks for (`op_precedence`, which the parser declares and never
consults) and in several styles: arrows or `=`, backticks, strings or plain names,
comments, directives and line ends where they may be.

**SeaOfNodes** is `Graph`: nodes by id, each with its inputs and outputs, two
sequences in which a node may be several times (`Times`).
**GraphBuilder** is `build_cfg` and `GraphBuilder::build`; **Passes** is each pass
`run_all_passes` runs, with what may go wrong in it (`fault`): a null node given
users, and `nodes_` read on after an insertion moved it. A pass is a fold of its visit
of one node over the nodes there are when it starts; the rounds of `dce` are counted
by the nodes, since each round but the last removes one. **Optimizer** is
`run_all_passes`: `Optimize` (one pass a step, one round of `sccp` a step),
`Iterate`, `Crash`, from any graph.

**DataFlow** is what a graph promises: nodes with inputs; a node that is replaced
gives way in every input; one that is removed is nobody's. **GraphEdits** is the
three functions that change a `Graph` (`new_node`, `remove_node`, `replace_node`)
in any order, where the builder and the passes may call them: inputs are nodes of
the graph or null, only nodes without users are removed (`dce`; which of those
have effects is left out, so more is removed here than there), and no
node is replaced by itself, nor one with users by null (the null a
`strength_reduce` can meet is a `fault` of `Passes`). Users are found
through the outputs a node lists, which nothing but these functions keeps right.

**DumpGraph** composes them as `--dump-graph` does: `lex_all`, `Parse`, `Lower`,
`Build`, then the optimizer's steps. What a graph means is its effects in order, each with the term it uses,
where a variable is read at a node of the control (`Effects`).

**CallFeedback** is `CallFeedback::record`, one action per atomic access. A
relaxed load may return the null an entry held before. Nothing calls `record`
today; the module shows what it promises the threads that will.

## 3. Runs

Each property has a mutant of the code (an operator next to the one it changes,
named in `PROJECT.json`) that breaks it on the same instance.

| Run | Specification, instance | What it shows |
|---|---|---|
| `environments` | `EnvSpec`; 2 symbols, 2 values, 4 environments | `Environments` implements `ScopeChain`, each assignment the right step of it; slots are dense and disjoint; one shape per slot map |
| `inline_cache` | `IcSpec` with `remove`; 2 symbols, 4 environments, 5 shapes, one instruction | transitions and slots stay right; a hit reads its own symbol's slot, bound and in range; a wrong value can only come from a binding out of scope |
| `lexical_scope` | `ScopeSpec`; a program with one function | a name only the global environment binds is always read with its current value |
| `lexical_scope_broken` (violated) | the same | finding 1 |
| `call_stack` | `CallSpec`; three functions, 3 frames, 6 cells | windows follow one another, the loop's locals agree with the top frame, `CallStack` implements `Activations` |
| `reentrancy` (violated) | `ReSpec`; a program and a callback | finding 2 |
| `call_feedback` | `FairFeedbackSpec`; 3 threads, 3 callees, 2 entries, 5 calls | one entry per callee, filled from the front; a site is megamorphic only if it is; no count is lost; `record` returns |
| `lowered_code` | `FairCodeSpec`; 8166 programs | lowered code stays inside its frame (what `CallStack` assumes of code), computes what the program means, and ends when the program does, unless the program meets a hazard; 3339 programs meet none |
| `loop_exits` (violated) | the same | finding 3 |
| `dump_graph` | `Spec`; 34,121 states over every pair of operators, every construct inside every other, straight programs and joins, in four styles | a tree is read back however it is written; uses mirror inputs through every pass; `dce` leaves nothing nobody uses, however long the chains of it; the graph of straight code has the code's effects in order, on the values it computes, and the passes keep them; the optimizer ends unless something folds |
| `graph_edits` | `Spec` of `GraphEdits`; 5 ids, up to 2 inputs, 190,623 states | after any edits a node lists its users, each as often as it uses it, and all inputs are nodes; `GraphEdits` implements `DataFlow` |
| `quickening` | `Spec`; ten opcodes, seven operands, 3-bit integers | an instruction is specialised exactly when eight executions found one pair of types with a variant; the variant agrees with the generic handler on its types; the batch pass finds nothing left |

**Bounds.** `MaxEnvs` is the three environments of the process and one or two of
calls: two suffice for a closure's environment with the caller's beside it and
for an activation after another. `MaxShapes` is above what two symbols can
make in `environments` (so it never binds there) and, with `remove`, leaves room
for a removal and both ways of growing again. `FrameCapacity` 3 and
`ArenaSize` 6 are the program, a call in a call, and arrays that can be full: a
frame is exhausted by recursion of `one` and the arena by that of `sum`.
`CodeLen` 2 gives every instruction a next one and a last. `MaxRecords` 5 is a
call for each entry, one for each late thread and one after the site is
full. The programs of `MCLoweredCode` are every pair of statements out of a few
dozen between an assignment and a result, every such body of a function,
functions that make functions, every operator on values of every type, operands
with effects, every builtin on scalars and vectors of every type, and functions that look
names up before and after those are assigned, rebound or bound nearer; `Cap` 5 is
the largest number (sums stay at it), above every number the programs reach on
purpose; `Fuel` 12 iterations and calls and `MaxEnvs` 14 are more than any of them
needs to end. `MaxPasses` 40 is above the passes of every graph where nothing
folds (the longest takes less than half); no graph of the run gets near 131 nodes,
below which the hash of `gvn` keeps the ids of inputs apart, so that keys stand for
hashes. `IntBits` is the width of an integer: 8 for literals, so that one does not
fit, and 3 in `quickening`, where overflow, NA and every pair of integers occur.
The counter of `quickening` has its real size: the run passes 8 and 15. `MaxNodes` 5
of `graph_edits` is the start, the end and three nodes: a user, what it uses
and what that is replaced by; with `MaxInputs` 2 a user can have one node twice. Symbols,
values and functions are model values; no symmetry is used.

**Fairness.** `FairCodeSpec`: the dispatch loop goes on for as long as there is an
instruction to execute. `FairFeedbackSpec`: every thread inside `record` takes
its next access eventually. `record` takes no lock and waits for nothing, so
this is the scheduler's own promise. No thread needs to call `record` again.
`DumpGraph` ends with `<>[]Running => []<><<TRUE>>_vars`: the program goes on while
it can, which is weak fairness of its next step with ENABLED written out (TLC
would evaluate every stage again to find it enabled).
Deadlock is checked in `environments` and `quickening`, whose steps never stop; in
the others a program may end, and the bounds end histories (in `graph_edits`,
when every id is given).

## 4. Findings

1. *The cache of `LOAD_VAR` ignores who executes it* (`LexicalScoping`). The
   second activation of f has the first one's binding for as long as the first
   one's environment keeps its shape. README.md promises "Closures with proper
   lexical scoping". In whole programs it is the hazard `cached`: with
   `f <- function(a) { k <- function() a; k() }`, `f(2)` after `f(1)` is 1.
2. *A callback overwrites its caller's registers* (`OuterRegistersIntact`):
   `execute_with_args` starts at frame 0 and register 0, also when a builtin
   called by a running loop calls it.
3. *break and next never leave* (`LoopExitsEnd`). The target of `break` is the
   first instruction of the body in every kind of loop, that of `next` is it in
   `for`; nothing patches them once the exit is known, so the loop runs for ever.

The other hazards `Meaning` lists are wrong results without a
statement of the repository against them. The first parameter is overwritten: the
body of a function is lowered into register 0, which is that parameter's, and every
statement of a block gets the block's destination, so that `a` is 5 at the end of
`function(a) { x <- 5; a + x }`. A local changed by an inner
function's `<<-` is read from its register; `x <<- v` assigns the running
activation's own x if it has one; a local read before its assignment is not
looked up outside; a loop's variable is only in a register; a loop over a range
that goes down does not run; a loop over a scalar gets NULL; an empty block
leaves what was in its register; `&&` and `||` evaluate both operands; an assigned
element is not stored; a missing argument moves the ones after it; `-x` leaves its
register alone if x is no number; a call finds a nearer binding that is no
function; `c` of mixed types loses values; `seq_len(0)` counts down; `is.na` does
not know a NaN. Others the models show without a run of their own: after
`Environment::remove` the next define takes a slot another symbol has (no program
removes a variable); a parameter without an argument has what an earlier
activation left in its register; an optimizer that folds never ends, since
`constant_fold` folds a folded node again, and may read `nodes_` after moving it;
`gvn` merges constants of different values, since it does not hash them; at a join
a Phi takes what the registers held where its predecessors begin; the graph of a
program without registers crashes; a specialised instruction reads operands of
other types as its own. Recursion deeper than the arrays is written
past their end (`CALL_overrun`): no check is made where a frame is taken.

`PROJECT.json` gives the lines, and quotes what the repository says of each.

## 5. Proofs

The theorems are of the specifications the runs check (those about code of
`LoopSpec`, whose initial states and steps `LoweredCode` extends), for every value of the constants that satisfies the modules' assumptions: finite sets of symbols and
threads, Nil a value, Unbound not; parameters within registers, the program's
registers within the arena; a function around each but the program; operands
whose bits are known and integers of 2 to 8 bits. TLC evaluates the
assumptions in the passing runs. In the runs' bounds (`MaxEnvs`, `MaxShapes`,
`MaxRecords`) any number may stand.

**LeastNumber.** Several arguments are inductions: along the parents of an
environment, along the parameters of a call, along the entries of a sum or
a list of users, down the frames. The prover takes no induction theorem (they have an operator as a
parameter), but it takes the fact they come from: a nonempty set of naturals has a least
element. Each induction is the search of a smallest counterexample. `StepsExist`, found
the same way, says that a function defined by its value at 0 and each next value
by the one before has those values. **FoldInduction** makes of that what a fold keeps:
with its step and what is kept as constants, it is instantiated once for each fold,
and `FoldKeeps` is then the induction along the list.

**EnvironmentsProofs.** `TransitionsSound` (a remembered transition leads to the
shape adding the symbol makes) and `SlotsBacked` (a slot is inside the vector)
are not inductive alone: a define that reuses a transition needs the transition
to be right, a transition needs the sizes, and the environment a call makes
needs the first shape to be empty. `EnvIInv` is
`TypeOK /\ TransitionsSound /\ SlotsBacked /\ RootEmpty`. `EnvironmentsSound` proves
it of `ApiSpec`, remove included; `ShapesAdvance` draws from it that an
environment never returns to a shape it left; `ProgramsUseTheInterface` carries
both to `EnvSpec`.

Of programs, which never remove, more is true: `EnvRunInv` adds `SlotsBound` and
`TableInterned`. That shapes are interned is no local fact. A new shape is
made only where a shape has no transition for a symbol, and one might fear
that the map it makes is there already, reached another way. It is not, because
slots are dense (`TableDense`): in the map of a shape, the symbol of the highest
slot was added last, so the map determines the shape it was made from, and that
shape has a transition for the symbol (`TableReached`: every shape but the first
is where one leads). Hence
`SlotsAreDense`, `ShapesAreInterned`, `SlotsAreBindings`. With
a slot that is a binding, each operation changes what an environment binds at one
symbol (`Binds`), so that `EnvironmentsAreChains` is the refinement of `ScopeChain`
operation by operation; `AssignmentsAreChains` says which step each one is, for
`<<-` by showing that the search of `slow_set_super` and the chain's own agree.

**LexicalScopeProofs** begins with `InlineCache`. `IcIInv` adds `CachedSlotSound`: a cache is behind its
environment, and if their shapes are equal the slot is the symbol's and is
bound. The environments' own steps preserve it because shapes only advance, and
`remove`, the one step that empties a slot, always makes a new shape.
`HitsReadTheirOwnBinding` follows, and `CacheTypes` and `CachesAreNotAhead` with
it. `ReadsWrongOnlyOutOfScope` is the step property: a miss is the lookup the
chain defines; a hit on an environment of the chain with nothing nearer below
it is the same lookup. Chains have any length, so the walk is a function on environments
whose value is followed from the reader to the remembered environment.

Of `LexicalScope`, `ScopeIInv` puts the two together with the frames and with
`ScopesNest`: the environment a call makes has a parent that programs run in,
so that every chain leads to the global one. The parameters of a call are bound one after the other;
what holds of the environment after each is carried along them (`BoundSound`).
`ProgramsKeepEnvironments` is that programs keep everything above.
`GlobalNamesAreCurrent` needs it all: a name visible in the global
environment only is bound nowhere else, so that the cache can only remember the
global one, whose shape guard and slot then give the current value.

**CallStackProofs.** `CallStackDisciplined` is inductive with the types and
`LocalsCurrent`; the proof of a return needs that the caller's window ends where
the callee's begins, that of a call that the new frame's slot is above every live
one. It holds for all capacities; `CALL_overrun` takes no part, since nothing
moves after it.

There too is the refinement. Windows that follow one another do not overlap, however far apart
the frames are (`RegistersPrivate`): so a write to a register is a write
to the running activation and to no other. `CallsAreActivations` maps the live
frames, each with the part of the arena that is its own, to the stack of
activations and shows every handler to be the step of the same name; a call is
the long one, since what the window held before is what its uninitialised parameters hold.

**DispatchLoopProofs.** `CallStack` proves what it does for any code whose registers and
jumps are within its frame. Does the dispatch loop only ever execute such code? Closures
are values: they are put in variables, passed, returned and called by whoever finds
them. `LoopIInv` follows them: a function that is in an activation, in a closure in a
register, in one in a binding, or in one an ended activation left behind, is one of a set `Fns`. Beside it are the types
(`CodeTypeOK`), which a call needs (the arguments are the registers after the
callee's, and a closure's environment exists) and every other handler keeps: for each
operator and each builtin, that what it computes from values of any type is an error
or a value with a type. The hypothesis `Closed(Fns)` is about code as text: each
function of the set fits, has an id of its own, and makes closures of functions of
the set only. That the lowerer's functions fit is what the run `lowered_code` adds, for its programs; their ids are
the places they are written at. A cache hit reads without a lookup, from whatever
environment the instruction remembers: `CachesOK` says that this one exists and binds the
instruction's name, which takes the ids (no other function's instruction wrote the
entry) and that bindings are never taken away (`BindingsGrow`). `FittingCodeIsTyped` and `CodeAlwaysFits` are the results.

**FeedbackProofs.** Of `CallFeedback`, `SearchSound` says what a thread knows at each access: all
entries before its own are other callees', and where it counts is its callee's.
It makes `OneEntryPerCallee`, `FilledFromFront` and `MegamorphicIsMeant` inductive
together (`ProfileSound`), for any number of threads and entries;
`EntriesKeepTheirCallee` is the action property. `CallsAreCountedOnce` needs the sum of the
counts: the fold is shown to be the last of the partial sums, which an
increment of one entry raises by one from that entry on. Beside it stands the number of
threads inside `record`, which each call raises and each count lowers.

Of `Quickening`: the flag bits are the only memory the code has; the history
(`first`, `mixed`, `runs`) is the model's. `FlagsTellHistory` is what one knows of
the other: the counter is the number of executions up to its threshold, the
type bits are the four low bits of the first types, the consistent bit is set
while no others came. With `VariantTellsFlags` it is inductive, and gives
`SpecialisedByHistory` in both directions, `BatchPassIdle` and, with the arithmetic of each
opcode, `VariantsRight`.

**GraphProofs.** Uses and inputs are compared by counting: `Mirrored` says that a node
is among another's users as often as the other is among its inputs. What each
edit does to the counts is a lemma of its own: appending to a list adds one
(`TimesAppend`, `TimesConcat`), redirecting moves the count of the old node to the
new one (`TimesRedirected`), `std::remove` makes one count 0 and leaves the others
(`TimesWithout`, along the list). With these `NewNodeKeeps`, `RemoveKeeps` and
`ReplaceKeeps` show that each function changes both sides alike, on any graph;
`ReplaceKeeps` is the one that needs the invariant, since `replace_node` looks only
at the users that are listed. The inductive invariant adds types, and that inputs
and users are nodes that are there. `UsesAreMirrored` follows, and
`EditsAreDataFlow`: what is done along the lists is what `DataFlow` says of
all inputs.

The passes are such edits, but are they made where the edits are right? `replace_node`
of a node by itself empties its list of users and leaves them as they were, and nothing
in the passes asks. `strength_reduce` replaces `x * 1` by its own input, and `gvn` a
node by one it saw before with the same inputs. That neither is the node itself is a
property of the graph: no nodes use each other in a circle (`Acyclic`: no nonempty set
of nodes each of which uses one of the set). `WellMade` adds that to types and mirrored
uses, and to a start without inputs, which no pass touches. Each visit of each pass
keeps it. A new node has no users and closes no circle (`AddingKeeps`). A node may be
replaced by one that does not use it, however indirectly: by one of its own inputs
(`ReduceVisitKeeps`), or by a node whose inputs are among its own (`FoldVisitKeeps`: a
constant under the node's own control). In `gvn` a node in `seen` had the same inputs
when its key was taken, but may have others by now. The proof (`GvnVisitKeeps`) carries
along the fold that an input it had then is one still, or was itself replaced since and
has no users, so that the node now visited cannot use it either (`SameKeySameInputs`),
and that the nodes in `seen` come before those to visit. So `PassesKeepGraphClosed`:
from a well-made graph, after any number of passes, the graph is closed.

The rounds of `dce` are counted by the nodes, where the code goes on until nothing
changes. That this is the same is proved: a round that removes something leaves fewer
nodes, one that removes nothing leaves a graph in which nothing is useless (`Neat`), and
since the start stays, as many rounds as nodes are enough (`DceKeeps`). What follows for
the optimizer is the action property `DceLeavesNothingUseless`.

The builder makes the graph the passes begin with. `BuilderOK` is its invariant: the
graph is well made, and whatever the builder holds, for a register now or at the entry
of a block, and for the control now or at the end of a block, is a node of the graph or
null, the current control never null. `NewNodeHolds` says that a bigger graph does not
disturb it; then there is a lemma for each shape of instruction (`DefineKeeps`,
`ActKeeps`, `MoveKeeps`, `BranchKeeps`, `CallingKeeps`, `ReturnNilKeeps`), and one each
for entering a block (with its region and its Phis, or one predecessor) and leaving it.
`BlocksAre` gives the blocks: that they and their predecessors are in range is no matter
of course, since jumps may go anywhere and `build_cfg` only clips their targets. Three
folds, over registers, instructions and blocks, carry it to the end (`BuildsWell`). The
hypothesis `InFrame` is that the code has a frame and stays inside it: of lowered code,
`CodeFits` and the assumption `LoweredInFrame` of `MCDumpGraph` say so for the programs
of their runs. `BuiltGraphsStayClosed` is `GraphClosed` from code to optimized graph.
That a value is missing (null) where blocks meet is possible, and stays so: it is what
`strength_reduce` can crash on (`fault` of `Passes`).

**Only model-checked.** The liveness properties `RecordReturns`, `ProgramsEnd` and
`PassesEnd`, which the prover does not reach. And what is stated over syntax, text and
whole graphs, whose modules are recursive in `RECURSIVE` operators the prover
does not take: `LoweredRight` of lowered code, and
`ParsesBack`, `GraphRight` and `PassesKeepMeaning` of `DumpGraph`.
`CodeTypeOK` and `CodeFits` are proved of the dispatch loop with any functions that fit,
`GraphClosed` and `NothingUseless` of the optimizer on the graph of any code that stays
inside its frame; that the lowerer makes such functions and such code is what
the runs add. Every other property of a passing run is a theorem.

## 6. Not modelled

* **Garbage collector.** Collection is switched off (`false &&` in `allocate`). The
  one left, after `malloc` fails, calls `visit_heap` with the null parent of the
  empty environment: the process ends in marking and no sweep ever runs.
* **Promises.** Nothing makes one: the lowerer emits no `MAKE_PROMISE`, whose handler
  only forces what it finds, and no C++ code constructs one. The handlers' `fast_force` is the
  identity on every value there is.
* **Type lattice, deoptimization, OSR, tiers, compiled code.** Nothing calls them.
  Machine code cannot be executed by TLC.
* **Partly:** of the optimizer, the passes `run_all_passes` does not run (stubs); of
  the command line, everything but `--dump-graph`; of feedback, the records that are
  single atomic operations; of the context, construction. Symbols are interned
  before any model begins, and an error is the action `raise_error`.
* **Data:** numbers with fractions, division and powers, integers so large that
  sums become doubles in programs (`Quickening` has them), what is printed.

## 7. What is left

Every safety property a run checks is proved, and so is every refinement, but what is said of whole
texts, trees and graphs ("Only model-checked", section 5). In order of what they would add:

1. That the lowerer only makes code that stays inside its frame, for every tree. It is an
   induction over syntax; `Lowering` would have to be written without `RECURSIVE`
   operators, as a function on trees of bounded depth, before a
   proof could begin. With it `CodeFits` and `GraphClosed` would hold from text on.
2. `PassesKeepMeaning` for any graph: a term is a recursive function of an acyclic graph,
   and `Acyclic`, which is proved, is what would make it well defined.
3. Loops and joins in `GraphRight`. The Phis of the builder are wrong there (section 4),
   so that there is nothing to check until the code changes.
