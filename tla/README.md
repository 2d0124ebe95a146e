# A TLA+ development of the Coglet compiler

Coglet is a compiler written in C for a small systems language with move-only
resources, `defer`, exhaustive switches, modules and generics. It parses a
program, analyses it in one pass over the syntax tree, lowers it to a control-flow
graph called CogIR, verifies that graph, and prints it as C or builds LLVM IR from
it. A small runtime in C and a standard library in Coglet supply allocators,
arrays, input and output. Neither the compiler nor the runtime has threads: what is
hard here is the number of *sequences* - which constructs are nested in which, which
early exit leaves which scopes, which calls a client of a container makes in which
order - and the two halves of the compiler that must agree about them without ever
comparing notes.

Paths below are relative to the repository.

## Inventory

| component | state it keeps | operations | interacts with |
| --- | --- | --- | --- |
| driver (`src/compiler_driver.c`, `src/coglet.c`) | list of input files, options | load and parse, discover imports, combine, run the phases | all phases |
| lexer, parser (`src/lexer.c`, `src/parser.c`) | cursor, current and previous token, error flags, the flag that forbids struct initialisers | one function per production, error synchronisation | the AST, read by everything later |
| analyser: scopes, modules, exports (`src/semantic_anal.c`) | scope stack, symbol tables, module registry, selected source | declare, look up, import, close interfaces | every other part of the analyser |
| analyser: types and layout (with `src/target/`) | interned types, visit marks, field lists | resolve, find by-value cycles, lay out | generics, constants |
| analyser: generics and packs | caches, active frames | specialise, substitute, limit recursion | types, function bodies |
| analyser: global declarations | evaluation marks on declarations | check in order and on demand | constants, function bodies |
| analyser: constant evaluation | values | fold, convert, check widths | types, switches |
| analyser: flow | `ctx->flow`, loop contexts, deferred resources | `check_node` on every construct | lowering, which trusts its verdict |
| CogIR builder and verifier (`src/ir/cog_ir*.c`) | blocks, instructions, terminators | add, terminate, verify | lowering, backends |
| CogIR lowering (`src/ir/cog_ir_lower.c`) | current block, pending defers, loop context, bindings | one function per construct | flow analysis, verifier |
| backends (`src/backends/`) | output text, LLVM objects | print or build each instruction | CogIR, toolchain |
| native toolchain (`src/toolchain/`) | temporary files, child processes | compile, link, clean up | driver |
| runtime memory (`stdlib/runtime/coglet_runtime_mem.c`) | arena blocks, fixed buffer, debug block list | allocate, resize, free, reset, mark, rewind, destroy | `std.heap`, `std.array` |
| `std.heap` Pool, Scratch, wrappers | pool arrays, checkpoints | insert, get, remove, clear; begin, deinit | runtime memory |
| `std.array`, `std.io`, `std.math`, ... | buffers, handles | | runtime |

What makes each correct, and what is hard about it:

- **discovery**: the list of inputs grows while it is walked; every imported module is
  loaded, once, whatever the order of the files and however a file is reached.
- **lexer and parser**: every text and every token sequence comes to an end, with or
  without errors; after an error the parser skips and goes on from any depth, and no
  rejected file is handed on; a tree groups its operators by precedence; state that a
  construct sets for its condition is back in place at every way out of it.
- **modules**: five walks over all files, each relying on what the one before left in
  shared tables; a name means the same whatever the order of files and imports; an
  exported interface shows nothing that is not exported.
- **layout**: two depth-first searches with marks share the structs between them; sizes
  and offsets are unsigned words that may overflow.
- **globals and generics**: declarations are checked on demand, in the middle of one
  another; circles are met from several entry points; a failure must be reported at
  each use and found again in the cache; recursion must stop at the limit.
- **arithmetic**: an operator has three implementations (folder, C, LLVM) that must agree
  bit for bit and trap for trap with the language, on signed C integers whose overflow is
  undefined and LLVM instructions that yield poison.
- **flow analysis**: an accepted function uses no variable before it is assigned or
  after it was moved, overwrites no live owner, and returns if it must, on *every*
  path of the code generated for it. The analyser walks once, without a fixed point;
  the second iteration of a loop and the late run of a deferred statement happen in
  states it never looked at.
- **lowering**: a deferred statement is copied to each exit that leaves its block; it
  must run exactly once, newest first, on each path. The analyser and the lowering
  each decide which points are reachable; a disagreement becomes a block without a
  terminator or an executed `unreachable`.
- **pool**: one array is both free list and live mark; handles outlive their values.
- **arena**: nested checkpoints, resets and added blocks; address arithmetic that wraps.
- **debug allocator**: a client that frees twice, uses the wrong layout or writes past an
  end must be reported and must not damage the allocator's own list.

## Modules

| module | models | extends | status |
| --- | --- | --- | --- |
| `Discovery` | how the driver comes to the files it compiles | | checked |
| `Lexer` | `lexer_next` on a text; integer and string tokens read again by the parser | | checked |
| `SourcesProof` | nothing imported is missing, nothing is loaded twice; tokens tile the text, integers convert | `Discovery`, `Lexer` | proved |
| `ParseOps`, `Grammar`, `Parser` | the steps a parse function can take; every parse function as such steps; the machine that runs them | | checked |
| `Modules` | modules, imports, name lookup, exported interfaces | | checked |
| `Layout` | struct fields, by-value cycles, target layouts | | checked |
| `Globals` | constants and variables checked in order and on demand | | checked |
| `DeclarationsProof` | structs and globals are decided rightly, layouts fit | `Layout`, `Globals` | proved |
| `Specialization` | generic functions, structs and methods | | checked |
| `SpecializationProof` | verdicts, soundness of acceptance, the recursion limit | `Specialization` | proved |
| `Compilation` | the front of the compiler | the seven above | checked |
| `OwnershipFlow` | flow analysis, in lock step with the paths of the lowered code | | checked |
| `OwnershipProof` | soundness of the analysis, and that what it allows is met on paths | `OwnershipFlow` | proved |
| `ControlLowering` | lowering of statements and defers, the verifier's view, execution of the graph | | checked |
| `LoweringProof` | the graph and its builder: lowering succeeds, `unreachable` is not reached; deferred statements in the executions of the graph | `ControlLowering` | proved |
| `FunctionBodies` | a function body through analyser and lowering | both | checked |
| `ConstantIntegers`, `Floats`, `CArithmetic`, `LlvmArithmetic` | the folder, IEEE numbers, and the code of the two backends | each the one before | pure operators |
| `Arithmetic` | one expression, computed four times | `LlvmArithmetic` | checked |
| `RuntimeArena`, `DebugAllocator` | growable arena and scratch scopes; debug allocator over the heap | | checked |
| `ArenaProof`, `DebugProof` | the structure of each, and its implementing the contract | `RuntimeArena`; `DebugAllocator` | proved |
| `AllocatorContract` | what any allocator of `std.heap` promises | | abstract specification |
| `Pool` | `std.heap` Pool | | checked |
| `PoolContract` | what Pool promises | | abstract specification |
| `PoolProof` | Pool's structure and its implementing the contract | `Pool` | proved |
| `RunningProgram` | what a compiled program computes with and allocates from | `Arithmetic`, `RuntimeArena`, `DebugAllocator`, `Pool` | checked |
| `MC...` | the instances | | |

Definitions named `Slip...` are plausible mistakes in the code of the definition they
precede. No specification uses them; each is substituted for that definition to see
that the property it belongs to notices.

A program, a disk or a text is an input: a constant (`Disks`, `Texts`, `Files`, `Sources`,
`Tables`, `Declarations`, `Programs`) holds *families* of inputs, sets of sets, and the
initial state takes a member of a member. `MC...` modules write the families down.

### Compilation

One compilation is a single thread, and each part works on the finished result of the
one before; no part reads the state of another while it runs. So a behaviour of
`Compilation` takes one part through one input while the others stand before an empty
one, and the parts' properties are properties of the whole.

**Discovery.** `inputs` is the driver's list and `loaded` what was read and parsed;
`file` and `item` are where the walk stands, `candidates` the sources found for the import
it is at, `status` the outcome. The disk says which files exist, which cannot be read or
parsed, which paths are one file, what each declares and imports. The search goes as
`compiler_driver.c` has it.

**Lexer.** `at` is `Lexer.current`, `scanned` the last two tokens. The alphabet has one
character of every kind the scanner tells apart; words that are keywords are identifiers
here.

**Parser.** A parse function of `parser.c` is a sequence of steps: take this token or
report an error, call that function, look ahead, loop. `Grammar` has one definition per
function; `Parser` has the stack of frames, the two tokens of the `Parser` structure, the
copies of the lexer used for looking ahead, `had_error`, `suppress_struct_init` and
`synchronize`. The tree is reduced to the kind of the node and how loosely it binds.
Tokens are chosen as they are read, so that a behaviour is a file.

**Modules.** The statements of all files, and the walks of `check_program` over them:
`module_of`, `imports`, `scope` and `selected` are the module registry, the bindings of a
file, all symbols with the newest first, and `current_source_id`. A declaration has the
types its interface is made of and the names its body uses; `meanings` records what the
uses came to. The reference definitions take the program as a whole, without an order.

**Layout.** `fields` is what `fill_struct_fields` leaves, `visit` and `walk` the marks and
the stack of the two searches for structs that hold each other by value, and `faults` the
errors. A layout whose words would overflow fails, as in the code. A requested alignment may
be any power of two up to 2^30: the parser refuses what an `int` does not hold
(`src/parser.c:2343`).

**Globals, Specialization.** The C recursion of the analyser is a stack of frames, one per
declaration or specialisation being checked. `started`, `complete`, `valued`, `typed` are
the marks on declarations; `specs` is the caches. Enums are filled before anything else and
in statement order (`FillEnums`): a member value that names a constant, or a member of an
enum further down, is refused. `fill_enum_members` sets the number of members before it
writes them (`src/semantic_anal.c:16732`), so a value that names its own member or a later
one of its enum reads memory nobody has written: the model lets it be found, be refused or
end the compiler. A type argument is the number of
pointers over a base type: enough to tell recursion for the same arguments from one for
ever new ones.

### FunctionBodies

The analyser treats every variable alike and by itself, and the lowering looks at no
variable; so a behaviour follows one variable (the `subject`) through the analysis or
lowers a body whose deferred statements are of one kind.
### OwnershipFlow

| module | code |
| --- | --- |
| `flow` | `ctx->flow` (`FlowState`): `reachable`, one set of states per variable |
| `loop` | `*ctx->current_loop` (`LoopFlowContext`) |
| `active`, `captured` | `ctx->active_deferred_resources`, `ctx->captured_deferred_resources` |
| `stack` | the locals of the C functions whose recursive calls are in progress |
| `path`, `bad`, `pend`, `head` | history: what the lowered code can have done |

Each action is one construct, or one side of one construct, that `check_node` meets;
the program is chosen as the walk goes, so a behaviour *is* a program. Besides the
analyser's state the module keeps, as history, a relation from the state a variable
had at the innermost loop head (or the function entry) to the states it can have here
over the paths of the lowered control flow. The properties compare the two. Variables
are the parameters and the locals at the head of the body; conditions that are not
compile-time constants are free in both.

### ControlLowering

| module | code |
| --- | --- |
| `blocks`, `cur` | the CogIR function and `state->block` |
| `deferred` | `state->deferred[0 .. defer_count)` |
| `loop_state` | `*state->loop` (`ExecLoopContext`) |
| `unwind` | the `run_deferred_from` in progress |
| `constructs` | the C frames of the constructs being lowered |
| `bound` | the declarations in deferred blocks that have a slot |
| `reachable` | the analyser's verdict on the point being lowered |
| `pc`, `live` | the execution of the lowered function |

A behaviour lowers one function the analyser accepts, construct by construct, has the
verifier look at it, and runs it. Instructions are dropped, except a marker where the
source registers a defer and one in front of each lowered copy.

### Arithmetic

`kind` is the kind of the expression; `meant`, `folded`, `c` and `llvm` are its value by the
"Numeric Semantics" of `README.md`, by the constant evaluator, by the C text and by the LLVM
instructions. Each step applies one operator, built-in or conversion to all four. An
untyped integer exists in the compiler only and becomes a constant of the code when it
meets a concrete kind (`Materialize`) or is cast to one (`CastConstant`). The two differ in
what the language means: a cast to a float rounds, an adaptation must be exact. The code
rounds in both (finding 6), so the constant `InexactAdaptation` says whether an integer
may meet a float type that has no exact value for it: it may in the run of the finding,
while `running` follows the adaptations on which language and code agree. A signed overflow, a shift out of range or a conversion out of
range in C is undefined behaviour, and has a value of its own that equals nothing; so does
LLVM's poison. Integer kinds keep the promotions of C: the narrow kinds are narrower than
`int`, the wide ones are not. Floats are exact numbers rounded to a few bits of precision,
with infinities, NaN and the sign of zero.

### Pool and PoolContract

`data`, `next_free`, `generations`, `capacity`, `free_head` and `live_count` are the
fields of the same name; `insert`, `get`, `remove`, `clear` and `deinit` are actions,
and the client may present *any* handle. `freeList`, `issued` and `releases` are
history. `PoolContract` knows only a partial function from handles to values and the
set of handles ever issued; the refinement mapping takes the handles `contains`
accepts, with their elements.

### RuntimeArena, DebugAllocator and AllocatorContract

`blocks` and `current` are the list from `arena->head` and the pointer into it;
`scopes` are the open `Scratch` values; `lent` is what the parent allocator has handed
out. Addresses are absolute and wrap at `AddressSpace`. The parent places a block at
any free word-aligned address. `AllocatorContract` knows the regions a client holds
and, for each open scope, how many of them are older than it. The history field
`kept` of a scope is its image. Scopes end in LIFO order and the arena is
deinitialised after its scopes, as `docs/stdlib.md` asks of clients. `rewind` to a block
that is not in the list, or beyond its capacity, aborts in the code; with checkpoints
made by `mark` neither happens.

`DebugAllocator` keeps the list of blocks from `debug->head`, the counters, and the heap
below it, which places a block at any free word-aligned address or fails. Its client is
hostile: it frees twice, frees and resizes with a wrong layout, writes past both ends. A
freed address may be handed out again. It implements the same contract as the arena: what
the client holds is aligned, disjoint and untouched by the allocator until it gives it back.

## Runs

| run | instance | shows |
| --- | --- | --- |
| `front` | 34 beginnings of a file with up to 8 further tokens out of 5 to 11 each; texts of up to 5 characters; 5 files and 2 modules on a disk, 3 command lines; programs of 3 files in 3 modules; 3 structs in words of 5 bits; up to 4 globals; 2 to 4 templates with a recursion limit of 3 | each part comes to the end of every input; every imported source is loaded once; tokens tile the text, integers convert and adjacent strings join; an accepted file is balanced, grouped by precedence and holds no error node; names, layouts, globals and generics are accepted exactly when a definition that knows no order of processing accepts them; a recorded verdict on a specialisation stays |
| `flow` | one resource and one plain variable through all constructs, depth 2; bodies of up to 6 blocks, 2 defers that branch or never end, nesting 2 | an accepted function misuses no resource, on any path, returns if it must and restores owners at backedges; the lowering and the verifier succeed on it; defers run once, newest first, on every way out; `unreachable` is never executed |
| `running` | 8 integer kinds of 4 to 7 bits, floats of 5 and 6 bits of precision; arena in 20 addresses, 2 blocks, 2 scopes; debug heap of 56 addresses, 3 allocations, 2 wrong acts; pool of 2 slots, 3 generations | folder, C and LLVM code agree with the language; arena and debug allocator implement one contract, nothing leaks, a scope's end restores the arena, reports are true; the pool implements its contract |
| `own_return_branch`, `own_defer_transfer`, `low_bare_case`, `low_defer_local`, `arith_c_constants`, `globals_order`, `spec_methods`, `modules_methods`, `arith_adaptation` | the smallest instance with the construct in question | **violation**, see findings |

**Bounds.**

- `OwnershipFlow`: only nesting is bounded; programs have any length, because the walk's
  state is finite. Depth 2 holds an expression that branches inside a loop or a branch
  inside a branch. The plain variable is followed one level less. Every depth is covered by
  the proofs.
- `ControlLowering`: six blocks are two nested loops, or a loop around an if; two defers are
  enough for an order. Every size is covered by the proofs.
- `Parser`: each file has its own small alphabet, the words of one production and of what
  may follow it; `AfterError` = 2 further tokens after the first error let the parser
  recover and meet a second one.
- `Lexer`: three to five characters hold the longest operator with what follows, a prefixed
  literal with a bad digit, both comments and both unterminated literals; seven hold two
  string literals with something in them and a blank between, or three that touch.
- `Discovery`: five files make a package beside the importer, the same module in a search
  directory and one of the standard library; one file of a disk is odd (unreadable, broken,
  of another module, or a second path to another).
- `Modules`: three files in two orders, up to three directives in one of them, so that
  duplicates, late directives, aliases and nested module names all meet.
- `Layout`: three structs hold each other in every pattern; `MaxSize` 31 overflows in
  each of size, padding and array length, and the alignment 32 does not fit in it.
- `Globals`, `Specialization`: three or four declarations make a circle with a tail and two
  ways into it, and enums that name one another and constants in either order; limit 3 is reached by direct and by mutual recursion.
- `Arithmetic`: all pairs of kinds, with right operands at the limits of each width.
- `RuntimeArena`: two blocks make a current one and a later one; the sizes leave a remainder,
  need padding at one of the possible bases, and overflow. `MaxLive` bounds what is held,
  not what was allocated.
- `Pool`: two slots reuse one while the other is live. With two releases no generation
  wraps: `StaleStaysStale` and the contract are false once a slot has been released as often as
  there are generations. No run reaches the wrap; the theorem `PoolStructure` covers it.

**Fairness.** `Compilation` assumes weak fairness of its next-state relation: the compiler is
one thread that waits for nobody, so it takes a step as long as it has one.
`CompilationTerminates` rests on it and says that each loop, recovery and recursion of the
front runs out. No other module assumes fairness: what a running program does next is its
own affair.

**Left out of the instances.** `MCGlobals` leaves out programs in which a generic function is
specialised from the initialiser of a variable it reads: the compiler stops there with an
assertion (below). Programs with the constructs of a finding are in that finding's run and
not in the passing ones, except where the property holds in spite of them.

## Findings

Each is a run that ends in a violation.

1. `return` makes the flow unreachable *before* its value is checked
   (`src/semantic_anal.c:17407`), so branches inside the value are merged as two
   unreachable flows and a move on one of them is forgotten (`own_return_branch`).
2. The flow saved before a deferred statement is restored after it
   (`src/semantic_anal.c:17387`), so a deferred transfer in a loop is unknown at the
   backedge (`own_defer_transfer`).
3. A switch case whose body is a single statement is not a scope of its own
   (`src/parser.c:2989`): `case 1: defer f();` is lowered at the end of the enclosing
   block, on every path (`low_bare_case`).
4. A deferred block that declares a local can be lowered only once
   (`src/ir/cog_ir_lower.c:3474`): with two exits the compiler reports an internal
   error on a program it accepted (`low_defer_local`).
5. A folded infinity or NaN is printed with `"%a"` (`src/backends/backend_c/backend_c.c:1506`),
   as a word that C does not know (`arith_c_constants`).
6. An untyped integer that a float type does not hold exactly is rounded instead of refused
   (`src/semantic_anal.c:6524`; `arith_adaptation`): `x: f32 = 16777217;`. `README.md:888`
   and `docs/language.md:1089` say that it adapts only if its exact value fits.
7. A variable that a function body needs early is checked at function depth 0, where
   another variable without a type is refused: declarations without a circle are rejected
   because of the order of files (`src/semantic_anal.c:13589`; `globals_order`).
8. The body of a method of a generic struct pushes no frame that the recursion limit counts
   (`src/semantic_anal.c:8401`; `spec_methods`).
9. The bodies of methods are checked with the source module of the statement before
   (`src/semantic_anal.c:14504`; `modules_methods`).

Seen while modelling and followed by the models, without a run of their own:

- two string literals that touch are taken from the text as they stand, the quotation marks
  between them included, and a comment between two literals ends the joined text early
  (`src/parser.c:225`, 240), unlike `src/parser.c:935`; `LiteralsAreReadBack` is about the
  others;
- an enum member whose value names a constant is refused, because enums are filled
  (`src/semantic_anal.c:14386`) before constants are declared (14440), and one that names a
  member of a later enum, which has none yet, unlike `docs/language.md:1031`;
- a variable whose initialiser specialises a generic function that reads the variable
  reaches the assertion at `src/semantic_anal.c:13518`;
- the files of a package may declare different modules, unlike `docs/language.md:58`;
- a package is looked for beside the importer, then in the standard library, then in the
  `-I` directories (`src/compiler_driver.c:342`);
- whether a global may be used before it is declared depends on whether an earlier,
  unrelated function has named it.

## Proofs

**OwnershipProof**, for every set of variables, of resources, of constructs and every
nesting bound.

- `TypeCorrect`, the types of the analyser's state, needs no assumption.
- `AnalysisIsSound`, `NonVoidReturns`, `UnreachableIsUnreached`, `DeferredStaysOwned`,
  `BackedgesAreSound` and `FlowIsWitnessed` assume `Plain`: no branching expression inside a
  return value and no deferred transfer, the constructs of findings 1 and 2.

The invariant says of every frame of the walk what the properties say of the current
point. `Sound(H, P, F)`: from any state the head's flow `H` allows, the paths `P` lead
only to states the flow `F` allows. `Safe(H, D)`: no head state that `H` allows is one
from which a use went wrong. `Dead`: a flow held unreachable has no path. `Keeps`: a
resource captured by an active defer keeps its flow state. The last is what makes the
late run of a deferred statement sound, and the loop rule - every backedge brings the
resources back to the flow of the head - is what makes one pass over a loop body
enough: `Sound` composes with itself around the backedge.

`FlowIsWitnessed` is the converse: whatever the flow allows a variable at a reachable point,
some path of the program brings the variable there with. It has one exception, and the
property states it: a deferred assignment runs at the end of its block, and the flow behind
the block does not record that it has initialised an ordinary variable. (With two frames
there is no room for a deferred assignment inside a block, so the instance alone would not
show it; the attempt to prove the property without the exception did.) `WitInv` says of every frame
that `Wit(H, P, F)`: each state `F` allows is met on `P` from a state `H` allows, or `P` has
passed a deferred assignment. Three facts carry it through composition. `Passes`: deferred
code leaves each variable as it is or initialises it, so running it keeps every witness.
`Lasting`: along whatever paths there are an ordinary variable that is initialised stays so,
so that an exception met before a loop is still one behind it. And the head of a loop is
reached by no iteration at all, which passes every variable on, so it keeps the witnesses of
the loop's entry, whose flow the analyser takes for that of the head.

**PoolProof**, for every capacity, element type and generation width.

- `PoolStructure`: types and `FreeListExact`, with no assumption; generations may wrap.
  The list that the links thread is a history sequence; each operation conses or
  uncons it. That `live_count` never goes below zero needs a counting argument (an
  injection of the free list into the slots other than the one being removed).
- `StaleForever` and `PoolRefinesContract` assume fewer releases than generations
  (`MaxReleases < MaxGeneration`; the code has 2^64 - 1). The invariant adds `Aged`: a
  slot's generation is at most one more than the number of releases, an issued handle
  has at most its slot's generation, and strictly less once the slot is free - so the
  next handle of that slot is new - and the one valid handle of a live slot was issued;
  and `Counted`: `live_count` is the number of valid handles. Without the assumption
  the theorems are false: a handle kept across 2^64 - 1 releases of its slot is valid
  again.

**LoweringProof**, for every bound on blocks, defers, nesting and cases, with and without a
result, from `LoweringAssumption` (the constants have their types).

- `BuilderIsInOrder` and `UnreachableIsNotReached` need nothing further.
- `LoweringDoesNotFail` assumes that no deferred block declares a local, the construct of
  finding 4; every other kind of defer is allowed, those that branch or never end included.

That no internal error happens is not inductive: it depends on which blocks are still
open, and those belong to constructs further out on the C stack. `BuildInv` says of the
whole function what the steps rely on.

- `GraphInOrder`: whatever is a target is a block, and never an `unreachable` one.
- `FramesInOrder`, `WaitingInOrder`: each block a frame of the stack will come back to
  (`Waits`: the merge block, the other branch, the cases to come) is empty and open, and
  belongs to that one frame; the analyser's reachability of the point behind the construct
  covers every jump there is to its merge block. This is where the two halves of the
  compiler meet: a merge block with a jump to it is one the analyser calls reachable.
- `LoopsInOrder`: break and continue targets are those of the innermost loop, and
  `has_break` in the lowering implies the analyser saw a break.
- `UnwindInOrder`: the `run_deferred_from` in progress stays within the pending defers.
- `RunInOrder`: an execution is in a block that some jump leads to.

Its second part adds what is registered. `DefersRunInOrder` and `JumpsKeepTheScope` assume
that every case body is a scope (`~BareCases`; finding 3 shows them false without).

`DeferInv` speaks of traces. The trace of a block lists what is registered before its first
and after each of its instructions (`TraceOf`). `BlocksInOrder`: every closed block has a
trace from its `entry` list to the list its targets begin with, and to the empty one where
it returns. While the function is lowered, `DefersInOrder` ties these lists to the
lowering's stack of pending defers: the open block reaches the list that is registered in
the source at this point (during an unwind, the part not yet run), and the blocks that wait
in a frame begin with the prefix of `deferred` the frame started with - which is what makes
a break, a continue and the end of the body agree about the block they meet in. When the
function runs, an execution runs along the trace of its block (`RunsAlong`), and both
theorems read off it.

**ArenaProof**, for every address space, word, header, default block, size and alignment,
from `ArenaAssumption`; wrap-around of addresses is in the model. `ArenaInv` is

- `ChainInOrder`: blocks fit the address space, are apart, and those behind the current
  one are empty;
- `RegionsInOrder`: what the client holds is aligned, apart, and in the used part of a block;
- `MarksInOrder`: what is older than a scope lies below its mark, so that a rewind spares
  it; older scopes keep less;
- `ScopesNest`: as long as the arena is not reset, the blocks in front of a mark are as
  they were when the scope began, those behind it were empty, and marks are ordered;
- `NothingLeaks`: the parent has lent the chain and the arena, nothing else.

`ArenaSafe` and `ArenaLeaksNothing` follow; `RewindIsExact`, about a step, needs `ScopesNest`,
and `ArenaRefinesAllocator` needs all of it: one lemma per action, which is a step of
`AllocatorContract` or a stutter. The refinement covers a reset inside a scope, after which
the older regions are gone and the rewind may take blocks back to a fuller state than they
have.

**DebugProof**, for every size of headers and guards, from `DebugAssumption`. `DebugInv`: the
blocks of the chain are apart, inside what malloc lent and shaped as `debug_allocate` lays
them out (`InOrder`); malloc has lent exactly the chain and the allocator's state
(`HeapAgrees`); the live counters are the length and the sum of the sizes, and errors
reported plus damage still lying in the chain are the wrong acts (`CountsAgree`).
`HeapIsKeptTo`, `ReportsAreRight` and `DebugRefinesAllocator` follow. The sums are recursive
functions; that they change by one term when a block is added, removed or altered is shown
by taking a least counterexample (`WFMin`), which needs no induction rule.

**SpecializationProof**, for every program and limit, from `LimitAssumption` and
`ProgramsAssumption`. `SpecInv`: what is marked `checking` is what the frames stand for,
each once; errors are never forgotten; while there is none, every use passed so far is in
the cache with its owner; the frames of a function or struct are within the limit.
`AcceptanceIsSound` is the half of `AcceptsWhatIsSound` that matters for a wrong program: an
accepted one has every specialisation it needs, checked to the end and without fault. The
other half (no good program is refused) speaks of the least fixed point of the uses and is
only model-checked. `FunctionsAndStructsAreBounded` leaves out methods: finding 8.

**SourcesProof**, for every disk and command line (`DiscoveryAssumption`) and for every text
(`TextsAssumption`).

`DiscoveryInv`: the imports the walk has passed are declared by a loaded file or all their
sources are loaded or next (`WalkedIsSettled`); a file that was added is one of the sources
of an import, the rest of which is loaded or next (`AddedIsWhole`); nothing added has the
identity of an earlier file (`AddedOnce`). The list grows while it is walked; what makes the
first conjunct inductive is that it only grows at the end.

`LexInv`: every token returned ends where the next scan begins, between two of them there is
nothing but blanks and comments (`Gap`), a token of digits has digits of its radix only
(`ConvertsIn`), and an operator is the longest of the table (`LongestIn`).
`IntegersAlwaysConvert` and `TokensAlwaysCoverTheText` follow. The scanner's loops are
recursive functions of the place in the text (`skip_whitespace_and_comments`,
`closing_quote`). TLAPS knows of such a function only that it is *some* solution of its equation if there is one;
that there is one, and what it is, is shown from the end of the text backwards by a least
counterexample.

**DeclarationsProof**, for every table of structs and every target (`LayoutAssumption`), and
every list of declarations (`DeclarationsAssumption`).

- `LayoutsAreDecidedRightly`, an equivalence: there is no error exactly if the table is sound.
  `LayoutInv`: the frames of a walk are a path of structs that hold each other
  (`PathInOrder`), what a frame has passed is finished or the frame above it
  (`PassedIsSettled`), and the finished structs hold only finished ones and none holds itself
  at any depth (`DoneIsAcyclic`); a struct is without a fault exactly if its fields, taken in
  order, are (`FieldsInOrder`). The converse half - an error is never reported for a sound
  table - is that a frame met again on the path closes a circle.
- `LayoutsAlwaysFit`: in an accepted table every layout the target gives has each member
  at its alignment with the least padding, and no number in it has wrapped. The layouts are
  computed in rounds, one per depth of nesting: an iteration (`Iterates`) in which each round
  knows at least what the one before did (`KnowsMore`), so what a struct was laid out with
  is what its members have in the end. The sum over the members is a recursive function
  again (`EndsInOrder`), and so are the powers of two: of two alignments the smaller divides
  the greater (`GreaterPower`), which is why the greatest one keeps every member aligned.
- `GlobalsAreDecidedRightly`: a program without variables, and without an enum that reads
  members it has not written, is accepted exactly if its constants are sound
  (`ConstantsAreSound`, what the language asks) and its enums name only enums of earlier
  statements (`EnumsAreInOrder`, what the code asks); whatever is accepted has every constant
  valued, every variable typed and no initialiser that needs itself. `GlobalsInv`: the declarations in
  progress wait for one another (`StackInOrder`), what is done is made of what is done
  (`DoneIsSound`), and a clean walk has passed only what is done (`UsesAreDone`). That the
  other half fails for variables is finding 7; the equivalence for enums is with what the code
  asks, and that the language asks less is listed with the findings.

**Only model-checked.**

- Termination (`CompilationTerminates`): liveness is out of the proof system's reach.
- `Parser` (`AcceptedIsBalanced`, `ErrorsAreReported`, `GroupedByPrecedence`,
  `StatementsStartFree`) and `Modules` (`InterfacesAreClosed`, `NamesAreDecided`): recursive
  operators over trees, scopes and types, in whose presence the prover has no SMT backend.
- `Arithmetic` (`FoldingIsExact`, `CCodeIsExact`, `LlvmCodeIsExact`): powers of two of symbolic
  width, and products, are beyond the solver.
- The precise half of `AcceptsWhatIsSound`: that no sound program is refused depends on how
  deep its instances nest; it is false when the limit is smaller than that.

## Not modelled

- Formatting and printing: the layout of the backends' text, diagnostics, AST and IR dumps.
- Calls into the LLVM API other than for scalar instructions, the classification of arguments
  by the C ABI, object files; file and process input and output, the native toolchain.
- Parsing of the command line; the compiler's own arena, which never frees.
- The fixed arena, `std.array`, `std.mem`, the wrappers of `std.heap`, `std.io`, and
  floating-point library code.
- Within the modelled components: variables declared in nested blocks and branching
  deferred blocks (`OwnershipFlow`; the flow slots allocated and truncated at
  `src/semantic_anal.c:775`); aggregates, calls and the types of instructions
  (`ControlLowering`); implicit conversions, inference of type arguments, packs; constant
  strings, arrays and structs; keywords as such (`Lexer`).

## Plan

In order; each becomes a module with its runs, or a proof.

1. `ScopeFlow`: flow slots allocated and truncated with scopes, and the symbols that
   refer to them.
2. `TypedLowering`: which operand types the analyser accepts for each expression, the
   instruction the lowering emits for it, and what the verifier asks of that
   instruction: every accepted expression verifies.
3. `FixedArena` and `Array` against `AllocatorContract`.
4. Proofs: `Modules` with the walk over exported types written as a recursive function; the
   precise half of `AcceptsWhatIsSound` for programs whose instances nest less deep than the
   limit.
