# A TLA+ model of R8

R8 (`src/`) is a JavaScript and WebAssembly engine in Rust. This directory holds
TLA+ models of the parts of it whose correctness depends on an order of steps:
the moving garbage collector, the event loop, promises, modules, hidden classes
with their caches, and workers; and of its three languages: JavaScript from the
text over the tree and the bytecode to what is printed, WebAssembly from the
bytes to what a call returns, and regular expressions from the pattern over the
program to the matches, each compared with a definition of what it means.
Each model is checked with TLC on a small instance; for the heap, the timers,
promises, modules, hidden classes, workers and the matcher of regular expressions
invariants are also proved with TLAPS, for every value of the constants.

Paths such as `heap/scavenger.rs` are under `src/src/`.

## 1. Inventory

One thread runs a `JsContext` (`runtime/context.rs`); values are `Rc<RefCell<..>>`
objects, so everything inside a context is sequential and "concurrency" means
re-entrancy: callbacks, handlers, getters and module bodies that call back into
the component that is calling them. Real threads exist in two places: a worker
(`execution/worker.rs`) and the concurrent sweeper (`heap/mark_sweep.rs`), to
which one may add the inspector's server.

| Component | State it keeps | Operations | What is hard | What makes it correct |
|---|---|---|---|---|
| heap (`heap/`) | two semi-spaces, old space with free list, store buffer, handle scopes, global roots | allocate, references, roots, handles, scopes, `minor_gc`, `major_gc`, `major_gc_concurrent` | objects move while ids are kept in four places; slots are recycled; a sweeper thread | every root and reference names the object it named before; no slot given twice; collections end |
| timers (`execution/timer_queue.rs`) | Vec of timers, virtual clock | set, clear, `run_until`, `run_all` | callbacks set and clear timers, their own included; saturation of the clock; iteration caps | firing in order, at its time, once per period, never after it was cleared; every run ends |
| microtasks (`execution/microtask_queue.rs`) | queue, thread-local current queue | enqueue, `run_microtasks` | re-entered by `await`; missing in a module | every task once, in order; the queue is drained |
| promises (`builtins/promise.rs`, `await` in `interpreter/interpreter.rs`) | state, result, two reaction lists as hidden properties | constructor, resolve, reject, then, catch, finally, combinators, await | adoption of promises and thenables, settling twice, reactions to settled promises | settled once; each reaction once, in order; adoption |
| modules (`runtime/module.rs`) | registry of records, status, exports | register, link and evaluate, dynamic import | recursion through imports, cycles, errors half-way, re-registration | dependencies first; each body once; a final status |
| workers (`execution/worker.rs`) | two channels, thread handle | post, receive, terminate, drop | two threads, early messages, a dropped sender, a panic | order, no loss, `terminate` flushes and returns |
| realms, context, process (`runtime/`) | globals, realm registry | eval, eval in a realm | the registry is borrowed while code runs | a realm's globals stay its own |
| values and shapes (`objects/`) | hidden classes with transitions, slots, dictionary mode, a pool of recycled objects | get, set, delete, define, set the prototype | shared classes; recycled objects | a property read gives what was last written |
| inline caches (`ic/`, `objects/feedback_vector.rs`, the caches of `interpreter/bytecode_array.rs`) | per-instruction class, slot and prototype method | hit, miss, update | stale entries after a class, prototype or global changes | a hit answers what the slow path would |
| code generator (`interpreter/bytecode_generator.rs`) | registers in use, loops, hoisted literals, a cached callee | compile | operands kept in registers, jumps in one byte, three copies of a finally block | the meaning of the tree |
| interpreter (`interpreter/`) | frames, registers, handlers | some 200 bytecodes | unwinding, finally, generators | the meaning of the source |
| generators, iterator helpers | suspended frame, state | next, return, throw | re-entry, resumption after completion | each body position once |
| parser (`parsing/`, `ast/`) | token stream | parse | precedence, automatic semicolons | the tree of the grammar |
| compiler (`compiler/`) | graph, tiers | build, optimise, OSR | rewriting shared nodes | same results as the interpreter |
| regexp (`regexp/`, `builtins/regexp.rs`, the searches of `builtins/string.rs`) | program; backtrack points, registers, lookaround frames; `lastIndex` | parse, compile, match; `exec`, `match`, `matchAll`, `replace`, `replaceAll`, `search`, `split` | what a failed attempt leaves behind; matches that take nothing; a `lastIndex` of another subject | the match the pattern means; matches in order; every loop ends |
| WebAssembly (`wasm/`) | modules, instances, memory, tables, value and label stacks | decode, instantiate, call | structured control, bounds, traps | the Wasm semantics |
| inspector (`inspector/`) | sessions, breakpoints, a server thread | commands, pause, resume | requests from another thread | a reply for each command |
| snapshot (`snapshot/`) | byte stream | serialise, deserialise | shared and cyclic objects | a round trip |
| disposable stacks, streams, events, collections, weak references (`builtins/`) | entries, readers, listeners, entries of a Map | dispose, read, cancel, iterate | callbacks that change what is iterated; errors in between | order, each once |
| typed arrays, shared buffers, Atomics, platform locks | bytes | loads, stores, RMW | a lock taken twice for one RMW; no buffer is ever shared with a thread, however | each operation its own effect |
| other builtins, containers, C API, shells | - | conversions, formatting, I/O | - | unit and differential tests |

Interactions: `JsContext::eval` sets the current microtask queue and drains it;
`TimerQueue::run_until` calls callbacks and a microtask checkpoint after each;
promise reactions are microtasks; `await` runs the queue on the stack of the
code that awaits; a module body is evaluated by the interpreter and may import
dynamically; a worker owns a context of its own and talks through two channels.
The managed heap of `heap/` stands beside the `Rc` object graph: nothing in the
interpreter allocates in it, its clients are its API and its tests.

## 2. Modules

| Module | Models | Composes |
|---|---|---|
| `HeapState` | spaces, ids, store buffer, the frame of a collection | |
| `Scavenger` | `Scavenger::collect`, one action per loop iteration | extends `HeapState` |
| `MarkSweep` | `MarkSweepCollector::collect` and `collect_concurrent` with its thread | extends `HeapState` |
| `Heap` | the API of `Heap`, interleaved with collections | extends both |
| `HeapProofs` | theorems on `Heap`: types, free list, scopes, the room in to-space, what marking reaches | |
| `HeapSafetyProofs` | that roots and references follow their objects | extends `HeapProofs` |
| `TimerQueue` | timers, event loop, checkpoints | |
| `TimerProofs` | theorems on `TimerQueue` | |
| `Promises` | promises, microtasks and await on one stack | |
| `PromisesProofs` | theorems on `Promises` | |
| `ModuleLoader` | registration, linking, evaluation, dynamic import | |
| `LoaderProofs` | theorems on `ModuleLoader` | |
| `Shapes` | hidden classes, plain objects, the interpreter's caches and literals | |
| `ShapesProofs` | theorems on `Shapes` | |
| `Mailbox` | the abstract promise of a worker | |
| `Worker` | the owner and the worker's thread | implements `Mailbox` |
| `WorkerProofs` | theorems on `Worker` | |
| `WasmBinary` | the reader of binaries: numbers, constant expressions, sections | |
| `WasmData` | the instructions without control, memories, globals, objects | extends `WasmBinary` |
| `Wasm` | instantiation, and the stack machine with its frames and calls | extends `WasmData` |
| `WasmReference` | programs as trees, their binary form and their meaning | extends `Wasm` |
| `Ast` | expressions and statements | |
| `Scanner`, `Parser` | where tokens begin and end; the tree of a text | extend `Ast` |
| `Bytecode` | instructions, registers and their widths | extends `Ast` |
| `BytecodeGenerator` | from trees to bytecode | extends `Bytecode` |
| `Values` | conversions, operators, objects as the machine uses them | extends `Ast` |
| `SmiLoop` | the machine's paths for loops and recursions on integers | extends both |
| `Interpreter` | the machine: frames, calls, generators, iterators, handlers | extends `SmiLoop`, uses `Parser` and `BytecodeGenerator` |
| `ScriptMeaning` | what a tree means, by recursion over it | extends `Values` |
| `Scripts`, `Sources`, `Writer` | the programs that are run: trees, texts, and the text of a tree | |
| `RegExpAst` | the trees of patterns, classes of characters | |
| `RegExpParser`, `RegExpCompiler` | from the text of a pattern to its tree, and to its program | extend `RegExpAst` |
| `RegExpMachine` | the backtracking machine, and the methods that search with it | extends `RegExpAst` |
| `RegExpMeaning` | which matches a tree has, the preferred one first | extends `RegExpAst` |
| `RegExpProofs` | theorems on `RegExpMachine` | |

`MCx` modules say which programs or values TLC is started on; where a `.cfg` says it
all a run takes the module itself.

### How they correspond to the code

`PROJECT.json` names, for each definition, the lines it stands for. In words:

**HeapState, Scavenger, MarkSweep, Heap** (`heap/`). An id is `HeapId`: a space,
an index and a generation; the semi-spaces are sequences with a generation, the
old space a sequence of slots and a free list, as in `spaces.rs`. The content of
an object is its references, its color, its age and a payload that stands for
its identity. A mutator step is one call of the API (`Allocate`, `SetRefs`,
`WriteBarrier`, `DropReference`, roots, handles, scopes); a collection is a
sequence of steps, one per iteration of the loops of `scavenger.rs` and
`mark_sweep.rs` (roots, store buffer, Cheney scan, updating of handles and
roots, marking, sweeping, retaining of the store buffer), with `pc` for the
place in the function. Loops over a `HashMap` or `HashSet` take their elements
in any order. The concurrent sweep is the join of the thread's list of dead
slots with the free list.

**TimerQueue** (`execution/timer_queue.rs`, `microtask_queue.rs`, the entry points
of `runtime/context.rs`). `timers` is the `Vec`, in order. `CallTimer` is one
iteration of `run_until` up to the callback: retain, choose, remove, advance the
clock. The callback is any number of `SetTimeout`, `SetInterval`, `ClearTimer`
and `QueueMicrotask`; then come the checkpoint and `Reschedule`. Times saturate
at `MaxClock` as the code's do at `u64::MAX`, and a run stops after
`MaxIterations`, a checkpoint after `MicrotaskLimit` tasks.

**Promises** (`builtins/promise.rs`, `microtask_queue.rs`, `await` at
`interpreter/interpreter.rs:5445`). A promise is its state, its result and its
two lists of reactions. R8 has no suspended functions: `await` runs the queue on
top of the code that awaits. So the model has one stack of scripts, tasks,
handlers, thenables' calls and awaits, and any frame of user code may create,
resolve, reject, chain and await. `held` are the resolving functions user code
can still call, which is how a promise comes to be settled twice. In a script
evaluated as a module there is no current queue and reactions are stored without
a check; there values are restricted to plain ones. Combinators and
`Microtask::Custom` are left out.

**ModuleLoader** (`runtime/module.rs`). One frame per call of
`link_and_evaluate_module`, first linking its imports one by one, then running
its body, which may import dynamically and may throw. Specifiers may be
registered again at any time. Imports may form cycles; the native stack has room
for `MaxDepth` calls, and `Overflow` is the call for which there is none. Binding
values are not modelled, only from which record an import is read.

**Shapes** (`objects/map.rs`, `objects/js_object.rs`, the handlers of named
properties and literals in `interpreter/interpreter.rs`, the caches of
`interpreter/bytecode_array.rs`, `Object.create` and `Object.setPrototypeOf`). A
map is named by its address because the caches compare addresses and hold no
reference. `held` are the addresses that something refers to (`Rc`): a map is freed
with its last reference, and the next one may be put where it was. A cache is a
function from instructions to entries; the history `dangling` has the entries whose
map was freed since they were written, and `misled` is true from the first store that
hits one of them, where the behaviour ends. `Store` has three disjuncts, one per fast
path of `StaNamedProperty` and one for the slow path; `BeginLiteral` is
`CreateEmptyObjectLiteral` with its scan ahead. Accessors, exotic objects and
attributes are left out; code that would not return, on a cyclic chain of
prototypes, is a disabled action.

**WasmBinary, WasmData, Wasm, WasmReference** (`wasm/binary_parser.rs`,
`instance.rs`, `interpreter.rs`). The binary is a sequence of bytes and is really
read: LEB128 numbers, sections, expressions. The machine keeps what the code
keeps, a position, control frames made at run time, operands and locals per
activation, and finds the end of a block as the code does, by scanning forward
over opcodes and the immediates it knows. One opcode stands for each class of
numeric instructions, a memory is made of cells of one value, a word has `Width`
bits and the vectors two lanes; where an operand is no vector its lanes are read as
zeros. A data segment at a negative offset wraps around as the cast does, and is
skipped or panics. `WasmReference` defines a program as a tree, its
binary form, and its meaning by recursion, with a signal for each way out of a
block; there are no frames and no scan in it.

**Ast, Scanner, Parser** (`ast/`, `parsing/`). A text is a sequence of pieces; a
word or a run of digits is one of them. A parser is a record of the scanner's
place and the token, the functions hoisted out of expressions, the names made up
and the private names in scope; it is passed on as the code's is changed. That
a second reading of a parenthesis takes the scanner back but not the hoisted
functions, that `using` becomes a `try`, patterns and defaults declarations, and
`++` an assignment, is all there. Numbers in other forms than digits, and escapes
that give a character by its code, are not, and neither are positions.

**Bytecode, BytecodeGenerator** (`interpreter/bytecode_generator.rs`,
`bytecode_array.rs`, `bytecode_register.rs`). Code is a sequence of instructions
with their operands; jumps keep the target, and `JumpsFit` says that the distance
in bytes is one the code can write down. A generator is the record the Rust struct
is: registers in use, loops, hoisted literals, the callee cached for the next call,
finally blocks. Each `Compile...` is one arm of `compile_statement` or
`compile_expression`, in its order of emitting, allocating and freeing.

**Values, SmiLoop, Interpreter** (`objects/value.rs`, `objects/js_object.rs`,
`objects/generator.rs`, `interpreter/interpreter.rs`, `Context::eval`). One action
for each group of instructions that do the same to frame and heap. Calls push a
frame, `Give` and `Fail` say what a return and an error do to the frames below,
a generator keeps its frame in the heap between two steps. `SmiLoop` is the part
of `JumpLoop` that decodes a loop into operations on integers, runs it and writes
the registers back, and the recursion that is run without frames. A string is a
sequence of atoms, a number an integer or NaN.

**ScriptMeaning** is the abstract specification of all of it: evaluation by
recursion over the tree, with completions for the ways out.

**RegExpAst, RegExpParser, RegExpCompiler, RegExpMachine** (`regexp/`,
`builtins/regexp.rs`, `builtins/string.rs`). The parser is passed on as a record of
its place in the text and the number of groups, the program is a sequence of
instructions whose jumps are patched as the code patches them. One action of the
machine is one instruction: it goes on, or fails and takes back the last backtrack
point, with the registers and the depth of lookarounds it saved; an attempt that
is out of points is followed by one at the next place. `Exec` and `Loop` begin a call
of a method, `LoopGoesOn` and `SplitGoesOn` are an iteration of its loop in
`string.rs`, with the move of the cursor behind a match that took nothing. A
character is its place in an alphabet in which ranges keep their order. The
`lastIndex` of the object outlives calls, and scripts set it. **RegExpMeaning** gives
the sequence of all matches of a tree at a place, in the order in which ECMAScript
prefers them, by recursion over the tree; there is no program and no backtracking.

**Worker, Mailbox** (`execution/worker.rs`). The owner and the worker's thread
interleave freely; `inbox` and `outbox` are the two channels. A script of the
worker is any number of assignments of `onmessage` and of replies, or a panic.
`WorkerCommand::Execute`, which nothing sends, is left out.

## 3. What the runs check

Every run is a module with the `.cfg` of its name. A bound that is not a
limit of the code itself is marked "bound" where its constant is declared.

| Run | Instance | Shows |
|---|---|---|
| `Heap` | nursery of 2, 3 objects, a reference, 2 collections, a global root, a handle, a scope | `ToSpaceSuffices`, `GlobalRootsFollow`, `NurseryEdgesIntact`, `MarksReachable`, `FreeListOK` |
| `HeapRemembered` | 2 objects, 2 collections | `RememberedSetComplete` is false |
| `Timers` | 3 timers, delays 0 and 1, clock to 3, runs of 4 iterations, checkpoints of 2 | `ScheduledOnce`, `FiresInOrder`, `ClearedStaysQuiet`; `RunEnds` |
| `Promises` | 3 promises, 5 calls of the API, a script | `ReactionOwed`, `AdoptionFollows`, `SettledOnce`, `ThenOrder`; `CheckpointEnds` |
| `PromisesModule` | 2 promises, 3 calls, a module | `SettledOnce` is false without a queue |
| `Modules` | 3 specifiers, 2 imports each, cycles through the first, 3 records, 2 dynamic imports, a stack of 7 calls | `ImportsReady`, `EvaluatedOnce`; `LoadEnds` |
| `Shapes` | 2 names, 2 objects, 3 addresses, a pool of 1 | `OwnLoadsRight`, `StoresLand` |
| `Workers` | 4 messages, 4 replies | `InOrder`, `TerminateFlushes`, `EarlyMessagesKept`, the refinement `Delivers`; `NoWaitForEver` |
| `Wasm` | 1,200 programs, called twice, and every beginning of one binary | `FollowsText` (`NestingMatches` and `HaltsAsReference`), `CutsRefused` |
| `WasmScan` | one program | `HaltsAsReference` is false when an immediate looks like an opcode |
| `Bytecode` | 286 scripts, 75 operators nested in operators, 24 scripts written by hand, 32 texts that are refused, 14 texts with their trees | `ParsesAsWritten`, `RunsAsMeant` |
| `RegExp` | 723 patterns, each called once on one of 10 subjects, with or without a `lastIndex` | `MatchesAsReference`, `MatchesInOrder`, `LoopsProgress`; `CursorAdvances` |

Each module's `TypeOK` is checked along.

Why the bounds are enough. In the heap, three objects in a nursery of two reach
allocation in a full nursery, survival, promotion (after two scavenges) and a
slot used again; a second collection is the one that begins when both semi-spaces
carry the same generation. More roots, references and collections are
what the theorems are for, which hold of all of them. Among three timers there are two with equal
targets and a third that their callbacks set or clear, and four iterations let an
interval come round and exceed the limit. Three promises make a chain of adoption
or a parent with two children; five calls create, chain and settle them. Three
specifiers make a diamond of static and dynamic imports; a record beyond the
number of specifiers is not needed to register one again after another failed. One
specifier that may import itself or what imports it makes cycles of every length up
to three, and the room of seven calls is more than any graph without a cycle takes:
only a cycle overflows the stack.
Three addresses hold the whole chain of the literal, or the root of all maps and two
that are freed and given again, to a copy, a dictionary or a map with other names;
with two names and two objects every cache sees two layouts of the same names. The
addresses but the root's are interchangeable (`SYMMETRY`), and what is left in freed
memory is not looked at (`VIEW`). The value stored under a name depends on the name, so
that the wrong slot shows. Four messages are more than the worker can hold in
hand and in the channel in any state that matters, and `Worker` is proved for
all numbers. The programs of `Wasm` are every block, loop, conditional and handler
around every branch of three levels, calls of every kind to the limit of depth,
and lines of straight code at the edges of memory and of the word. Those of
`Bytecode` are families too: every way out (break, continue, return, throw, with
and without a label) of every construct that can hold it, two deep, but for a try
with a finally, out of which none returns or breaks; every operator
on every pair of kinds of operands, constant, local, global and computed; data and
its aliases; calls, spread, rest and default parameters; generators resumed by one
another; loops the integer path takes and loops just outside of it. A script
ends within `MaxSteps` instructions, which stands for termination: it is a bound
far above what the longest of them needs, and a script that never ends meets it.
The patterns of `RegExp` are every kind of node, every quantifier, greedy and lazy,
over bodies with choices, captures and nothing in them, two nodes in a row or side
by side, texts with classes, names and braces of every form, and all flags. The
subjects are short, but hold each situation a node asks about (a line's end, a
word's end, both cases, one repetition too many) and every search of a loop begins
elsewhere in them. One call is enough as only `lastIndex` outlives it, and
that is set to every value that matters before.

`CHECK_DEADLOCK FALSE` stands where a bound on the client's calls, objects or
scripts ends the behaviour, and for workers that have ended.

**Fairness.** `FairSpec` asks weak fairness of the engine's own steps and never of
the client. In the event loop, the promises and the loader these are
the iterations of synchronous loops on one thread: the thread runs until the call
returns, and the callbacks, handlers and bodies it calls are assumed to return.
For the worker it is the scheduling of two OS threads: the command loop of the
worker, and the `join` of the owner.

### Disagreements found

| Run | The code | Says otherwise |
|---|---|---|
| `HeapRemembered` | `evacuate_object` promotes an object and records none of its references to objects that stay young (`heap/scavenger.rs:142`); the next scavenge does not see them | `heap/store_buffer.rs:3`, "Tracks Old-to-Young references across generations" |
| `PromisesModule` | without a current queue the resolving functions store whatever they are given (`builtins/promise.rs:759`) | `builtins/promise.rs:3` and 145 |
| `WasmScan` | the scan of a branch for the end of its block knows the immediates of few opcodes (`wasm/interpreter.rs:486`): an alignment or an index that equals the byte of `block`, `loop` or `if` is counted as one | the comment at line 478, "Scan forward to matching end of target block" |

Other observations made on the way, kept without a run:

In the runtime:

- A running interval is not in the list of timers, so clearing it from its own
  callback marks nothing (`execution/timer_queue.rs:182`; the comment at line 179
  and `tests/differential_tests.rs:4894` expect it). `ClearedStaysQuiet` is about
  clearing by anyone else.
- A run of the timers that gives up at its limit of iterations still sets the clock
  to the time it was to reach, past the timers that are due
  (`execution/timer_queue.rs:128`).
- Marking and the tables of references look slots up without the generation
  (`heap/mark_sweep.rs:54`), so that a stale id marks what is in its slot now.
  `MarksReachable` reads references in the same way and does not tell.
- A module being linked is not noticed when it is imported again
  (`runtime/module.rs:130`), so "Circular dependency detected" of line 131 is only
  said of a module whose body runs: imports that form a cycle recurse until the native
  stack is used up. `LoadEnds` allows that for a cycle and for nothing else.
- Caches keep the address of a map but not the map (`interpreter/interpreter.rs:2976`,
  2986): an entry of a freed map is taken for a new one at its address. The steps: a
  load or store makes its entry for a map that one object alone holds, such as the
  copy of `Object.setPrototypeOf`; the object gets another map and the copy is freed;
  the next map, a dictionary for instance, is put at its address; and the same
  instruction takes it for the old one, and answers with a method of the prototype or
  adds a property in spite of it.
  `OwnLoadsRight` and `StoresLand` make an exception of accesses through such an
  entry (`Misread`, `misled`); that nothing else goes wrong is what they say, and with
  the exception removed each is violated in the run.
- `heap/scavenger.rs:83`: after the first flip both semi-spaces carry the same
  generation, an id of one can equal an id of the other, and the loop that updates
  the handles can forward a handle twice. `HandlesFollow` in `Heap` states what is
  lost; it is false in the second scavenge.
- `heap/scavenger.rs:99`: `remove_reference` leaves the entry of the store buffer,
  and the next scavenge adds the reference back.
- `run_all` runs to the latest target known when it is called
  (`execution/timer_queue.rs:210`): timers its callbacks set beyond stay.
- A promise resolved with a pending one stays open to a second `resolve`
  (`builtins/promise.rs:96`).
- `import * as ns` of a registered module panics (`runtime/module.rs:190` borrows
  mutably what line 187 has borrowed); `LoadEnds` allows for it.
- At 100,000 microtasks a checkpoint loses the task it has popped
  (`microtask_queue.rs:117`).
- `o.__proto__ = p` writes the prototype of the map o shares with others; for
  `({}).__proto__ = p` it is the root map of every literal
  (`interpreter/interpreter.rs:3004`; `Object.setPrototypeOf` copies the map first).
- The copy `setPrototypeOf` makes keeps the transitions, and their targets the old
  prototype: the next property with a known name takes the object back to it
  (`builtins/object.rs:564`).
- The cache of prototype methods is not told of a new method of the prototype
  (`interpreter/interpreter.rs:2598`). `OwnLoadsRight` is about own properties.
- A worker runs `onmessage` without a microtask checkpoint
  (`execution/worker.rs:60`).

In regular expressions (`regexp/interpreter.rs` unless named; the meaning is that of
ECMAScript, and the patterns of the run keep clear of the first four; the machine and
the parser of the model follow the code in these and in the rest):

- The guard against repetitions that take nothing remembers one point
  (`last_push_state`, 330), and an inner loop puts its own there: `/(?:a*)*/` pushes
  the two in turns and never ends. Bodies that sometimes take nothing are for this
  reason not repeated in the run; `LoopsProgress` is what the guard is for.
- The backtrack points of a lookahead stay when it has matched. One that is resumed
  later finds its frame gone (375, 497), and the end of the lookahead does not
  restore the position: `/(?=a|ab)c/` matches "abc" at 0. The run has lookaheads
  with one way to match.
- A negative lookahead holds as soon as its first alternative fails (467), and one
  inside another is not told from it.
- A lookbehind is run forward from where it stands, and captures are not reset
  between the iterations of a loop: the run has no lookbehinds, and its loops set
  their captures each time or have none.
- `\2` in a pattern without a second group reads a register that is not there and
  panics (263); the mode `panicked` stands for that.
- `[]` and `[^]` take the `]` as the first character (`parser.rs:282`), and `[\W]`
  has the ranges of `\w` (`parser.rs:332`).
- A match that takes nothing behind one that does is found twice: the loops move on
  only if the match ends at the cursor, so `"ab".replace(/$/g, "x")` is "abxx"
  (`builtins/string.rs:578`); `split` with such matches gives empty ends. `MatchesInOrder`
  therefore lets two matches begin at one place, and three never.
- `replaceAll` keeps the regular expression borrowed while it calls back
  (`builtins/string.rs:668`): a callback that uses it panics.

In WebAssembly (`wasm/interpreter.rs` unless named; the programs keep clear of these):

- The scan for an end skips no immediates of `br_table`, `call_indirect`, loads,
  stores, `memory.size`, the prefixed opcodes, `throw` or `try_table`; the scan of
  `if` for its `else` does not count `try_table` but counts its `end`.
- An exception thrown in a callee does not reach a `try_table` of the caller.
- A constant expression ends at the first byte 11, so `i32.const 11` is 0.
- A negative i32 used as an index of `memory.fill`, `memory.copy` or `array.new` is
  a number near 2^64, and adding a length to it overflows.
- A data segment that does not fit is skipped without an error, and one at a negative
  offset that reaches beyond 2^64 panics (`instance.rs:444`).
- The results of a call are padded to the arity of the function it names, also when a
  tail call has put another in its place (757).

In the language (`parsing/`; the texts keep clear of these):

- `for (x in o)` without a declaration is a syntax error: the expression takes the
  `in` (`parser.rs:624`). There is no comma operator.
- A line's end is recorded and never read: `return` and a value on the next line
  is one statement, and a semicolon may be missing anywhere, even in `a b`.
- `++o.x` and `++a[k]` mean `(++o).x` and `(++a)[k]` (`parser.rs:2232`); `i++` is the
  new value, and `o.x++` evaluates `o` twice.
- `using` is not rewritten in function expressions, arrows, methods of classes and
  static blocks; a nested parenthesis is parsed twice per level.
- `{'#x': 1}` is refused, and a private name is accepted where a name may stand.

In the code generator (`interpreter/bytecode_generator.rs`; the scripts keep clear):

- A `return` in a catch block, and a `break` or `continue` out of a try statement,
  leave without the finally block (738-800); leaving a `for-of` does not close the
  iterator.
- Sides are swapped or read late when the other side changes them in a way
  `expr_mutates_var` does not see, a nested assignment for one (2134); targets of
  properties and callees in locals are read when the value is already computed.
- The callee cached for the next call is not forgotten between the branches of
  `?:`, `&&` and `||` (84).
- Jumps over more than 127 bytes go elsewhere (`bytecode_array.rs:1121`); a function
  with no `return` gives its last value; `finish` compares the last byte, which may
  be an operand, with the opcode of Return (1991). The model knows `LdaSmi 94`; that a
  jump, constant or argument count of 94 does the same is left out. The machine
  returns the accumulator behind the last byte all the same.

In the machine (`interpreter/interpreter.rs`):

- A loop on integers with two arrays reads the last one for both; a register that
  is no integer is read as 0, and so is what lies behind the end of an array; the
  limit is taken once; a modulus of 0 is skipped (288 and 4367-5384).
- The recursion that runs without frames does not check that the function calls
  itself (`bytecode_array.rs:296`).
- A thrown value becomes a string on its way through a call; a generator that threw
  stays Executing; a rest parameter is made again when its generator goes on.

## 4. What is proved

**HeapProofs**, for every capacity, tenuring age and number of objects, handles
and collections: `TypeCorrect` (`TypeOK` with `Frames`), `FreeListCorrect`
(`Spec => []FreeListOK`, the property of `Heap`) and `ScopesCorrect` (the marks of the open scopes are
nested and within the handles). They follow from one invariant,
`Inv == TypeOK /\ FreeListOK /\ ScopesNested /\ Frames /\ Phases`. `Frames` says that the
ids a collection still waits for find their objects, and `Phases` which parts of a
collection's frame belong to which `pc` and that the slots the sweeper's thread has
found dead stay occupied until they are freed: without it freeing them could list
a slot twice. `FreeListOK` is inductive
only together with the type of the old space: `PlaceOld` takes the last entry of
the free list, and that it was there once and its slot empty is what makes the
rest of the list right. The proof of a step has one case per action, of which the
many that leave the old space alone are dismissed together.

Two more theorems need invariants of their own, `ToSpaceCorrect` and `MarkingCorrect`. That the
to-space suffices is a matter of counting: the slots of the to-space are copies of
distinct slots of the from-space, those evacuated already (`Room`), and as long as
one is to be evacuated fewer are taken than the from-space has, which is not more
than the capacity. That an id can look like one of either semi-space is what makes
this worth a proof: a slot counts as evacuated when the forwarding map has it, whatever
generation it carries. Marking needs the tricolor invariant (`Tricolor`): what is not
white is reachable; what is grey is on the worklist; a black object refers to
nothing white, except the one just popped, whose references are still being visited;
the roots not yet marked are still to come. `Reachable` is defined as the least
closed set of objects, not by recursion: at the end the marked objects are closed,
so that they hold the least such set, and each is in every closed set.

**HeapSafetyProofs**, for the same: `FollowInvariance`, and from it
`GlobalRootsCorrect` and `NurseryEdgesCorrect`. Between collections both properties
are plain; in the middle of a scavenge some roots are forwarded and some not, some
copies are scanned and some hold references of before, and the forwarding map is
the only witness of which is which. `Follow` has a part for each place where an id
is kept: `RootsFollow` and `RootsMoved` for the roots, `EdgesFollow` and `CopiesFollow` for
objects of from-space and the copies in to-space and old space, `MapFollows` that
a forwarded id leads to an object with the payload it had, `ScanOnce` that the
Cheney scan meets each copy with its references of before, once, `OneEach` that
payloads are not shared, `EdgesKnown`, and `SweepSpares` that a sweep frees only
what no root and no young object leads to, which rests on `MarkingCorrect`. It was
checked by TLC on an instance with three objects (805,031 states) before it was
proved. References of old objects are not in it: those the model shows to be lost
(`HeapRemembered`).

**ShapesProofs**, for any names, instructions, objects, addresses and depths of the
pool: `ShapesTypeCorrect`, `StoresLandCorrect` and `OwnLoadsCorrect`, and the invariant
they follow from, `ShapesInvariance`. Nothing is assumed of the allocator: an address
may be given again as soon as its map is freed. `Sound` says of the maps that are held
(`Tree`) that each has a name once and that a transition leads to a held map with
that one name more; of the objects that they have a slot per field of their map,
or are dictionaries; of the pool that its objects have had a map; and of each kind of
cache (`CachesRight`) that an entry that does not dangle is of a held map and true of
it: the slot is that of the field, the target has one name more, the name is not its
own. The target of a transition is held in any case, since the cache has a reference
to it. A step is proved in two halves: `After`, that what it leaves is right for all
maps known before anything is freed, and that freeing what nothing refers to
takes away no map that the rest needs. No known map changes its names (`Grows`), so
entries stay true until their map is freed, and then they dangle.
`HistoryRight` makes `StoresLand` itself part of the invariant. A store that hits a
dangling entry ends what can be said: then only the types are left. The chain of
prototypes and the slots a run of transitions adds are
recursive functions; what is needed of them is proved by well-founded induction on
the least number at which it fails.

**TimerProofs**, for all delays, clocks, limits and numbers of timers:
`TimerTypeCorrect`, `ScheduledOnceCorrect`, `FiresInOrderCorrect` and
`ClearedStaysQuietCorrect`, the four safety properties of `Timers`. The invariant
is `TypeOK /\ Listed(timers) /\ Turn /\ Past`. `FiresInOrder` needs three things
that it does not say itself: `Past`, that the timer called last is not after the
clock, so that what is set now cannot be due before it; `Ordered`, that a timeout
stands behind all timers that were set before it (intervals, pushed again, need
not); and that the entry chosen is the first with its target, so that the timeouts
behind it are younger. `Hushed` says that a timer that was cleared is cancelled, or
was cleared in its own turn: it is what `ClearedStaysQuiet` needs of the list that
is left when the cancelled ones are removed. `retain` is therefore written out in
the model by the places of the timers it keeps, and the two lemmas on lists say
that it, and `remove`, keep the order. The only thing asked of the constants beyond
their types is a clock that can show 1, the least interval.

**PromisesProofs**, for any number of promises, calls, reactions and frames:
`PromisesTypeCorrect`, for scripts and modules, and `SettledOnceCorrect` for what
`Context::eval` runs (`ScriptKinds = {"eval"}`; `PromisesModule` shows it false of
modules). The invariant speaks of worlds: in a world of n promises every reaction,
task, frame and held function names one of the n, a promise is pending just when it
has no result, and a reaction that resolves names whom. Each function of the model
takes a world to a world with at least as many promises, and, when there is a
current queue, keeps the state and result of what was settled; `Queued`, that code
runs only with a current queue, carries the latter through. `ValueAssumption`
says that the model values for values that are no promise are none, and that the
one with a `then` is none of those without.

With a queue, `ReactionOwedCorrect`, `AdoptionFollowsCorrect` and
`ThenOrderCorrect` follow from `Right`, an invariant of a world, of whose child each
promise is and of the children that reacted. `Owes`: a pending promise has in both
its lists one reaction for each of its children, in the order in which `then`
created them; a settled one has empty lists, and each of its children either has a
task in the queue, once, behind the tasks of its older siblings, or has reacted,
after them. So nothing is counted in the proof of the steps, the order does it:
two reactions for one child would have to be one before the other. Settling hands a
list over to the end of the queue, and there the children of one promise cannot mix
with earlier ones, as a pending promise has none there. `Passes`: whoever was
resolved with a pending promise has a reaction to fulfilment and one to rejection
there, and whoever was resolved with a settled one is settled, or a task in the queue
tells him; while that task is between queue and handler he is the `late` one. It
needs that a promise settles only with what is neither promise nor thenable
(`Final`), since a task that resolved him with another thenable would leave him
pending. Given `Owes` and `Passes` as invariants of the run `Promises`, TLC finds them
true of its 756,272 states.

**LoaderProofs**, for any number of specifiers, imports, records and dynamic
imports, cyclic graphs included: `LoaderTypeCorrect`, `EvaluatedOnceCorrect` and `ImportsReadyCorrect`.
The obvious invariant, one call per record, is false: a module being linked may be
entered again by an `import()` in the body of one of its imports. What holds is
`NeverAhead`: the second call of a module links too and has not got past the
import the first one waits for, since that import, or one it waits for itself, is
Evaluating and answers with an error. So the second call fails before it can reach
the body, and `EvaluatedOnce` follows; `Answered` (what lies behind a call's position was
evaluated) gives `ImportsReady`.

**WorkerProofs**, for any number of messages and replies: `WorkerTypeCorrect`,
`ChannelsCorrect` (`InOrder`), `TerminateCorrect` (`TerminateFlushes`), `EarlyMessagesCorrect` (`EarlyMessagesKept`) and
`WorkerDelivers`, that `Worker` implements `Mailbox`. `WorkerTypeCorrect` is about types
alone; that no command or reply appears that was not sent is in `ChannelsCorrect` and
`WorkerDelivers`. The invariant adds to the
channels' order `Handle` (who may still join or post) and `NothingLeft` (an ended
worker that did not panic took everything accepted); the refinement takes them to
show that `End` happens with `handled = posted`. `EarlyMessagesKept` is inductive
with the fact that an idle worker whose script set `onmessage` still has it. The
theorems on the channels say for all lengths what TLC sees for four.

**RegExpProofs**, for every program of the compiler's form (`WellFormed`: jumps and
registers that exist, `Succeed` last), every subject, `lastIndex` and limit:
`StaysInBounds` (`TypeOK`), `MatchesComeInOrder` (`MatchesInOrder`) and `SearchesAdvance`
(`CursorAdvances`). `IInv` has a part for each of the three loops that are inside
one another. `AttemptOK`: within an attempt the position and every register and
backtrack point, with the registers it saved, and every frame of a lookaround lie
between the place where the attempt began and the end of the subject; behind the
first instruction the register 0 has this place, and at `Succeed` the register 1 has
the end, which is why a match never ends before it begins. `SearchOK`: the attempts of
a search begin at the cursor or behind it, and a search that has found is at
`Succeed`. `PanicOK`, a part of `TypeOK`: the machine has panicked only at a back
reference to a group that the pattern lacks. `CallOK`: the matches found end at the
cursor or before it, they are not more than the places passed, and only the last may
begin at the cursor, so that the next one, which begins there or later, comes
behind them all and is the second at its place at most; `exec` has none, and between
calls the machine is at rest. With these, `NoOverlap`, `NeverThrice` and `LoopsEnd` (the
parts of `MatchesInOrder`) are inductive, and every `Following` moves the cursor on.

The assumptions are those named in the modules (`...Assumption`), which TLC
evaluates in every run.

Only model-checked: liveness (`RunEnds`, `CheckpointEnds`, `LoadEnds`, `NoWaitForEver`),
out of the prover's reach. The modules of the two large languages (`Wasm`, `Parser`,
`BytecodeGenerator`, `Interpreter` and what they use), the parser, the compiler and
the meaning of regular expressions are recursive through and through, so that the
prover has no means for them: `FollowsText`, `CutsRefused`, `ParsesAsWritten`,
`RunsAsMeant`, the `TypeOK` of `Interpreter` and `MatchesAsReference`. `LoopsProgress` is
not an invariant of every program, as the first observation on regular expressions
shows, only of those of the run.

## 5. What is not modelled

The library of strings, numbers, dates and Intl, the C API and the shells:
sequential functions of their inputs, which differential tests serve better. Of the
language, classes, await, dynamic import and regular expressions are parsed but not
run (`await` is in `Promises`, imports are in `ModuleLoader`, patterns in
`RegExpMachine`), and numbers are integers. Of regular expressions, escapes that give
a character by its code, the indices of matches, the strings that replacements
build, and callbacks. Of the interpreter, the instructions of typed arrays and the fused forms
of the integer loops. Of WebAssembly, the JavaScript side of it. The compiler's graph
produces code that only the developer shell prints. `ic/` and
`objects/feedback_vector.rs` are used by tests only. `Atomics` and shared buffers
never meet a second thread, because worker messages are strings. The other parts
with state are in the plan.

## 6. Plan

In order of what is at stake, each with its module, the runs it needs and what
should be proved. Small ones share a module of instances and a run.

1. Classes in `BytecodeGenerator` and `Interpreter`: constructors, `super`, fields
   and private names, which `Parser` reads already; `return` and `throw` of generators
   through `finally`.
2. `Combinators`, on top of `Promises`: the counters of `all`, `allSettled`, `any`
   and the race, with elements whose `then` calls back twice
   (`builtins/promise.rs:456`).
3. `Disposal` (`builtins/disposable_stack.rs`) and `Streams`
   (`builtins/streams.rs`, `events.rs`): order of disposal, errors that suppress
   one another, `move`; reader locks, tee, cancel and abort signals.
4. `Realms` (`runtime/realm.rs`): the registry borrowed while code runs.
   `Collections`: iteration of a Map or Set that is changed meanwhile.
5. Algorithms against a definition, over bounded inputs: the rewriting of
   `compiler/` against evaluation, the table of `snapshot/` as a round trip.
6. `Inspector`: the server's thread, pause and resume.

Compositions worth having: the timers' microtasks replaced by those of
`Promises`; a `Worker` whose scripts run microtasks.
