# Verification of the Lattice kernel core and the Salt tool chain

TLA+ models of two halves of the repository.

* The Lattice kernel (`src/kernel`, `src/user/lib`), where correctness depends
  on the order in which contexts, interrupts and cores interleave: the two
  lock-free allocators, the fiber scheduler with its preemption stub, and the
  shared-memory rings that carry network frames.
* The Salt tool chain (`src/salt-front`, `src/tools/sp`), where it depends on
  long sequences of state changes that no test enumerates: loading and
  compiling modules on demand, emitting statements while four flow checkers
  follow along, cutting a function at its yields into a state machine, and a
  package tool whose commands share files on disk.

TLC checks the models on small instances; TLAPS proves the safety properties of
the kernel models and of the package tool, and what the compiler's module loader
promises, for every size.

## 1. The system

The repository holds a systems language (Salt: compiler, standard library), a
kernel written in it, and programs on top.

| Part | State | Operations | Meets the others through |
|---|---|---|---|
| Stack slab `kernel/mem/slab.salt` | per core: 128-bit head (pointer, generation), bump counter; a link word in each free slot | `pop_stack`, `push_stack`, `init_cores` | stacks and task frames of the scheduler |
| Page allocator `kernel/core/pmm.salt` | per core: list head, count; a link word in each free page | `init`, `alloc`, `free`, `steal_from_remote` | guard pages, rings, address spaces |
| Fiber scheduler `kernel/core/scheduler.salt`, `arch/x86_64/preempt_stub.S`, `arch/x86/isr_wrapper.S` | per core: fiber table, two-level bitmap, current, count, staged stack; GS:[48], GS:[56] | `spawn`, `spawn_async`, `sched_yield`, `fiber_exit`, timer interrupt, thread return | slab, guard pages |
| Guard pages `kernel/core/vmm.salt` | present bit of a stack's lowest page | `vmm_clear_present`, `vmm_set_present` | scheduler, slab |
| Rings `kernel/lib/ipc_shm.salt` | head, tail, capacity, data area in a shared page | `spsc_push`, `spsc_pop`, the bulk forms, `spsc_available`, `spsc_free_space` | NetD bridges, sockets |
| NetD bridges `kernel/net/netd_bridge.salt`, `netd_tx_bridge.salt` | a ring each, drop counters | `push_frame`, `pop_frame_len`, `pop_frame` | driver, NetD |
| Socket library `user/lib/socket.salt` | socket record, two rings | `bind`, `accept`, `close`, `read`, `write` | NetD, rings |
| Processes, IPC `kernel/core/process.salt`, `syscall.salt` | process table, one mailbox each | create, exit, switch, `sys_ipc_send`, `sys_ipc_recv`, `sys_shm_grant`, `sys_brk`, `sys_mmap` | all of user space |
| Address spaces `kernel/mem/user_paging.salt`, `core/vma.salt` | page tables, areas | map, unmap, translate, destroy | page allocator |
| Object caches `kernel/mem/slab_cache.salt` | free list, redzones | create, grow, alloc, free | page allocator |
| SIPs `kernel/sys/sip.salt`; NetD server `user/netd.salt`; TCP blocks `kernel/net/netd_tcp.salt` | slot tables | register, call, free; bind, accept, close | processes, IPC |
| Module loader `salt-front/src/codegen/module_loader.rs` | loading stack, loaded set, dependency graph, registry | `load_module`, `get_compilation_order` | `emit_mlir` |
| Code generation `codegen/mod.rs`, `context.rs`, `expr/resolver.rs`, `expr/calls.rs` | registered functions, imports in force, queue of specializations, defined and declared symbols | `register_signatures`, `resolve_call`, `hydrate_specialization`, `emit_call`, assembly | loader, statement emitter |
| Statement emitter `codegen/stmt.rs`, `codegen/verification` | label stacks, cleanup scopes, consumed variables, pointer states, live mallocs, path conditions, solver scopes | `emit_block`, `emit_stmt` and one function per statement form | `emit_fn` |
| Async lowering `hir/async_lower.rs`, `codegen/passes/liveness.rs`, `async_to_state.rs`, `hir/verify_pulse_bounds` | basic blocks, frame layout, resume state | `analyze`, `lower_async_fn_cfg`, `split_at_yields`, `emit_async_fn`, `verify_pulse_bounds` | executor that polls the step function |
| Package tool `tools/sp/src` | manifests, artifact cache, `target/`, `/tmp/salt_build` | `new`, `add`, `fetch`, `build`, `run`, `test`, `check`, `clean` | `scripts/run_test.sh`, the compiler |
| Type checking, intrinsics, standard library, Lettuce, Basalt, Facet | | | not modelled |

What is hard here:

* **Interrupts everywhere.** One core's contexts (fiber 0, threads, async
  steps, the timer) share all of the core's data, mostly without disabling
  interrupts. Both allocators and `bitmap_clear` must survive being suspended
  between any two accesses.
* **Dispatch is a call.** `sched_yield` calls the fiber's step function on the
  caller's stack, so a running core is a *stack* of activations, and two
  per-CPU words decide where a preemption returns to.
* **Memory is reused at once.** A popped slot may be followed through a stale
  link while its new holder overwrites it or unmaps its first page.
* **Two sides, no lock.** A ring's producer and consumer each decide on a
  counter of the other that may have moved.
* **Lazy emission.** A function body is emitted long after the call that asked
  for it, under imports swapped in for it, and a name counts as defined before
  its body exists. Failures on the way leave state behind.
* **Checkers that follow the text.** Moves, pointer states, leaks, path
  conditions and solver facts are updated as statements are emitted, and must
  be merged and undone along every branch, loop and jump.
* **Files shared by commands.** Builds of all projects go through one scratch
  directory and one cache, and are killed anywhere.

What makes each part correct: an allocator never hands out what is in use and
loses nothing; the scheduler's table, bitmap, count, slots, guard pages and
sentinel agree, a thread cannot keep the core, every fiber runs; a ring is a
FIFO; a stream of frames stays framed. A unit's module is closed and has no
symbol twice, every call means what its file says, and the units link; emitted
code does what the source does and the checkers accept nothing they are there
to reject; a state machine does across polls what the function does without
them; a command that reports success has built what it was asked to.

## 2. Modules

| Module | Models | Composition |
|---|---|---|
| `AllocPool` | what an allocator promises: a slot nobody uses, until it is given back | abstract |
| `SlabTreiber` | `slab.salt`, one action per shared memory access | implements `AllocPool` |
| `Pmm` | `pmm.salt`, one action per shared memory access | implements `AllocPool` |
| `FiberScheduler` | `scheduler.salt`, `preempt_stub.S`, the timer interrupt, one core | uses a pool of slots as `AllocPool` describes it |
| `ByteFifo` | what a ring promises | abstract |
| `SpscRing` | `ipc_shm.salt` | implements `ByteFifo` |
| `NetdRing` | both NetD bridges | built on `ByteFifo` |
| `ModuleLoader` | `module_loader.rs` | |
| `CompileSession` | one build: `emit_mlir`, `drive_codegen`, call resolution, specialization, assembly, linking | extends `ModuleLoader` |
| `StmtEmit` | `stmt.rs` with its checkers, and the emitted code run beside the source | |
| `AsyncLower` | liveness, the three async lowerings, the pulse bound, and the step function run beside the source | |
| `SpTool` | the `sp` commands | |
| `SlabTreiberProofs`, `PmmProofs`, `FiberSchedulerProofs`, `SpscRingProofs`, `NetdRingProofs`, `CompileSessionProofs`, `SpToolProofs` | theorems and proofs (section 4) | each extends its model and `CommonLemmas` |
| `CommonLemmas` | induction, remainders, linked lists | |
| `MC*` | constants, program families and symmetry sets for TLC | |

### SlabTreiber

`head_ptr`, `head_gen`, `fresh_count` are `SlabCoreState`; `link` is the first
word of each slot; `present` the slots whose first page is mapped; `pc`,
`cur_ptr`, `cur_gen`, `next_ptr`, `arg` the locals of the call each context is
in. `owners` and `chain` are ghosts. A 128-bit head is read in two steps
(`PopReadPtr`, `PopReadGen`), as the code does. Callers write anything that can
be mistaken for a link into what they hold (`OwnerWrite`) and may unmap its
page (`OwnerGuard`). A slot popped on one core may be pushed on another.
Addresses are slot indices; `Addrs` also has the indices a wrong computation
would give. `push_stack`'s test of the region's range and its callers'
`vmm_set_present` are part of `PushReadPtr`.

### Pmm

As above with a one-word head and a count updated by a load and a store. A
context runs only while no other context of its core is between CLI and STI
(`Runs`); other cores never wait. Pages that callers hold can contain any word
(`WriteWord`), so a thief may read anything as a link.

### FiberScheduler

`frames` is the running stack of activations, innermost last; `parked[s]` the
activations saved on stack `s`. An activation records how far its kernel call
got (`pc`) and the locals it needs (`cur`, `next`, `word`). `sched_rsp` is
GS:[48], as the depth of the frames kept below the thread, 0 for none;
`saved_rsp` is GS:[56]. An address is the slab slot it lies in. What the code
would do after jumping to a wild address is not modelled: `fault` records the
jump and the core stops.

Step boundaries follow what a preemption can separate: `Choose` (search and
`current = next`), `Dispatch*`, the return of the step function (`Suspend`,
`Reclaim`), `ClearLoad` and `ClearStore` (the two halves of `bitmap_clear`),
and the same for `fiber_exit`. Fiber 0 is preempted by nothing: with GS:[48]
zero the timer only sets `yield_pending`. `TimerInStub` is the one exception,
the instruction between setting GS:[48] and CLI. The pieces of `Reclaim` and
of `ExitStage` are taken in one step. The summary word's update is in the step
of the store.

The interrupt flag is state: a preemption or a thread's return leaves it clear
(the stub returns with `ret`), `start` sets it, and so may `spawn`, whose
guard page may need a page table from `pmm.alloc`, which ends with STI.

Two constants say what thread bodies do, because the repository has all kinds:
`Workloads`, whose members say whether a workload's threads call `sched_yield`
(the ring benchmarks, `fiber_loop.S`) or `fiber_exit` (`fiber_loop.S`), one of
which is chosen in the initial state; and `SPAWN_RACE`, whether fiber 0 spawns
while a preempted thread is inside `sched_yield` or `fiber_exit`.

### SpscRing

`header` maps the offsets of the page's header words to their contents. A block
is copied byte by byte through `Place`, the two-segment computation. A header
word is u64 and arithmetic wraps at `WORD`. Data and header accesses happen in
program order: the header goes through assembly routines, which the compiler
cannot move, and x86 keeps stores in order. A call that finds the ring full or
empty changes nothing and is no step.

### NetdRing

`push_frame` is `PushBegin` or `PushDrop`, then `PushLo`, `PushHi`, `PushBody`;
the consumer is `PopLo`, `PopHi`, `pop_frame`. The length's split into two
bytes is modelled with a small `RADIX`. RX and TX differ in the length test
(`MIN_FRAME`, `MAX_FRAME`) and in whether the consumer can run inside
`push_frame` (`PREEMPTIBLE`): RX pushes from the interrupt's bottom half, TX
from a process. The initial state is the one after the bridges' `init`;
counters that only report are left out.

### ModuleLoader and CompileSession

`load_module` is recursive, so `frames` is the Rust call stack; `loading_stack`
is the vector the loader keeps beside it, and the two part when an error leaves
without the pop. A namespace is a sequence of segments, the files are one
function from paths to parsed files (`source`), and a file may be missing,
unreadable or malformed. `sort` is what `get_compilation_order` holds: the keys of
the graph still to visit, in any order, as a HashMap gives them; the activations
of `topological_visit`, whose nodes are its `temp_mark`; and the order so far.

`LoadsWithin[k]` is the reference the loader is compared with: the namespaces
that have nothing missing, broken or cyclic below them and need at most `k`
nested activations. An import that loaded is in it for some `k`, and one that is
in it for the room `loading_stack` leaves did load.

`CompileSession` takes a build through its units: `Load`, `Order`, `Register`
(what `emit_mlir` does between loading and driving), then `Hydrate` takes a task from
the queue, `EmitCall`, `EmitRef` and `EmitPrint` emit one item of its body,
`FinishBody` ends it, `Assemble` makes the module's text. A body is the sequence
of its free-function calls, function values and prints; methods, types and
globals' values are left out. A symbol is a package and a sequence of words,
so that `f` at `i32` and a function called `f_i32` share one, as their mangled
strings do. `uses` is a ghost: what each call meant and got.

### StmtEmit

A body is compiled in the first step by operators that mirror `emit_block` and
`emit_stmt`: they thread one record, the compile context, and append to the
list of operations. Then code and source run in lockstep: `CodeSilent` and
`SrcSilent` advance one side, `StepTest`, `StepFor`, `StepEffect` and
`StepReturn` both. Conditions are opaque, except comparisons of a pointer with
0, and come out the same on both sides. `shape` records which of a few
statement shapes the body has; the properties are stated with the shapes that
break them as exceptions (section 3).

The forms are `if`, `while`, `loop`, `for` over a range (`for`, and `forw` with
the pattern `_`, which takes another of the code's engines) and over an iterator,
`match` with guards, let-else (also with a pattern that cannot fail), `with`,
`map_window`, `unsafe`, the jumps and returns with and without an owned value.
`emit_stmt` searches the text of a `loop` for the *name* of its exit label to see
whether anything breaks out of it, so `^loop_exit_1` is also found in
`^loop_exit_12`. Which numbers two labels get depends on all that was emitted
before; `Compile` therefore chooses whether an inner loop's number begins with the
outer's (`prefix`).

### AsyncLower

A body is chosen in `Init` together with one of the lowerings `emit_mlir` and
`emit_async_fn` can take: the CFG of basic blocks behind a trampoline, the chain
of states, or one function per state with spills and reloads. `Execute`, `Test`,
`Trampoline`, `Suspend`, `Resume`, `Finish` and `Stray` are the steps of the
generated step function; source and step function move together where their next
events are the same (`InStep`), and the source stands still where they are not.

`LowerBlock` is the lowering to the HIR, whose last arm makes `unsafe`, `match` and
let-else a unit literal, bodies and all (`Stubs`). `LowerStmts` cuts `if`, `while`
and `loop` where they contain a yield and keeps everything else whole. A kept
`break` or `continue` whose own loop was cut is emitted for the innermost loop
there is, the trampoline: the first leaves it (`Stray`), the second dispatches the
same block again (`Trampoline`). A `return` that `extract_return_expr` did not move
to the end of a final block returns a value that is no Poll (`Stray`).
`emit_hir_block` refuses a `for` (`Emits`); such bodies are not run.

The step function is taken as the HIR item that `generate_step_fn_from_cfg` returns:
`emit_hir` still writes calls, paths and lets as comments, and it emits nothing for
an `else if`, which is taken as `else { if }` here.

### SpTool

One action per file-system effect of a command, the steps of
`scripts/run_test.sh` included, so that a kill can come between any two (and an
edit, with `EditAnytime`, or another command, with several `Terminals`). A
source tree is its version, and what becomes of a version (does not parse, does
not link, exits with 1) is a constant.

`resolve` is recursive, so `stack` is its call stack: one frame per manifest
being gone through, with the dependencies still to be taken, in any order, as
a HashMap gives them. `seen` is the set of names met, `roots` the search roots
so far. `ResolveSingle` passes over a name met before or enters its manifest,
`ResolveReturn` leaves one and appends its directory. `Needed` is the reference
the resolver is compared with: the least set of directories that holds the
project and is closed under the manifests. `compiled` is a ghost: the binaries
that linked and exited with 0.

## 3. Runs

Passing:

| Run | Instance | Shows |
|---|---|---|
| `slab` | 2 contexts on the second of 2 cores, 4 slots, generations to 6 | one holder per slot, links stay a list, no ABA, nothing lost, implements `AllocPool` |
| `pmm_one_busy_core` | 2 contexts on core 0, shards of 2 cores, 4 pages | one holder per page, exact counts, sound steals, implements `AllocPool` |
| `fiber_tables` | 4 fibers in 2 bitmap words, exiting or yielding threads | threads and async fibers under fiber 0, preempted anywhere, inside `fiber_exit` and nested `sched_yield` too: table, bitmap, count, slots, guards and sentinel agree (`TablesAgree`); the search is the cyclic successor |
| `fiber_live` | 3 fibers, fair | a thread that never returns loses the core; the first fiber is served |
| `spsc_ring` | capacity 3, blocks to 4 bytes, 8 bytes in all | the ring is a FIFO of whole blocks |
| `netd_rx` | capacity 8, 5 frames, fair | the stream stays framed and every accepted frame arrives |
| `compile_session` | application, library and sub-module: 8640 programs, each as one executable and unit by unit; 22 builds with other entry points (`main_salt`, `kmain`) or template-like names; 324 import graphs | imports load whole and in order; modules are closed; calls are bound to what their file means; units link |
| `stmt_emit` | 33825 bodies, with and without `--no-verify` | emitted code is well formed and does what the source does; accepted programs use nothing moved or null and release once; the verifier assumes only what is true |
| `async_lower` | straight-line bodies to 5 statements; one- or two-level nests of `if`, `while`, `loop`; loops and blocks left early by `break`, `continue`, `return e`, `return`; `for`, `match`, let-else, `unsafe` | same events as the source across polls; true assumptions; reloads restore locals; the pulse bound holds and the first poll returns |
| `sp_tool` | an application and two libraries under four dependency graphs (one gives a name to two directories), four source versions (good, exits with 1, does not parse, does not link), one terminal | search roots are complete; success means compiled; `run` after a compile runs the new binary; `test` judges its own project |

Violations, each a statement of the repository that the code does not keep
(`findings` in `PROJECT.json` quotes them):

| Run | Statement | What happens |
|---|---|---|
| `fiber_lost_bit` | an active fiber stays in the bitmap | a preempted `bitmap_clear` erases a new fiber |
| `async_lift` | variables that live across a yield are lifted into the frame | `emit_mlir` looks them up in a map that holds parameters only; a local reads undefined after the resume |

Five further configurations reproduce counterexamples that are documented but
not part of the run list: `MCSlabGuard.cfg` (`pop_stack` reads a link through an
unmapped page; module `MCSlabTreiber`), `MCPmmRace.cfg` (with a second
allocating core, `alloc` and a thief get the same page; `MCPmm`),
`MCFiberStarvation.cfg` (the search always restarts at fiber 0, so the lowest
fiber is always chosen; `MCFiberScheduler`), `MCFiberStaleRsp.cfg` (GS:[56] of
an earlier preemption becomes an async fiber's context; `MCFiberScheduler`) and
`MCSpStale.cfg` (on a cache hit `sp build` copies nothing, so `sp run` executes
an older target; `MCSpTool`).

`fiber_lost_bit` needs thread bodies that call `sched_yield`.

What the passing runs of `FiberScheduler` say is what survives. The core can
still stop in them: `fault` is reachable as `null_step` (a yielding thread
finds fiber 0, which has no step function), `wild_ctx` (GS:[56] of another
fiber, or the stub's window), `null_stack` (a thread returns after a nested
dispatch cleared GS:[48]) and `wild_switch` (`fiber_exit` passes `switch_stacks`
a null or IRETQ context). Two restrictions are needed for them to pass:
`SPAWN_RACE` is FALSE, by `fiber_lost_bit`; and no workload both yields and
exits, because a thread resumed inside `sched_yield` can run its target
under its own identity, and `fiber_exit` then tears down the wrong fiber.
`fiber_exit` flushes the staged stack and stages its own in one action, so the
window between `push_stack` and the store that clears the staged address, where
a second exiting thread would push the same slot again, is outside the model.
`NetdRing` is checked for RX only: with `PREEMPTIBLE` TRUE the drain of TX takes
a length whose frame is not in the ring yet and loses the framing.

### Exceptions in the properties of the tool chain

The properties of `StmtEmit`, `AsyncLower`, `CompileSession` and `SpTool` say where
they stop holding; each exception was found by TLC as a counterexample of the
property without it.

`StmtEmit`:

* `EmittedRight`, malformed code: a wildcard arm before the last arm of a `match`;
  a jump that `block_has_control_flow` does not see, inside a `for` emitted as an
  `scf.for` region; a `map_window` left by its block, because it always reports
  that control goes on; a `loop` without `break` around a loop whose exit label
  begins with its own, which gives it an exit block nothing branches to.
* `EmittedRight`, other behaviour: `continue` in a range `for`, which jumps to the
  header past the increment; a let-else whose else block falls through; a `match`
  that does not cover every value, which enters its last arm anyway
  (`docs/SPEC.md:39` requires every case to be handled, the compiler only warns);
  the guard of a last arm whose pattern is `_` or a name, which is not tested.
* `AcceptedUsesSafe`: a move inside a loop (its second iteration uses the moved
  variable); a pointer assigned in a branch or loop.
* `ReleasedOnce`: an explicit `drop` in a loop, or of a local that implements
  `Drop`; a value read after an explicit `drop`; an owned value that is returned,
  since the value of a `return` is emitted after the drops; memory obtained, freed
  or abandoned by a conditional statement. The audits, and so the half of the
  property about what is never released, are about `malloc` only.
* `VerifierAssumesTruth`: after an `else if` (its condition is taken as decided
  by the outer one); after a `while` left by `break`, or one inside a branch,
  whose negated condition is asserted for the code after it.

`CompileSession`:

* `ModulesReady`: failed imports fill `loading_stack` and count against the
  recursion limit; the parent of an item import is no edge of the graph, so the
  compilation order may put it later.
* `ModuleWellFormed`: an extern that an imported file implements with
  `@no_mangle`, a generic function named without its types, and a function whose
  name looks like a template's (`h_T`) are marked defined and never emitted; a
  specialization at an unresolved type parameter is dropped unmarked; an extern
  with a runtime hook's name is declared twice.
* `CallsBound`: `f` at `i32` and a function `f_i32`; bodies emitted without
  their own file's aliases, and `@no_mangle` names, can be captured by a
  function of the unit.
* `UnitsLink`: function values of other units, foreign specializations in
  library mode, modules imported in another case, `@no_mangle` functions named
  through their package, empty bodies and callees that are not exported are
  declared and nowhere defined; a caller that is no entry point, or a package
  below the unit's, makes a second copy.

`AsyncLower`:

* `StepFollowsSource` holds of the bodies whose statements the CFG lowering carries
  over (`Carried`). Not carried over: `unsafe`, `match` and let-else, which become a
  unit literal and lose their bodies (`move`, `map_window`, `with_region` and
  `invariant` go the same way); `break` and `continue` of a loop that is cut, which
  act on the trampoline; a `return` before the end of the body or without a value,
  which is not wrapped in `Poll::Ready`.
* `AssumesHold`: after such a `continue` the body of a `while` is entered again
  without the test its Assume speaks of.
* `FirstPollWithinBound`, `FirstPollReturns`: such a `continue` is scored 0 and hides
  a cycle without a yield from `verify_pulse_bounds`, which looks for loops among a
  block's top-level statements and for back edges of the CFG: `while c { if d {
  continue; } yield }` is accepted and can spin. A yield-free `while` is left out as
  well: its 10 iterations are a guess, as are those of a `for`. The verifier is not
  called by the compiler's pipeline: the property is about the function. Nested
  yield-free `loop`s, scored `i64::MAX / 2` each, could overflow; the families do not
  have them in one sum, and the model's score does not wrap.
* `FrameKeepsLocals` is about straight-line bodies without shadowing: the liveness
  walk passes over `loop` and knows no loop-carried uses.

A poll after completion spins in the trampoline and is not made by an executor.

`SpTool`: where one name stands for two directories, the key and the roots miss
one of them (`NameClash`). Where the project does not link, nothing is promised
(`Links`): the script ends the link with `|| true` and goes on with the binary
that an earlier build, of any project, left under the same stem. A build that
reports success has built *the sources as they are*, of everything the project
needs; it is not true that the very set of directories it needs was compiled
together. `RunAfterCompileIsCurrent` also excepts the cache hit. Every project has
the test `test_smoke`, so the library's and the application's meet in the scratch
directory; their `main`s do when both are run, which the passing run leaves out for
its size (with `run` of the library among `MCInvocations` all properties hold too, on
10.8 million states). `sp test --filter` and a missing tests directory are not
modelled. `compiler.rs` hands the search roots over in
`SALT_SEARCH_ROOTS` and says that `run_test.sh` forwards them; nothing reads the
variable. The model takes the projects to be ones whose imports the front end finds
by itself, in its working directory, above it or in `std`. `salt.toml` is not part
of the key, so an artifact stored while a library needed a further directory is
found again when that library has been removed and made anew without the dependency.

**Bounds.** Two contexts and two slots suffice for ABA: one context sleeps
between its reads and its swap while the other pops, pops and pushes. The
counter bounds (`GEN_BOUND`, `FRESH_BOUND`, `TOTAL`, `OFFERED`) leave several
rounds of reuse after the first wrap; they stop the model, so deadlock is not
checked (nor is it where a core has taken a wild jump). `MAX_LEN` exceeds the
capacity so that blocks are cut. Two bitmap words suffice for all four
phases of the search, which `SearchIsCyclic` checks from every fiber; several
fibers share a word, so that `bitmap_clear` can be preempted between two of them. `STEAL_THRESHOLD` is 0 or 1, instead of 16, to
make steals happen with 4 pages. The families of `MCStmtEmit` put
each form it has inside each other once, with every way to leave a block; bodies
read at most two variables and ranges iterate `TRIPS` times, which suffices to enter
and leave a loop again after each effect. Those of `MCAsyncLower` nest `if`, `while`
and `loop` in one another once, leave every kind of loop, and a loop in a loop, by
every jump and return before and after a call or a yield, and put each of the forms
without a HIR counterpart around a yield, a call and a `break`; `match` and let-else
are not nested in one another, and `for` stands only around calls, yields and jumps.
Those of `MCCompileSession` combine calls, generics, externs and imports of three
files. `MAX_RECURSION_DEPTH` is lowered so that the loader meets it.
`MaxEdits` bounds edits, removals, adds, cleans and kills in a behaviour of
`SpTool`; two are enough to make a target and a cache entry stale in turn. The
passing run has one terminal and edits between commands: two concurrent builds
share `/tmp/salt_build/<stem>` without a lock, and an edit between the hash and
the compilation stores the new binary under the old key; nothing protects
against either.

**Fairness.** `FiberScheduler`: fiber 0 keeps calling `sched_yield` (the
kernel's main loop), an async step function returns, and the timer keeps
firing. Strong fairness of fiber 0's dispatch says that the timer does not hit
the stub's one-instruction window every time. Nothing is assumed of thread
bodies. `NetdRing`: the consumer polls and `push_frame` runs to its end.
`AsyncLower`: the step function is sequential code, and the executor polls a
task until it is ready. No liveness is claimed of `SpTool` and the compiler
runs: a command may be killed, and a loop whose test never fails is legal.

## 4. Proofs

Every safety property the runs check of the kernel models and of the package
tool, and `ModulesReady` of the compiler, is also a theorem, for all values of the
constants. The proofs assume the models' named
assumptions on the constants and, where the table says so, one restriction.

| Module | Theorems (property) | Restriction |
|---|---|---|
| `SlabTreiberProofs` | `TypeCorrect`, `Exclusive` (`ExclusiveOwnership`), `NoAba` (`CasSound`), `WellFormed` (`LinksWellFormed`), `Conserved` (`Conservation`), `Chained` (`ChainIsList`), `InRegion`, `Refinement` (`AllocPool`) | `NoWrap` |
| `PmmProofs` | `Exclusive` (`OneHolder`), `Counted` (`CountExact`), `StealsSound` (`StealSound`), `Refinement` (`AllocPool`) | `OneCore` |
| `FiberSchedulerProofs` | `Typed` (`TypeOK`), `Agree` (`TablesAgree`), `Cyclic` (`SearchIsCyclic`), `Guarded` (`GuardsOnlyStacks`) | `Disciplined` |
| `SpscRingProofs` | `Bounded` (`CountersBounded`), `Apart` (`WritesApart`), `Refinement` (`ByteFifo`) | none |
| `NetdRingProofs` | `Framed` (`StreamFramed`), `Returned` (`ReturnsFrames`) | `PREEMPTIBLE = FALSE` |
| `CompileSessionProofs` | `SessionModulesReady` (`ModulesReady`) | none |
| `SpToolProofs` | `Roots` (`RootsComplete`), `Built` (`BuildOkMeansCompiled`), `RunCurrent` (`RunAfterCompileIsCurrent`), `TestOwn` (`TestJudgesOwn`) | one terminal, `EditAnytime = FALSE` |

The restrictions:

* `NoWrap`: no core's i32 bump counter is incremented past its largest value,
  which takes 2^31 failed `pop_stack` calls. Without it the counter wraps
  negative and addresses below the region are handed out.
* `OneCore`: every context that calls the allocator runs on one core, as in the
  kernel as it is; the other cores' lists exist and are stolen from. With two
  allocating cores `OneHolder` is false (`MCPmmRace.cfg`).
* `Disciplined`: only fiber 0 calls `sched_yield`, and it does not spawn while a
  preempted thread is inside `fiber_exit` (its `bitmap_clear` loses the new bit, as in `fiber_lost_bit`).
  This is how `utp_preempt_bench`, `utp_async_bench`, `utp_spawn_bench` and
  `async_test` use the scheduler. Threads that call `sched_yield` themselves
  (`ipc_bench`) nest dispatches to any depth and can reach every `fault`; for
  them the properties are model-checked only (`fiber_tables`).
* `PREEMPTIBLE = FALSE`: the RX bridge. For TX the property is false
  (section 3).
* One terminal, `EditAnytime = FALSE`: one command at a time, and sources that
  change between commands only. Two commands share `/tmp/salt_build/<stem>`
  without a lock, `sp add` in another terminal changes a manifest while it is
  being resolved, and an edit between the hash and the compilation stores the
  new binary under the old key. Kills are not restricted.

**Inductive invariants.** Each theorem module defines `IInv`, shows that `Init`
implies it and, with one lemma per action, that every step preserves it. The
parts TLC can evaluate were checked as invariants on small instances first.

*SlabTreiber.* Ownership alone is not inductive: whether a successful swap in
`pop_stack` keeps a slot exclusive depends on the link it installs. `IInv` has
six parts besides types: the counter's range, pushed arguments are slots,
`ExclusiveOwnership`, `LinksWellFormed`, `CasSound` and `Conservation`. The
argument is `CasSound`: a context's generation never exceeds its core's, so a
swap that succeeds found the head unchanged since the generation was read;
every change of a chained slot's link goes with a change of the head's
generation; hence the link read in between is still the slot's link. A torn
read of the head can only pair a pointer with a *later* generation, and the
link is read after both. `Conservation` ties slots in circulation to the
counter, so that a bump allocation is fresh; that shares of two cores are
disjoint is multiplication, isolated in `ShareOrder` and `OffsetInjective`.
`ChainIsList` needs more: `LinksWellFormed` allows a cycle beside the list. A
second invariant gives every chained slot a depth that its link lowers by one
(`IsList` in `CommonLemmas`), and `ListWalk` shows that such a list is walked
from end to end.

*Pmm.* The head has no generation, so soundness of a steal rests on who can
touch a list: allocation and freeing touch the one busy core's list between CLI
and STI, thieves only take from the others, and a list that is only taken from
never has a page twice as its head. The invariant names for each page where it
is (on a list, inside a call, with a caller) and its depth on its list;
`OneHolder` and the exact counts follow by `ListSize`.

*FiberScheduler.* The bitmap, the count and the table agree only between
operations. `IInv` describes what may differ at each program counter of the at
most two activations on the core and of those parked on stacks: a fiber inside
`bitmap_clear` is dead but listed, a stack being reclaimed is neither a fiber's
nor free, a loaded bitmap word is still the word in memory. The last is what
`Disciplined` buys. `SearchExact` proves, apart from any step, that the search
over the two-level bitmap (lowest set bit of the masked word, then of the
masked summary, then the wrapped half) yields the cyclic successor.

*SpscRing.* `IInv` orders the counters, says that a push in progress fits behind
what is unread and that the bytes it copied are in their places, and that a pop
in progress copies unread bytes which nobody overwrites. Positions are counters
modulo the capacity; `PlaceIsMod` reduces the code's two-segment copy to that,
`ModApart` says that counters less than a capacity apart have different
positions. The refinement maps the queue to the bytes between the counters.

*NetdRing.* `StreamFramed` is strengthened by `RoomKept` (the test of
`push_frame` reserved the room of all three writes, so none is cut) and
`TwoByteLengths` (base-`RADIX` digits of an accepted length lose nothing).
`WholeFrame` then reads off the stream that the length the consumer holds is the
oldest frame's and that the ring begins with that frame. The stream is defined
with `FlattenSeq`; `FlatAppend` and `FlatCons` say what it makes of a push and of
a pop.

*SpTool.* `IInv` says what a command holds at each of its steps (`CommandInv`) and
what is on disk between commands (`FilesInv`). Its first half is the resolver,
`Resolving`, four facts about stack, names and roots: the frames are a chain of
dependencies from the project down, each with the manifest it was loaded from;
every root is a needed directory; a name is counted once, so that
`Len(roots) + Len(stack) = Cardinality(seen) + 2`, which bounds the roots by the
number of names; and, unless a name stands for two directories, every name a
frame is done with leads to a directory that is a root or still on the stack,
and every root comes after its own dependencies except those that need it back.
`SkipStep`, `EnterStep` and `LeaveStep` show that each kind of step keeps them,
`EndStep` reads off the end: with an empty stack the roots are closed under the
manifests, so they contain the least closed set (`ReachLeast`), which is what
`RootsComplete` says, for every HashMap order and for cyclic dependencies.
Its second half is the cache. A key must say something about whatever was
stored under it, at any later time: `KeyOK` says that a key's own version, where
it links, and its roots' versions are sources that compiled together. `KeyStored`
derives that for a new entry, since every root is needed and so was compiled;
`KeyHit`, from completeness of the roots, turns it into the claim about the
present sources when the key is met again, though manifests may have changed in
between. A partial file, left by a kill, only ever
replaces the artifact, not what its key promises. `ScriptInv` follows a build
through the shared scratch directory: from the front end on, the MLIR under the
command's stem is its own and, where it links, so is the binary.

*CompileSession.* `IInv` is the loader's invariant (`LoaderInv`), the sort's
(`Sorting`) and what the phases of a unit imply. `LoadsWithin` is a recursive
function on the naturals; `WithinExists` shows that its equation has a solution.
A namespace is `Live` for `k` if it is in `LoadsWithin[k]`, and `Dead` if it is
for no `k`: missing, broken, or leading back to itself (`CyclicDead`, from the
least `k`). `LoaderInv` says that what loaded is closed and live within the number
of loaded modules (`Graph`); that each activation's needs are loaded, still to
come or being loaded (`FramesOK`), and that it leads to the ones it nests
(`Chain`), one level of room less each. The heart is `Stack`: below the
activations' own entries `loading_stack` holds only dead namespaces. An error
that leaves its namespace there makes each `pop` on its way out remove the entry
above its own, so that until the error has left the last activation the stacks
are off by one; but then every activation waits for a dead namespace and is dead
itself. So the cycle check never refuses a namespace that could load, although
the stack is not the one the code means (`RefusedRight`), and the only harm of
the missing pop is the room it costs; `Served` keeps the account: an import live
within the room left is loaded, to come, or being loaded. `SortOK` says of the
sort that nothing is listed twice or before an edge of its own, that the edges of
an activation are listed, to come, or being visited, and that no key is
forgotten.

State is passed to these definitions as arguments (`dp` for the manifests, `sr`
for the sources), so that one lemma serves the states before and after a step.

**Induction.** The provers cannot instantiate the library's induction rules,
which take an operator. `CommonLemmas` states induction for sets
(`SetInduction`, from the least element of a set of naturals), and facts about
recursive functions (the walk of a list, `FlattenSeq`, the search) are proved
with the set of the indices at which they hold.

**Only model-checked.** Liveness: `CoreRegained`, `FirstServed`, `AllDelivered`,
`FirstPollReturns`. Threads that call `sched_yield`. `StmtEmit` and `AsyncLower`:
their operators are RECURSIVE, as the code they model is recursive over syntax
trees; the prover does not accept a module that reaches such an operator, and
what these operators compute would take induction over the trees.
`ModuleWellFormed`, `CallsBound` and `UnitsLink` of `CompileSession`: their
exceptions list what goes wrong in the checked families of programs, and other
programs (a function with the name of a runtime hook, say) would need more. `SpTool` with several
terminals or edits during a build, where the properties are false.

## 5. Not modelled

Parsing and formatting (ELF, Ethernet, RESP, Salt source), device I/O, hardware
set-up, numerical code and the GUI. Of the compiler: the parser, type checking
and inference, type layout, intrinsics, expressions' values, affine and vector
loops, and the MLIR text; these translate data, one case per construct, and a
model of them would repeat the code. `components` in `PROJECT.json` lists every
part with its reason. In the modelled files: tracing, watermarks, benchmarks and
tests. The implementation counted in lines is mostly that compiler, so the
share of it the modules cover stays small.

## 6. Plan

1. *(done)* `AllocPool`, `SlabTreiber`, its proofs; `Pmm`; `FiberScheduler`;
   `ByteFifo`, `SpscRing`, `NetdRing`.
2. *(done)* `ModuleLoader`, `CompileSession`, `StmtEmit`, `AsyncLower`, `SpTool`.
3. *(done)* Proofs: `SpscRing`, `NetdRing`, `Pmm` with one busy core,
   `FiberScheduler` with yields by fiber 0 only, `ChainIsList`, `SpTool` with one
   terminal, the module loader. Next: `SymbolsOnce` for programs that use no name
   of a runtime hook.
4. `ProcessIpc`: process table, mailbox, blocking receive, exit, switching;
   abstract specification: a mailbox that loses nothing.
5. `AddressSpace` on `AllocPool`: map, `shm_grant`, `brk`, `mmap`, destroy;
   every frame freed exactly once. `SlabCache`, `Sip`, the TCP blocks.
6. Standard library: channel, sync, executor, arena. Lettuce's store.
7. `FiberScheduler`: `fiber_exit`'s flush and staging as separate steps.
