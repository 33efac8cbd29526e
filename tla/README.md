# A verification project for EchoJS

EchoJS compiles JavaScript ahead of time to native code and links it with a C
runtime (`src/runtime`). This directory holds TLA+ models of the runtime, the
TLC configurations that check them on small instances, and theorems that TLAPS
proves for every instance.

The first part of the system to be modelled is the one where an error is worst
and least testable: the generational, moving garbage collector and the write
barrier by which compiled code and the C runtime cooperate with it. The second
is the entry list of Map and Set, which programs change while they traverse it.
The third is what runs later or elsewhere: promises and their jobs, the run
loop with its timers, and generators on stacks of their own. The rest is
inventoried below and ordered in a plan.

Run everything from this directory:

    tlc -workers 2 -config MCGCHeap.cfg MCGCHeap
    tlc -workers 2 -config MCMapData.cfg MCMapData
    tlc -workers 2 -config MCPromise.cfg MCPromise
    tlc -workers 2 -config MCRunLoop.cfg MCRunLoop
    tlc -workers 2 -config MCGenerator.cfg MCGenerator
    tlapm GCHeapTypes.tla
    tlapm GCHeapProofs.tla
    tlapm GCHeapSweepProofs.tla
    tlapm GCHeapRefineProofs.tla
    tlapm MapProofs.tla
    tlapm GeneratorProofs.tla
    tlapm PromiseProofs.tla
    tlapm RunLoopProofs.tla

## 1. Inventory

### The collector (`ejs-gc*.c`, `ejs-gc*.h`)

State:

* *cells*: a nursery of young pages, old pages per size class, and a
  large-object store (LOS). Youth is an address range. A bitmap byte per cell
  holds FREE or a color; colors are parities of `mark_epoch`, so a finished
  cycle turns black into white by incrementing the epoch;
* *headers*: DIRTY (object is queued in the remembered set), PINNED (a
  conservative scan of this full collection found it), FORWARDED (the word is
  now a forwarding address);
* *the remembered set*: two buffers of old objects that were stored a young
  reference, with an overflow flag, swapped at the start of each minor;
* *roots*: the root registry and module exports (precise), gc-frame chains of
  compiled code (precise in a minor, conservative in a full collection), C
  stacks, registers and suspended generator stacks (always conservative).

Operations: allocation on three paths (nursery bump, LOS, old pages when the
nursery is full), the barrier, the minor collection (pin, evacuate, rewrite,
sweep), and the full collection (mark, sweep, compact, rebuild the remembered
set, advance the epoch). Both collections stop the world; what interleaves is
the mutator's stores and allocations between collections, and within one
collection the order in which references to the same object are met.

What makes it hard: an object moves while five kinds of references name it,
each updated by a different mechanism; ambiguous references cannot be updated
at all, so they must pin first; a pinned survivor leaves an old-to-young edge
that must be carried to the next cycle; the remembered set overflows; a full
collection may come between a store and the minor that would have scanned it.

Correct means: no reference dangles, no reachable object is lost, nothing
unreachable survives a full sweep, every collection ends, and the program
cannot tell that a collector exists.

### Map, Set and their iterators (`ejs-map.c`, `ejs-set.c`)

State: per collection a singly linked list in insertion order, whose deleted
entries stay in place as tombstones; per iterator the collection (or undefined,
once it has reported done) and `next_index`.

Operations: set and add (overwrite or append), delete and clear (empty in
place), `forEach` and `getOrInsertComputed` with callbacks, iterators. They
share the list and nothing else: an iterator is a counter, a `forEach` under way
is a pointer into the list on the C stack.

What makes it hard: every traversal can be suspended, by `next()` returning or
by the callback that is running, and the program may do anything in between,
start another traversal included.

Correct means: the list holds a partial map, whatever runs between two steps of
a traversal; a traversal goes forward, ends, and leaves out no live entry.

### Promises (`ejs-promise.c`)

State: per promise its state, result and two lists of reactions; per call of
CreateResolvingFunctions a flag shared by a resolve and a reject function; the
jobs, which are tasks of the run loop whose argument records (a reaction, or a
promise and a thenable) are malloc'ed and freed by the job's destructor.

Operations: `new Promise`, `Promise.resolve` and `reject`, `then` and `catch`,
the resolving functions, the two kinds of jobs and the handlers they call.

What makes it hard: resolving a promise with another one does not settle it. It
queues a job, which calls `then`, which queues another, which calls a second pair
of resolving functions; the program may hold the first pair and call it at any
time, and the other promise may be settled before, between or after.

Correct means: a promise settles once, whoever holds what; the reactions of the
side it settles on each run once, in the order of the `then` calls; a promise that
follows another ends as that one does; no collection meets a freed record.

### Run loop and timers (`ejs-runloop-libuv.c`, `ejs-timers.c`)

State: libuv's timer heap, the `task_timer` records in it, libuv's list of handles,
and the Timer objects of the program, each with the address of a record.

Operations: add a task with or without a timeout, fire, clear, finish (free the
record unless it repeats).

What makes it hard: a callback may clear any timer, its own included; a Timer
object keeps the address of a record after it has been freed, and malloc may have
given the address to another task; `repeats` is not initialised for tasks without a
timeout; a record is freed without `uv_close`, so the list of handles keeps it.

Correct means: tasks run in the order of due time and then of arrival, a cleared
task never runs, every other one does, and no freed record is run. That libuv never
*touches* a freed record is not true of this code; what can be said is when it does.

### Generators (`ejs-generator.c`, with `ejs-gc-mark.c` and compiled code)

State: per generator flags, two machine contexts, a stack, and where the chains
of gc-frame records are kept while neither it nor its caller runs; for the
collector the registry of generators, the array `generators[]` of those that run,
with the extent of the stack suspended behind each, and the head of the running
stack's chain.

Operations: next, throw, return, yield, completion, finalization; in compiled
functions, linking and unlinking a record, and catching an exception, in C or in
a catch block.

What makes it hard: a chain changes hands at every switch, in both directions
and with exceptions on the way; the collector may run between any two steps and
must find each chain in one of three places.

Correct means: a collection, whenever it starts, walks the record of each
function that has not returned exactly once, and scans the whole of each
suspended stack; an order to throw or return is obeyed once.

### The other components

| component | state | operations | what is hard | status |
|---|---|---|---|---|
| page heap (`ejs-gc-heap.c`) | arenas, free lists, bump cursors, survivor pages, LOS descriptors | page allocation, release, cell lookup | accounting at a full arena, "GC BUG" aborts | planned |
| gc policy (`ejs-gc.c`) | allocation counters, budgets | trigger a minor or a full | equality tests on counters, the OOM path | planned |
| WeakMap, WeakSet | inverted maps on keys | set, get, delete | life time against the collector | planned |
| shapes (`ejs-shapes.c`) | transition tree, per-object shape | add, delete, dictionary fallback | exhausted shape ids, stale guards | planned |
| modules (`ejs-module.c`, `ejs-require.c`) | resolved flags, exports | resolve, require | cyclic initialisation | planned |
| exceptions, atomics | none of their own | | unwinding is the C++ ABI's; one agent only | not planned |
| strings, regexp, JSON, numbers, dates, bigint, Temporal, typed arrays, proxies, reflection | | library functions | their reference is ECMA-262 and test262 | not planned |
| compiler (`src/lib`) | | passes over ESTree and SSA | guard elimination across merges | candidate |
| platform bridges, packaging, vendored code | | | I/O, build machinery | not planned |

## 2. Modules

| module | contents |
|---|---|
| `GCHeap` | the heap, mutator, minor and full collection as a state machine; its properties |
| `GCHeapInv` | the inductive invariant `IInv` |
| `MCGCHeap` | GCHeap for TLC, with its symmetry |
| `ObjectGraph` | the abstract specification: objects and variables, no collector |
| `GCHeapRefine` | GCHeap with a history variable, shown to implement ObjectGraph |
| `GCHeapTypes` | proof of type correctness |
| `GCHeapProofs` | proofs that `IInv` is inductive, and of the safety properties |
| `GCHeapSweepProofs` | proof that a full collection keeps exactly what is reachable |
| `GCHeapRefineProofs` | proof that GCHeap implements ObjectGraph |
| `MapData` | the entry list of Map and Set with iterators and callbacks; its properties |
| `PartialMap` | the abstract specification: a partial function from keys to values |
| `MCMapData` | MapData for TLC, with its symmetry |
| `MapProofs` | proofs of `MapInv`, of the properties and of the refinement |
| `Promise` | promises, reactions, resolving functions and jobs, with the program that calls them; its properties and `PInv` |
| `Future` | the abstract specification: cells that are settled once, or follow another |
| `MCPromise` | Promise for TLC |
| `PromiseProofs` | proofs that `PInv` is inductive, of the safety properties and of the refinement |
| `RunLoop` | tasks, timers and libuv's timer heap; its properties |
| `MCRunLoop` | RunLoop for TLC |
| `RunLoopProofs` | the invariant `LoopInv` and proofs that it is inductive, and of the safety properties |
| `Generator` | stack switches, frame chains, exceptions; its properties and `GenInv` |
| `MCGenerator` | Generator for TLC, with its symmetry |
| `GeneratorProofs` | proofs that `GenInv` is inductive, and of the safety properties |

### GCHeap and the code

Variables: `alloc` (the FREE bit and the bump rule of `cell_is_allocated`),
`color` and `epoch` (the bitmap's color and the parity of `mark_epoch`),
`slot` (the traced fields, as the specops' Scan visits them), `dirty`,
`pinned`, `fwd` (headers), `remset` and `overflowed` (the live buffer),
`todo` and `walk` (the snapshot buffer of the running minor), `wl` (either
worklist), `loc` (everything outside the heap that refers into it), `pc` (the
phase).

| action | code |
|---|---|
| `AllocYoung`, `AllocLos`, `AllocFallback` | the three paths of `_ejs_gc_alloc`, with the constructor's plain stores |
| `Store` | a field store and `_ejs_gc_remember` after it |
| `Load`, `Move` | compiled code moving values between fields, locals and roots |
| `MinorBegin` .. `MinorSweep` | the numbered steps 0, 1, 1.5, 2, 3, 4 and 6 of `_ejs_gc_minor_collect`; steps 3 and 4 take one object at a time in any order |
| `FullRoots`, `FullStacks`, `FullDirtyRoots`, `FullMark`, `FullSweep` | `mark_from_roots` to `sweep_heap` |
| `CompactEvacuate`, `CompactFixup`, `CompactRelease` | steps 1 to 3 of `compact_old_gen` |
| `FullFinish` | `remset_rebuild_after_full_gc` and `mark_epoch_advance` |

Abstractions, and why they are sound for the properties:

* One size class, no pages. A page with a pin is not evacuated, so compaction
  moves *some* set of unpinned old cells: the model moves any such set, which
  includes every choice the page statistics can make. The nursery has one cell
  per page, so a survivor page is a surviving cell.
* `StaleWords` are addresses a conservative scan meets that the program no
  longer uses: integers that look like pointers, dead stack slots.
* The stacks of suspended generators are words of `CStack`. A minor scans them
  through the registry, as modelled; a full collection scans one when it marks
  the generator object, and the model scans all of them with the thread stack.
  A generator's Scan runs again in the compactor's fixup and pins what its
  stack names; pins set on cells that the walk has already passed outlive the
  cycle (`Repinnable`).
* Allocation and the constructor's stores are one step. Constructors that
  allocate between birth and their last store are in the plan.
* Worklists are sets: an object is pushed only when its color changes, so no
  property depends on order or multiplicity, and any order is explored.
* Not modelled: the shutdown collection (marks nothing, frees everything),
  `EJS_GC_COMPACT=off` and `EJS_GC_NURSERY=off`, profiling; `EJS_GC_VERIFY`
  and `EJS_GC_PARANOID` appear as the properties they assert.

### MapData and the code

Variables: `entries` (the list from `head_insert`; it is never shortened),
`iter` (per iterator object `next_index`, and whether `iterated` is undefined),
`stack` (the C frames of `forEach` and `getOrInsertComputed` whose callback is
running, innermost last). `seen` and `shrunk` are history variables for the
properties.

| action | code |
|---|---|
| `Set` | `_ejs_map_set`, `_ejs_set_add`, `getOrInsert` of an absent key |
| `Delete`, `Clear` | `_ejs_map_delete`, `_ejs_set_delete`, `clear` |
| `NewIterator`, `NextEntry`, `NextDone` | `_ejs_map_iterator_new`, `next()`: the scan counts live entries and returns the one whose count is `next_index` |
| `ForEachBegin`, `ForEachNext`, `ForEachReturn` | the loop of `forEach`, cut at its calls of the callback |
| `ComputeBegin`, `ComputeReturn` | `getOrInsertComputed`, cut at its callback |
| `Throw` | a callback throws out of either |

Abstractions: keys are classes of SameValueZero, so -0 and +0 are one; reads
(`get`, `has`, `size`) change nothing and are not actions; one collection, since
collections share no state; a Set is a Map whose values do not matter (its `add`
leaves a present entry alone, which is the case of `Set` with the same value).
`forEach` on a list without live entries calls nobody and changes nothing.
Receiver checks and the write barrier are left out: a collection never frees a
list entry before its Map, and what the barrier must do is GCHeap's subject.

### Promise and the code

Variables: `state`, `result`, `fulfillReactions`, `rejectReactions` (the fields of
EJSPromise; a list holds the numbers of its records), `reactions` and `freed`
(every record ever allocated, and those the destructor has freed), `pairs`,
`alreadyResolved` and `held` (calls of CreateResolvingFunctions, their shared
flags, the pairs the program has), `jobs` and `begun` (the tasks in the loop, as a
log), `mode` (whether program code runs, and whether a job has called it).
`follows` is a history variable.

| action | code |
|---|---|
| `NewPromise`, `StaticResolve`, `StaticReject` | `new Promise`, `Promise.resolve`, `Promise.reject` |
| `Then` | `then` and `catch`, with the capability of the derived promise |
| `CallResolve`, `CallReject` | the program calls a resolving function |
| `ReactionTask`; `HandlerBegins`, `HandlerReturns`, `HandlerThrows` | PromiseReactionTask, cut at its call of a handler of the program |
| `ThenableTask`; `ForeignThen`, `ThenReturns`, `ThenThrows` | PromiseResolveThenableTask with a promise, and with an object of the program's |
| `CallbackBegins`, `ProgramReturns` | the loop calls and leaves program code |

An executor is the program code that follows `NewPromise`. A thenable whose
`then` throws when it is read is left as the code leaves it: the promise stays
pending without a job. The constructor of a derived promise is always Promise,
`all` and `race` are not modelled, the unhandled-rejection report changes no state.

### RunLoop and the code

Variables: `task` (which task's record is at an address), `heap` (libuv's timers in
the order they will run, with the delay left), `running`, `data` (per task what
the properties need: delay, repeats, fired, cleared, rooted), `handle` (the address
in a Timer object), `queueEnd` (the last handle of libuv's list), `status`. `mine` and
`misused` are history variables.

`AddTask` and `SetTimer` are `_ejs_runloop_add_task` and `_add_task_timeout`,
`ClearTimer` is `_ejs_clearTimer`: through a stale address it stops whatever is
there or nothing. `Fire` is libuv's `uv__run_timers` for one timer up to the
callback, `Finish` and `KeepTask` the rest of `invoke_task`; `Tick` is the clock, which
may make several timers due at once. The uninitialised `repeats` of a task without
timeout is a choice of `KeepTask`.

`Finish` frees a record and leaves it in libuv's list of handles, as `free` without
`uv_close` does. The code never walks that list (`uv_walk`, `uv_close` and
`uv_loop_close` are not called); only its end is followed, by `uv_timer_init`, which
links the new handle behind the last one through a pointer into that record (`Link`).
When that record has been freed and malloc has not just given its address to the new
task, the write is undefined: it does no harm, or the behaviour ends (`status`). What
the write does to memory that by then serves some other purpose is not modelled, nor
are the loops of other platforms.

### Generator and the code

Variables: `cur` and `frames` (the stack the machine is on, and per stack the active
functions: has each a record, and what its `prev` reaches), `head`
(`gc_frame_head`), `raising` (an exception is under way), `registry`,
`generators`, `gen` (the fields of the generators: flags, what the saved context is,
caller, and the chains parked with it), `status`.

| action | code |
|---|---|
| `Call`, `Return` | the prologue and epilogue that link and unlink a record |
| `Throw`, `NativeCatch`, `EmittedCatch` | exceptions; `_ejs_invoke_closure_catch` puts the head back, a catch block relinks its function's record if it has one |
| `New`, `Finalize` | `_ejs_generator_new`, the finalizer |
| `Advance`, `ThrowInto`, `ReturnInto`, `ReturnUnstarted` | next, throw and return, each up to the code that runs on the generator's stack |
| `Yield`, `Complete` | `_ejs_generator_yield` up to its switch, the end of `_ejs_generator_start` |

A chain is modelled as the set of its records. `Land` obeys an order in the step
of the switch that brings it, since nothing runs in between. Two things end the
behaviour as `"undefined"`: resuming a generator that already runs (its stack is
overwritten), and a catch that leaves the head on a record that is gone (run
v_catch). The 257th nested resume ends it as `"aborted"`. Sent values, results and the
async generators built on top are not modelled.

## 3. What the runs check

Twelve runs; seven pass, five exhibit a disagreement between the code and its
documentation.

* **gc_heap** (`MCGCHeap.cfg`, 2.8 million states): two nursery cells, three
  old cells, one LOS cell, up to three objects with one field, one root, one
  gc-frame slot, one stack word, a remembered set of one entry, so that the
  second old-to-young store overflows. Checks `NoDangling`, `BarrierCoverage`,
  `VerifyWalk`, `TriColor`, `SweepExact`, `FixupReadsLiveCells`,
  `WhiteBetweenCycles` and `StackWordsStay`, with the type invariant.
* **gc_inductive** (`MCGCHeapInv.cfg`): two fields per object, a remembered
  set of two, pins that outlive a cycle. Checks `IInv` itself, and
  `RemsetDiscipline`.
* **gc_refine** (`GCHeapRefine.cfg`): `ImplementsObjectGraph`, `OneHome` and,
  under fairness, `CollectionEnds`.
* **v_fallback** (`MCGCHeapFallback.cfg`): with the constructors' plain stores
  as the code has them (`FallbackRawStores`), an object that is born old
  because every nursery page is pinned escapes the barrier, and the
  `EJS_GC_VERIFY` walk of the next minor finds the missed edge. The other runs
  and the proofs set `FallbackRawStores` to FALSE: they hold once such an
  object is barriered or born DIRTY, as LOS objects are.
* **v_frames** (`MCGCHeapFrames.cfg`): the comment on `gc_frame_head` says
  gc-frame slots are processed before the conservative pins and so always
  move. The code pins first, deliberately (its own comment at step 1.5 gives
  the reason); the run shows a frame-held object that stays.
* **map_data** (`MCMapData.cfg`, 80 thousand states): three keys, two values,
  one iterator, lists of up to four entries, callbacks two deep. `KeysDistinct`:
  no interleaving of callbacks leaves two entries for a key. `ImplementsMap`:
  each step is one operation on a partial map or leaves it alone.
  `IteratorForward`, `IteratorComplete`, `ForEachComplete`: what traversals
  promise when the list changes under them. `MapInv` is the invariant the
  proofs rest on.
* **v_iterator** (`MCMapDataSkip.cfg`): set two keys, take one entry from an
  iterator, delete that key: the next `next()` reports done and the second key
  is never returned. `IteratorComplete` in the run before is the promise that
  the code does keep: an iterator misses entries only after one it had returned
  was deleted.

* **promise** (`MCPromise.cfg`, 560 thousand states): three promises, one value,
  four reactions, two pairs of resolving functions each. `OneResolver`: of all the
  pairs that exist for a promise at most one can still decide, and a promise
  nobody can settle has a job that will make the next pair. `ReactionsInOrder` and
  `ScanSafe` relate lists, jobs and freed records; `ImplementsFuture` is the
  refinement; `AdoptionCompletes` is liveness: if every callback returns, a promise
  settles after the one it follows. `PInv` is the invariant of the proofs.
* **v_promise** (`MCPromiseFreed.cfg`): RejectPromise clears the fulfill list twice
  and the reject list never; after the job the list names a freed record.
* **run_loop** (`MCRunLoop.cfg`): three addresses, two timers, four tasks, delays
  up to two. `NoFreedTask`, `ClearedIsSilent`, `StaleOnlyAfterFiring` and
  `NoTaskLost` are about clears through right and stale addresses; `NoFreedTask` speaks
  of the timers that uv_run runs and of the task on the stack, not of the list of
  handles. `FreedHandleNeedsTimer` does: `uv_timer_init` writes through a freed
  record only in the callback of an interval, or of a timer with a longer timeout than
  the task added last; promise jobs that queue promise jobs never get there. The
  write does occur within the bounds: a job is added after a timer, runs first and
  is freed, and the timer's callback adds a task at another address.
  `TasksInOrder` is about the order promise jobs rely on, `EveryTaskRuns` is liveness.
* **generator** (`MCGenerator.cfg`, 2.6 million states): three generators, two
  nested, two functions on each stack. `FramesWalkedOnce`: every record of a
  function that has not returned is in exactly one of the chains a collection
  walks. `ChainIsStack`: `generators[]` is the stack of stacks the machine will
  return through, with the right extents. `OrdersObeyed`: no order outlives its
  switch. `GenInv`, the invariant of the proofs, implies all of these and is left to
  the proofs.
* **v_catch** (`MCGeneratorCatch.cfg`): a function without a record catches what
  was thrown through one with a record; the head stays on the unwound record. The
  other run and the proofs say what holds until that happens.

The bounds are enough for the interesting cases: two nursery cells let one
object be pinned while another moves, an owner in each of old pages and LOS,
overflow and no overflow, a chain root - old - young, a cycle, a compaction
that moves a DIRTY object, and two consecutive cycles of each kind, so both
epoch parities. `MaxObjects` caps the live cells, `MaxRepins` the pins that
outlive a cycle. There is room for every promotion, as old generation growth
provides (the code aborts when the system is out of memory). Nursery and old
cells are each interchangeable, hence the symmetry; the run with liveness uses
none. For MapData, four entries over three keys let a deleted key be appended
again behind a suspended traversal, with a live entry on either side of the
tombstone; a callback inside a callback is enough for each kind of frame to be
interrupted by each other. An iterator neither reads nor writes what another
one has, so one suffices. Three promises make a chain (one follows another, and a
third is derived from either), two pairs let a promise be resolved a second time;
four reactions hold a followed promise with a `then` before and after it settles.
Three addresses for four tasks force the reuse of one while two are held. A
third generator is needed to be refused at the nesting limit of two, two functions
a stack to have a record above and below a function without.

Fairness: `WF_vars(Collecting)`. A collection is straight-line code on a
stopped world, so once begun it takes its next step; nothing is assumed about
the mutator, which may never collect. `WF_vars(Loop)` in RunLoop: `uv_run` with
UV_RUN_DEFAULT goes on as long as a timer is active. `SF_vars(RunTask)` in Promise:
jobs are tasks of that loop, each behind finitely many others (`TasksInOrder` and
`EveryTaskRuns` of RunLoop); strong, since the loop is taken away and given back by every
callback. The liveness properties assume in their own statement that callbacks
return.

## 4. What is proved

The collector, for every value of the constants that satisfies the three
assumptions of GCHeap (the address ranges are disjoint, so are the kinds of
locations, the bounds are naturals). `TypeCorrect` needs nothing else; the theorems of
GCHeapProofs also assume `BarrieredFallback`, that `FallbackRawStores` is
FALSE: run v_fallback shows that they fail without it. So do those of
GCHeapSweepProofs and GCHeapRefineProofs.

The argument is one inductive invariant, `IInv`. The safety properties speak
of the mutator's states or of one phase; none is inductive. What is needed in
addition, part by part:

* `SlotsLive`, `LocsLive`: references name allocated cells in *every* phase;
* `Forwarding`: records lead from a moved cell to a copy that has not moved;
* `Colors`, `Worklist`, `Snapshot`: what each phase may find in them;
* `MinorClean`: every slot the minor has processed names only cells that the
  sweep keeps, every other old object is still awaited (`Awaits`);
* `Covered`, `Queued`, `EntriesOnce`: DIRTY, the remembered set and the edges
  agree, through the snapshot swap and through a compaction that has moved the
  owner of an entry (`Fixed`);
* `Marked`, `Pins`, `Compacted`: the full collection's counterparts.

GCHeapProofs restates `IInv` for each group of phases (`MutatorInv`,
`MinorInv`, `MarkInv`, `SweptInv`), proves one lemma per action, and derives
`NothingDangles`, `BarrierCovers`, `RemsetDisciplined`, `VerifyWalkPasses`,
`TriColorHolds`, `WhiteBetween`, `FixupIsSafe` and `StackWordsHold`.

`SweepIsExact` says more than that a full collection is safe: it frees all there is
to free. Half of it is `Marked` of `IInv`: at the end of marking no cell that
is kept names one that is not. The other half says that nothing is kept for no
reason, and needs an invariant of its own, `MarkExact`: while a full collection
marks, the gray and black cells lie in every set that contains those it starts
from and is closed under references (`Spread`). Coloring (`GrayExact`) and
scanning (`MarkStepExact`) keep it. "Reachable" is defined as the least such set
in the modules `GCHeap` and `ObjectGraph`, which says what a recursive search
computes and can be reasoned about without induction over paths.

`HeapImplementsGraph` is the refinement. It needs that there are enough
identities for the objects (`IdentityAssumption`: finitely many cells, and as many
identities as the heap may have live cells), since the history variable picks a
fresh one at each allocation. The inductive invariant is `IInv` with `IdentInv`:
each cell has an object, no two current cells have the same, and a cell that was
evacuated has the object of its copy. The proof is in three parts.

* What a graph reaches is determined by any closed part of it (`ReachableSame`),
  so forgetting what is not reachable may be done late (`ForgetReachable`): a
  collection that frees a cell frees nothing the graph remembers.
* A collection's step is invisible (`MinorInvisible`, `FullInvisible`). By
  `ViewKept` it is enough that each location stands for the same object as before,
  and each current cell for an object that was current, with the same fields. A step
  that rewrites references follows forwarding records, which lead to the same object
  (`ResolveSame`); one that copies cells gives the copy the object of the original
  (`MoveIdent`, `MoveView`); one that frees cells frees none that a current cell
  or a location names (`FreeView`).
* A step of the program is a step of the graph (`MutatorSim`): a new cell
  stands for an object that is not in the graph (`BirthSim`), a store writes one
  field (`StoreSim`), the other steps assign (`AssignSim`).

`EveryObjectHasOneHome` follows from the same invariant.

`CollectionsAdvance` is the part of liveness that can be proved: each step of a
collection goes to a later phase (`Stage`) or shrinks one of three sets, in
lexicographic order (`Shrinks`): the owners the minor has still to visit, the cells
that may still be pushed on the worklist (`Unvisited`), the worklist. The sets are
subsets of the cells, so a finite heap allows no infinite collection. TLC adds
what is missing for `CollectionEnds`, that a collection is never stuck.

For Map and Set everything the run checks is proved, for any keys, values,
iterators and bounds, from `EmptyAssumption` and `MapBounds` alone. None of the
properties of traversals is inductive: that an index or a pointer is right says
nothing until it is tied to the list. `MapInv` does that. For an iterator, the
live entries up to any it has returned are at most `next_index`; as long as none
it had returned was deleted, what it has returned is a prefix of the live
entries, and `next_index` is its size. For a `forEach`, every live entry up to
the pointer has been visited. The lemmas `Upserted` and `Emptying` say what a
change of the list does to these prefixes (nothing, or take entries away), and
each action's case follows from one of them. `IteratorMissesNothing` fails
(v_iterator) because the second half of the iterator's part holds only until a
returned entry is deleted. `ListImplementsMap` is the refinement: initial states
map to the empty map, each step to one operation of `PartialMap` or a stutter.

For Generator every property of the passing run is proved, for any number of
generators, frames and nested resumptions, from `StackBounds` and `MainIsNone`. That a
collection walks each record once is not inductive; `GenInv` says why it is so. Each
function's `prev` is the chain of the functions below it on its own stack
(`PrevIsOwn`), so a catcher that puts back what it saw when it was called puts back
that chain. The chain of a stack is in the one place its next switch will
take it from (`ChainsAreHome`): the head, the generator, or the record of the caller.
`Lives` ties the flags to the context: a generator that has started and not
completed either runs or waits at a yield, so an order never reaches a trampoline.
With `ChainIsStack` the stacks from the program's to the running one are all
different (`StacksDiffer`), chains of different stacks are disjoint
(`OwnDisjoint`), and every stack is in one of the places (`StackPlaces`). Steps on
the running stack are instances of `FramesStep`, switches of `PushStep` and `PopStep`.

For Promise every safety property of the passing run and the refinement are proved,
for any number of promises, reactions, pairs and jobs, from `Kinds` and
`PromiseBounds`; three promises could not show that a longer chain of followers
adopts the right outcome. None of the properties is inductive, and `PInv` is what they
have in common. `Lists` and `Queued` follow a reaction from its list to the queue: the
lists of an unsettled promise hold exactly its reactions in order, the queue holds
exactly those of the side it settled on, so a job is queued once and a freed record is
in no list but the one RejectPromise forgets. `LastPair` says that all pairs but the
last have been called, `WaitingJobs` that an uncalled pair and a job that will make
one exclude each other: `OneResolver` is their sum. `HandlersFit` is what the
refinement needs: a reaction whose handler is an uncalled resolving function belongs
to the promise that its owner follows, on the side that the function settles. So the
job of such a reaction is `Adopt`, and every other first call of a pair finds the
cell open. `Decided` and `NewPair` carry the resolvers' part of the invariant through
all calls of a pair and all makings of one; `SettleLists`, `QuietLists` and
`PerformedThen` carry the lists.

For RunLoop every safety property is proved, for any number of addresses, timers and
tasks and every longest timeout, from `LoopBounds` and `NoAddress`. `LoopInv` says of
the heap (`HeapGood`) that an entry's task is allocated, not cleared, and repeats if
it has been called; that no address is in it twice; and that of two tasks that wait for
their first call the older one with no longer timeout stands in front. The last part is
what order needs: `TasksInOrder` compares the timeouts the tasks were given, while
libuv sorts by the delays that are left, and the two only agree because a delay left is
never longer than the timeout (`MayRun`). `TasksGood` says that a number is at one
address only, so stopping the timer at an address silences one task and no other;
`HandlesGood` when an address is stale. `QueueGood` says that the end of the list of
handles is the record of the task added last, freed only if that task is done, and that
then whatever waits or runs repeats or has a longer timeout: when the last task was
called, the order part of `HeapGood` had everything else with no longer timeout in front
of it. That is `FreedHandlesNeedTimers`. libuv's operations have lemmas of their own:
what uv_timer_stop and the removal of the first timer leave is the old heap without the
entries at an address, in order (`WithoutIsLess`, `TailIsLess`); what uv_timer_start
makes is the old heap with one entry more (`PutFacts`). `LessGood`, `FrameGood`,
`PutGood` and `TickGood` carry `HeapGood` through these, and each action combines them.

Every safety property, action property and refinement that a passing run checks is
proved. Only model-checked is liveness, which the prover does not handle:
`CollectionEnds` of GCHeapRefine, `AdoptionCompletes` of Promise and `EveryTaskRuns` of
RunLoop.

## 5. Plan

In this order; each item is a module with its run, and the theorems named.

1. The set-algebra methods of `ejs-set.c`, which call back into a second
   collection while they walk the first, and `groupBy`.
2. Promise and Generator composed with GCHeap's barrier: the stores of
   `ejs-promise.c:600` and `ejs-generator.c:262`, which have none.
   `Promise.all` and `race`.
3. `CompactSelect`: the selection arithmetic of `compact_old_gen` over page
   statistics; the destination never runs dry, the unsigned difference never
   wraps. Theorem for every page size.
4. `GCPages`: nursery pages, bump cursors, survivor pages, budget, retire and
   install, composed with 3; `GCPolicy`: counters and triggers.
5. `GCConstruct`: constructors that allocate between birth and their last
   plain store, composed with GCHeap's barrier.
6. `Shapes`, `WeakMap`, modules and their cycles, then guard elimination of the
   compiler.
7. Proofs: what `CollectionsAdvance` is for the collector, for the run loop and the
   job queue of promises.

## 6. Findings and hazards

`PROJECT.json` lists the hazards of the code at their lines, with the
properties that cover them, and the five findings with what they contradict. Not
covered by a property: `then` appends to a promise's lists and
`_ejs_generator_throw` stores `sent_value` without the barrier
(`ejs-promise.c:600`, `ejs-generator.c:262`); the selection of pages to compact
(`ejs-gc-major.c:180`); constructors that allocate (`ejs-gc.c:387`); the stress
cadence (`ejs-gc.c:110`); what a conservative scan reaches (`ejs-gc-mark.c:296`).

Some are in a model but no property can catch them going wrong. A generator resumed while
it runs (`ejs-generator.c:254`) ends the behaviour, as does the catch of run v_catch, which
has a finding. The uninitialised `repeats` (`ejs-runloop-libuv.c:20`) takes both values, and
all properties hold under either; what is left is a leak, which nothing in the
repository rules out. The write of `uv_timer_init` to a freed record
(`ejs-runloop-libuv.c:24`) may end the behaviour; `FreedHandleNeedsTimer` says exactly which
programs are exposed to it, and no comment or test of the repository that it contradicts
could be quoted for a finding.
