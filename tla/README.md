# Letter Boxed solver: specification, model checking and proofs

The program solves the game Letter Boxed: twelve letters stand on the four
sides of a box, a word is playable if all of its letters are of the box and no
two neighbouring letters are of the same side, and a sequence of words wins if
each word starts with the last letter of the one before and all twelve letters
are used. This directory models the program in TLA+, checks the models with TLC
on small boxes, and proves the central properties with TLAPS for boxes, word
lists and settings of every size.

Paths below are relative to `src/`.

The program is built on a packaged library of its author, `lib/cth`: allocators,
pools, coroutine tasks, awaiters of a websocket, checks and terminal output.
Its parts that have state are modelled as well, each by a module of its own.

## 1. The system

### Data flow

    text of the list --word_ends--> ends --filter_and_hash--> words + masks
    typed letters --gen_compression_index--> index, side masks ---^
    words + masks --build_graph--> nodes with edges --solve_raw/dfs--> paths
    paths --trace_solutions--> chains of word variants --> printed

The solver runs on one thread, each stage on the finished result of the one
before it. No stage talks back. What is shared between stages are positions:
of words in the text, of words in the filtered list, of edges in a node, of
nodes in the box.

### Inventory

| component | source | state | operations | what makes it correct |
|---|---|---|---|---|
| word_ends | `lbs_solver/incl/solver/index.hpp:60-148` | block index, reused buffer or bit mask, result | `split` in two builds (std::simd, scalar), `word_ends` | every separator once, in order, then the end of the text; no write outside of the buffer |
| word_filter | `index.hpp:150-259`, `util.hpp` | begin, letter index, running mask, kept words | `gen_compression_index`, `gen_char_filter_masks`, `bit_flag`, `filter_and_hash` | exactly the playable words are kept, with exactly the mask of their letters |
| build_graph | `solver.hpp:182-221` | nodes with their edges | `init_nodes`, `build_graph` | words are merged if and only if ends and letters are equal; none is lost |
| solve_raw | `solver.hpp:42-149`, `algorithm.hpp` | three stacks of `dfs`, state cache, solutions | `router_node`, `early_terminate_instance`, `dfs`, `solve_raw`, `compress_hash`/`delete_bit` | only winning paths, each once, a shortest one first, none missed by pruning, an end |
| puzzle | `solver.hpp:153-247`, `runner/src/main.cpp:25-40` | none of its own | `solve`, `trace_solutions`, `print_solutions` | what is printed wins, "no solution" is true |
| runner_input | `runner/src/main.cpp` | sides typed so far | `read_sides`, `dyn_load`, `pause` | the box has 12 letters; asking comes to an end |
| bench | `runner/bench/` | second solver's words | `LetterBoxedSolver::run`, comparison | both solvers agree on what is solvable |
| cth_coro | `lib/cth/incl/cth/coro/`, `net/coro/` | frames with payloads, queues of schedulers, fences, a switch counter, readers of a connection | `sync`, `co_await` of tasks, `schedule`, `steal`, `signal`/`wait`, `acquire`/`release`, `read_text`/`read_bytes`/`wait` | one resumer per frame, coroutines come back to their scheduler, no lost wake-up, messages in order |
| cth_data | `lib/cth/incl/cth/data/` | ring counters, nodes and bins of a simulated RAM, pool and bindings, forest, arrays in a buffer | alloc, free, defragment, acquire, release, merge, find, assignment | no overlap, no leak, refusals only for lack of room, the groups merged |
| cth_algorithm | `algorithm/combine.hpp` and wrappers | partial assignment, level of capacities | `assign`, `unique_combine` | an assignment is found if there is one, as even as possible |
| cth_support | `io/log.hpp`, `io/console.hpp`, `os/native_handle.hpp`, `ptr/` and helpers | a report, a stack of terminal states, handles | checks, `col_stream`, owning handles | reports once, colours as asked for, handles closed once |
| build_and_ci | build files, pipelines, word lists | - | - | - |

`PROJECT.json` lists the same components with their status, and the hazards of
the code at their lines with the properties that watch them.

### What is hard here

The solver is sequential: its difficulty is not interleaving but state that
outlives its meaning, and positions handed from stage to stage.

* `dfs` (`algorithm.hpp:49-81`) keeps three vectors in step with three separate
  pushes and pops. `path` is never shortened, so its tail belongs to abandoned
  branches.
* The state cache (`solver.hpp:92-140`) survives the iteration that wrote it;
  an entry means something else in the next one.
* The mask that indexes the cache has lost a bit (`delete_bit`).
* The search graph has cycles and no visited marks.
* `split` writes an index before it knows whether it is one of a separator, and
  never clears its buffer.
* `filter_and_hash` subtracts unsigned positions, judges a letter by its
  neighbour only, and shifts by the flag of a foreign letter.

The packaged library `lib/cth` is where threads meet. The solver calls only its
file, format and log parts; the rest is a library of its own.

* `ring_alloc` commits with a compare and exchange on counters it read one
  after the other; another thread may do anything in between.
* `global_switch` changes its counter and calls back outside of it;
  `atomic_fence` exchanges its flag and notifies later.
* A coroutine is resumed wherever what it awaited ended. `schedule_awaiter`
  must have told the promise its new scheduler before the frame is posted, and
  the last task must not be touched after its fence was signaled.
* Two readers of one connection are woken by one message, and each then calls
  `wait()`, `got_text()` and a read one after the other.
* `miniram` keeps one set of nodes in a list by address, in lists by size and on
  a stack of free ids; `defragment` rebuilds them in place.

## 2. Modules

| module | models |
|---|---|
| `BoxGraph` | letters, nodes, edges, paths: the vocabulary of builder and search |
| `ChainSearch` | what a search promises, abstractly: distinct covering chains, first one as short as possible, none only if there is none, an end |
| `SolveRaw` | `solve_raw` and the `dfs` it runs |
| `Splitting` | what `word_ends` has to answer |
| `SplitData` | its inputs and the block size |
| `SplitScalar`, `SplitSimd` | the two builds of `split`, each with `word_ends` |
| `WordEnds` | both builds on one text |
| `BoxIndex` | compression index, side masks, `bit_flag` |
| `WordFilter` | `filter_and_hash` |
| `BuildGraph` | `init_nodes`, `build_graph` |
| `Solver` | the composition: filter, builder, search, `trace_solutions`, output |
| `GptRunner`, `Bench` | the second solver of the benchmarks, and its comparison with the first |
| `MiniRam` | `basic_miniram`: nodes, bins, free ids, `defragment` with the moves it reports |
| `RingAlloc` | `ring_alloc`, one step per access of an atomic |
| `ThreadPool` | `pool` and `thread_pool` over thread ids that the system uses again |
| `UnionFind` | `union_find` with path halving |
| `PolyVector` | the layout of `raw_poly_vector` and its copies |
| `Owners` | the owning handles, class by class |
| `Coroutines` | tasks, promises with payloads, awaiters, `steal`, `sync` |
| `CoroutinePrograms` | example programs of coroutines |
| `AtomicFence`, `GlobalSwitch` | the classes of those names |
| `WebSocket` | the awaiters of a connection |
| `Combine` | `assign` and `unique_combine` |
| `Console`, `Checks` | `col_stream`, the checks of `log.hpp` |
| `Cth` | the parts of the library side by side, with what is checked of each |
| `*Proofs` | theorems of the module they are named after |
| `MC*` | inputs for TLC |

### How state and actions correspond to the code

**SolveRaw.** One action is one turn of the `while` loop of `dfs` with the whole
`next_state_fn` callback it makes; each way through the callback is an action:
`EnterBox` (the router's edge), `Leaf` (a path of full length, reported if it
covers the box), `ExpandUncached` (below the threshold), `CachePrune`,
`CacheExpand`; `Backtrack` is the turn on an exhausted level, `StopDfs` the stop
function, `NextDepth`/`LastDepth` the turn in which `dfs` returns, together with
the step of the `for` loop. A `subrange` on the stack is a node and a position
in its edges. `path` is overwritten and never shortened, as in the code. A mask
is the set of its one bits; `DeleteBit` moves the bits above the deleted one
down, and the cache is indexed by a node and the compressed mask.

**SplitScalar / SplitSimd.** Blocks, the write-then-advance compaction, the
extraction of the lowest bit, the padded last block.

**WordFilter.** `TakeWord` and `SkipEmpty` are the head of the loop over the
ends, `NextLetter`, `Drop` and `Keep` the loop over letters. A shift by more
than the width of the mask is undefined; `BitFlags` chooses among what a
processor and a folding compiler produce.

**BuildGraph.** `NewEdge` and `AddVariant` are the branches of the loop.

**Solver.** Instances of the three modules above run one after the other on
shared variables: the builder reads `words` and `wordHashes` of the filter, the
search reads the edges of the builder, and `Trace` turns one path after the
other into variants. The properties are stated on letters and text alone,
without index, mask, node or edge.

**Bench.** The comparison that ends the benchmarks: the second solver is an
operator over the same text and sides, evaluated in the state in which `Solver`
has printed. It has its own filter, marks used letters and searches by depth;
its recursion is a function of the number of words left, so one call of `dfs` is
`Dfs` applied to the calls below it. `SolversAgree` names the words and boxes on
which the two must agree.

**MiniRam.** `Allocate`, `Free`, `ReserveAllocations`, `ClearAll` and `Resize`
(which defragments) are the calls; each is one step, since the class has no
atomics. Sizes are rounded to floats
of a mantissa as in `toFloat`, up in a search and down in an insertion, so a
bin stands for a range of sizes. The state is what the arrays hold: the node
records with their neighbour and bin links, the heads of the bins, the stack of
free ids and its pointer. `MaintainedSpec` adds `ClearAll` and `Resize` to the
calls of `Spec` (see findings).

**RingAlloc.** A thread in a call is a record of what it read so far. `StartAlloc`
reads the head, `Refuse`/`Fits` read the tail and decide, `Commit`/`RetryAlloc`
are the weak compare and exchange that succeeds or fails (for no reason, too);
`StartFree` to `RetryFree` likewise. Regions handed out are kept in `live`.

**ThreadPool.** Calls are steps, because the mutex is held throughout; the work
on a resource (`Use`), the end of a thread and the start of one with the same
id come in between.

**Coroutines.** A program maps names of coroutines to what they do: await
another one, schedule themselves, fail, catch. A frame has its promise
(continuation, payload, fence), a thread the frame it executes and the place in
the library it is at; queues of schedulers hold frames. `Await`, `Schedule`,
`Post`, `Wait`, `Return`, `Signal` and `Notify` are the bodies of
`await_suspend` and `final_suspend`, `Resume` and `Fire` the scheduler,
`Start`, `FallAsleep` and `Deliver` the thread that called `sync`. `Schedule` and
`Post` are two steps, as in the code: the promise is told, then the frame is
posted and belongs to whoever takes it.

**AtomicFence, GlobalSwitch.** The atomic access is a step, the notification or
callback after it another. `count` is the counter, `calling` who is about to
call which callback, `surplus` and `powered` what the callbacks did. `held`
counts the acquires that have returned and were not released: a release needs
one (`global_switch.hpp:44` calls any other undefined), by whichever thread, so
a hold whose `on` is still to be called is not given back yet.

**WebSocket.** `Await` and `Fire` are `await_ready`, `await_suspend` and the
handle wait of the scheduler. What follows is a step per call on the connection:
`Block`, `Waited` and `FoundClosed` are `wait()`, `LookAtKind` is `got_text()`
and the throw for the other kind, `Take` is `read_text()` or `read_bytes()`.
Between any two of them other readers take their steps, the peer sends and
either side closes. A reader remembers the number of the message its `wait()`
was for and the kind it saw; the log `read` keeps both beside what was taken.
After `wait` the caller looks at the kind and takes the message, or leaves it
(`LeaveIt`). The connection itself comes as a binary: it is modelled by what
`websocket_connection.hpp` says, with calls that are atomic each, a queue that a
close leaves as it is, and a `wait()` that prefers a queued message to a closed
connection. Nothing says what `got_text()` and the reads do without a message:
the first answers anything, and at a read the model ends (`TakeNothing`,
`Intact`).

**Combine, Console, Checks, Owners, PolyVector, UnionFind.** One action per
call, or per turn of the loop in `assign`, or per place in a check at which a
macro hands over to the next.

**Cth.** `INSTANCE`s of the library's modules. They share no state, so a
behaviour is one of a single part that `unit` names, chosen in `Init`; the
others keep an initial value. This is how thirteen small state spaces are
explored one after the other, instead of their product, which would say no more.

### Abstractions

A character is a model value; a word read by the builder is its first and last
index and its mask. Memory addresses, reservations, formatting and logging are
left out. `CTH_CRITICAL` conditions hold for all inputs modelled. Two parts of
the box are shrunk for TLC only (see bounds); the theorems keep `BoxChars`,
block sizes, alphabet, lists and settings arbitrary.

## 3. What is checked

| run | question | result |
|---|---|---|
| `solve_raw_small` | do the stacks stay in step, are only solutions returned, each once, does the compressed key keep states apart, does a ceiling only sink, and does `SolveRaw` implement `ChainSearch` - with an iteration that bypasses the cache, a least size of two and a limit of two solutions hit in mid-iteration? | holds |
| `solve_raw_chains` | with the shipped threshold: is a ceiling the shortest distance to its state, is no final word lost over several iterations? | holds |
| `solve_raw_optimal` | does pruning spare paths of optimal length, as `README.md:18` says? | violated |
| `word_ends` | do both builds find the end of every word, without writing behind the buffer? | holds |
| `word_filter` | are exactly the playable words kept, with exact masks? | holds |
| `word_filter_alone` | is no word with a foreign letter kept (`index.hpp:177`)? | violated |
| `build_graph` | one edge per class of equivalent words, no word lost or merged wrongly, and what the search assumes of the graph? | holds |
| `solver` | from text and letters to output: does every printed chain win, is "no solution" true, does a box with a doubled letter get no answer, do both solvers agree, is the graph what the search assumes, is every puzzle answered? | holds |
| `library` | does each part of `lib/cth` keep its contract, in every sequence of calls and every interleaving of two threads? | holds |
| `miniram_maintained` | is there a free node id when one is asked for (`miniram.inl:447`), also after a defragmentation? | violated |
| `global_switch` | is `global_switch` "designed to be thread safe" (`global_switch.hpp:11`)? | violated |
| `coroutine_steal` | does `steal` bring the caller back to its scheduler (`executor.hpp:30`), also by an exception? | violated |

What the library run checks, part by part: `RamSound` (the nodes tile the RAM,
every hole is in the list of its bin, what `max_alloc` promises is handed out),
`CompactionKeepsData` (the reported moves, carried out in order, keep all data),
`RegionsDisjoint` and `RefusalsHonest` (the ring), `ResourcesApart`,
`ForestExact`, `OwnedOnce`, `BlocksApart`, `OneResumer`, `ComesHome` and
`SyncReturns` (coroutines), `WakesAndBalances` (fence and switch),
`MessagesReadOnce`, `AssignedWithSpread` (against all assignments, by
enumeration), `PrintedAsWanted`, `FailuresReported`.

### Findings

* `solver.hpp:135` prunes a path that reaches a cached state with the *same*
  length in the same iteration. Two shortest solutions that differ in their
  prefix only are therefore not both returned, while the README speaks of
  pruning "longer than optimal paths". What does hold, and is checked, is
  `FinalWordsComplete`: for every covering chain some returned solution is no
  longer and ends in the same word.
* `index.hpp:242`: a word of one letter has no neighbour and passes any box,
  also with a foreign letter, against the comment at line 177. The builder then
  indexes twelve nodes by 4095. The shipped lists have no such word.
* `miniram.inl:168`: `defragment` collects the ids of free nodes at the bottom
  of the stack and leaves the stack pointer behind them. The ids collected are
  lost, and the next node is taken from what earlier calls left above, or from
  behind the end. Because of it the `library` run takes no step that rebuilds
  the object; `CompactionKeepsData` looks at the moves that a defragmentation
  would report in every state it reaches.
* `global_switch.hpp:51`: the callback of the last release can come after that
  of the next acquire, although the counter was changed in the other order: one
  thread releases and is about to switch off, another acquires, switches on and
  returns, and the first one switches off. Nobody is in a call any more, the
  switch is held, and what it switches is off. What does hold is that the calls
  balance and that the counter is the number of holds (`WakesAndBalances`).
* `steal.hpp:25`: an exception of a foreign awaitable leaves the capture task
  before it moves back, and the caller catches it on a thread of another
  scheduler than its payload says. Without exceptions `ComesHome` holds.

Three more things the models show. `util.hpp:37` shifts letters outside of the box
by 4095 in 32 bits before their word is dropped: undefined, and modelled as a
choice over what a build can produce; `HashesExact` and its theorem show that
the result never reaches a kept word. And `ring_alloc` may refuse in an empty
ring, when the head it read is one that the tail has passed since:
`RefusalsHonest` is stated for a head that is not stale. And two coroutines on
two workers that read from one connection at a time can overtake each other
between `wait()`, `got_text()` and the read: a reader then gets another message
than it waited for, a text as bytes, or reads from an empty queue. The header
does not promise more. `OnlyOvertaken` says that nothing else brings this about,
so coroutines that take turns to read are safe, whatever arrives or closes
meanwhile.

### Bounds, and why they are enough

* `BoxChars` 3 or 4 (12): all 512 graphs whose nodes own a sub-vector of a pool
  of edges with loops, cycles, parallel edges with equal and with growing masks
  and a word that covers the box alone; over four letters (1024 graphs) the
  pool has solutions of three words and states met along several paths of equal
  and of different length, which is where the cache decides.
* `MaxSearchSize` 3 as shipped; `MaxSolutions` 20 as shipped and 2, so that the
  limit is hit in mid-iteration; `StateCacheMinDepth` 2 as shipped, where it
  excludes no iteration with a cache worth using, and 3, where one iteration
  runs without the cache.
* Blocks of 3 and 4 characters (256 and 64) and all texts of up to 9 characters
  over a separator and a letter: no, one, two and three blocks, full and
  partial, separators only, none, at both ends.
* `WordFilter`: all texts of up to 5 characters over four letters of the box, a
  foreign letter and the separator, in a box of different letters and in one
  with a letter on both sides (109 631 states).
* `BuildGraph`: all lists of up to 3 words over 3 letters.
* `Solver`: all 1024 sub-lists of ten words and all 256 of eight words of three
  letters and more, in both boxes.
* `MiniRam`: a RAM of 7 units with a one-bit mantissa (so sizes 5 and 7 round
  differently up and down), sizes 1, 2 and 5, four nodes at most, and an array of
  one node that has to grow. Every coalescing (left, right, both, none) and a
  move over less than its size happen.
* `RingAlloc`: two threads, 5 bytes, sizes 1, 2 and 4, positions up to 9: the
  ring wraps nearly twice, pads, and a call can be overtaken by a lap.
* `ThreadPool`: two ids, three resources. `UnionFind`: four elements, all pairs,
  six groups (empty, single, ordered and not). `Owners`: two objects, three
  resources, all four classes. `PolyVector`: a small, a plain and an
  over-aligned type and one of odd size, lengths 0, 1 and 3.
* `Coroutines`: two schedulers, one with two workers, and the programs of
  `CoroutinePrograms` (tasks within tasks, with a payload and without, schedules
  to and fro, waits, failures that are caught or not).
* `AtomicFence`, `GlobalSwitch`: two threads, three outstanding acquires.
  `WebSocket`: two readers, three messages.
* `Combine`: all options of three elements over three places with three
  profiles of capacities, two elements with room for all, and selections.
* `Console`: two colours, a stack of two; `Checks`: every build, level, macro
  and form.

Every search is complete: no state constraint is used. The counters that a bound
of the model stops (`MaxPos`, `MaxStored`, `MaxResources`, `MaxAcquires`,
`MaxMessages`, `MaxStack`) are named as such where they are declared, and the
runs that meet them do not check for deadlock, as are those of calls that may
simply cease.

### Fairness

`SolveRaw` and `Solver` assume weak fairness of their whole next-state relation:
a sequential program that can take its next step takes it. Nothing else is
assumed, in particular nothing about which step. Under it `ChainSearch`'s end
and `Answers` say that the cycles of the graph do not keep the search from
returning. `Cth` assumes weak fairness of the coroutine part as a whole: some
worker that has something to do goes on, and some wait that is pending ends.
`SyncReturns` follows for the programs given, none of which loops. Everything
else states safety only.

Each property of a passing run is paired in `PROJECT.json` with a mutant, an
operator kept next to the one it replaces and commented `Mutant:`, with which
TLC finds the property violated.

## 4. What is proved

All theorems are of the form `Spec => []P` (or an action property) and hold for
every value of the constants that satisfies the named assumptions:
`BoxCharsAssumption`, `SettingsAssumption`, `CacheAssumption` (a depth fits the
`uint8_t` of an entry), `GraphsAssumption` (the mask of an edge holds the bits
of both ends), `DataAssumption`, the block sizes, `IndexAssumption` (the
`static_assert`), `InputsAssumption`, `SeparatorAssumption`,
`WordListsAssumption`, `SolverAssumption` (inputs are texts with the ends of
their words and a box of letters; sizes as in `SettingsAssumption`),
`CthAssumption` (finitely many threads, at least one reader, a ring of at least
one byte, bounds that are numbers, `CoroutinesAssumption`; a capacity that is a
`size_type`; for `combine` at least one `a`, options that are indices of a `b`,
and maxima of one for `unique_combine`). The stages hand the
assumptions on: `BothEndsExact` is what `InputsAssumption` asks for, `BuildIsWordGraph` is
what `GraphsAssumption` asks for, and `SearchedGraphSound` proves the latter for
the composition.

Some theorems have a hypothesis of their own, named in their statement:

* `MinSolutionSize <= 2` in `PruningLosesNone`, `AnswersStepwise` and
  `NoSolutionTrue`. The path that takes the place of a pruned one may have one
  word less, so it is lost if the search starts above its length. The program
  starts at one.
* `MinSolutionSize <= 2` and `StateCacheMinDepth <= 2` in `CeilingsShortest`. A
  cache that is used only from a greater depth is never told of the states on
  shorter paths. The program ships two.
* `OneLetterWordsInBox` in the theorems of `SolverProofs`: a foreign letter that
  is a word of its own passes the filter and is looked up as a node that there
  is not (see findings). Lists of words of two letters and more, as the shipped
  ones are, fulfil it.
* `SizesOfSecond` in `SolversAlwaysAgree`: sizes from one to three, which the
  second solver has built in (`gpt_runner.hpp:168`) and `settings.hpp:15-16`
  ships. With others one of them would search where the other does not.
* `CatchesOwn` of every program in `ComesHomeAlways`: what a task with a payload
  catches was thrown by a task with a payload. The programs of the run `library`
  fulfil it. Those of `coroutine_steal` do not, and `ComesHome` is violated there
  (see findings).

`CoroutinesAssumption` asks of each program what the compiler and the ownership
of tasks see to: it awaits only tasks it has, what is awaited without a payload
does not ask for one (the `static_assert` of `this_coro_awaiter_base.hpp:28`),
only a task with a payload waits by `this_coro::wait`, and no task is awaited by
two coroutines (a task is moved, never copied: `task_base.hpp:32-35`). Since a
`capture_task` has no name in the code and is named after its task in the model,
a task without a payload is awaited at one place of its caller's body. The caller
of `sync` is none of the workers. Tasks may be of any number and nested in any
depth.

### The argument, module by module

* **SolveRawProofs.** The inductive invariant is `TypeOK /\ StacksAgree`:
  `StacksAgree` alone already says that below the top of the stack the path is
  where the stack stands and that each state is the union of the masks below
  it; type correctness needs it, because whether `path[stack.size() - 1]`
  exists depends on how the stacks relate. `ReportsSound` follows since the
  mask a leaf is accepted for is that union. `ReportsDistinct` needs a
  strengthening: `dfs` meets paths in lexicographic order of their positions,
  so every path reported in this iteration is before the one the stack stands
  on, and earlier iterations reported shorter ones. `KeysLossless` shows that
  the deleted bit is always set (an edge's mask holds its target's bit) and
  that closing the gap is injective on such masks. `CeilingsOnlySink` is an
  action property.
  - *Pruning loses no answer* (`PruningLosesNone`). `Paths(l)` are the paths of
    `l` edges from the router, and `Passed` says of one that `dfs` stands behind
    it or below it. `CacheTrue` says what an entry was written for: some path of
    `ceiling` edges leads to this node with these letters, and if the entry is
    of this iteration that path was passed. `AnswersInv` says that each covering
    path of an earlier iteration, and each one passed in this, has a witness: a
    solution no longer that ends in the same edge. Only a prune can break it.
    There `Dominated` takes the path the entry was written for and puts the rest
    of the pruned path behind it (`SplicedIsPath`): it covers the same letters.
    If it is shorter, an earlier iteration has answered it; if it is as long, it
    was passed in this one. The key holds the end node and the letters, so what
    is spliced is a path again, and `KeysLossless` is what makes the key enough.
  - *Ceilings* (`CeilingsShortest`). `KnownInv` says that a state on a path
    shorter than the depth by two, or on a passed one shorter by one, has an
    entry no higher than that path; `ShortInv` follows from it when an entry is
    written. Although the search is depth first and prunes by these very
    entries, a pruned path is spliced like above, so nothing shorter is hidden.
  - *Refinement* (`AnswersStepwise`). `Init` and every step of `SolveRaw` are one
    of `ChainSearch` or leave what its caller sees: a leaf reports a new chain
    by `OnceInv`, no shorter than the last one and the first as short as any by
    `AnswersInv`; the end without an answer means that there is none.
* **WordEndsProofs.** Each build has an invariant of its own. Scalar:
  the first `separatorC` buffer entries list the separators of the block
  scanned so far, the flushed ones those of the blocks before, and
  `separatorC` is at most the number of characters scanned, so there is room.
  std::simd: extracted indices and pending bits together are the separators
  of the blocks loaded, every pending one behind every extracted one; the
  blocks are aligned, so none reaches past the unchecked end. The std::simd
  result needs `Separator # Nul`: with a zero character as separator the
  padding of the last block would count. The scalar one does not.
* **WordFilterProofs.** The invariant ties `begin` to the end before it, so the
  words before `begin` are decided and exact; inside a word it says that the
  letters so far are of the box and change sides, and that the mask is that of
  those letters. An undefined mask arises only at a foreign letter, and a
  foreign letter overlaps with any neighbour, so such a word is dropped.
  `AllRead` adds that at the end no word is left undecided.
* **BuildGraphProofs.** Variants, placement and distinctness are proved together:
  that variants are exact in the next state needs that no other edge is
  equivalent (`EdgesDiffer`), and that a new edge's class was empty needs that
  every earlier word is placed (`WordsPlaced`). `EdgesUsed` adds that no edge is
  without a word.
* **SolverProofs.** The invariants of the three modules above are used as they
  stand, by instances of their proof modules (`FilterP`, `BuilderP`, `SearchP`)
  in which the lists and graphs they are proved for are those that the stage
  before can hand on. `SolverInv` says how they follow each other: the filter's
  invariant holds; the builder has not begun, or the filter is done and the
  builder's holds; the search has not begun, or both are done and the search's
  holds; and what was traced is the front of the solutions. A step of a later
  stage leaves the variables of an earlier one alone, and a stage that begins
  finds the assumptions of its proof fulfilled: masks exact on distinct
  positions by `FilterExact` and `HashesExact`, a word graph by
  `BuildsWordGraph`.
  `PrintedChainsWin` reads a chain of edges back as words, whichever variants
  are chosen; `NoSolutionTrue` goes the other way, from a sequence of words
  that wins to edges that `FinalWordsComplete` would have answered (`FoundSoFar`
  carries the search's `FoundInv` along). `DoubleLetterNeverSolved`: a letter
  typed twice has one index, so a node is without words and some bit of
  `SolutionMask` is in no edge.
  - *Both solvers* (`SolversAlwaysAgree`). `Closed(n, p)` says that `n` words
    close the box, in terms of neither solver. Both read the same words
    (`GptWords`), and in a box of different letters the second one's table of
    sides and its filter come to the game's rules (`GptSides`, `GptValid`).
    A call of its `dfs` is `Exact`: what it returns closes what is left to
    close, in as many words as it may use, and it returns something if
    there is such a thing. One call is exact if the calls below it are
    (`DfsExact`), so all are, by the number of words left (`GptSearchExact`;
    `GptUnfolds` shows that the recursive function exists). Deepening one word
    at a time then ends at the least number (`GptRunExact`). For the first
    solver completeness is not enough: the limit of solutions may stop it. Its
    search carries `ShorterAnswered` along: when a chain is reported, each
    covering path of a smaller size was answered before. So what is left when
    it stops, for whatever reason, holds a chain of the least number
    (`ShortestReturned`, `WinPrinted`), and nothing it prints is shorter
    (`PrintedWins`).
* **CthProofs.** Each part has an invariant of its own, and `Inv` says that the
  one of the chosen part holds; a step leaves `unit` as it is.
  - *Ring.* Live regions are disjoint intervals of positions between `tail` and
    `head`, which are at most `RingSize` apart, each of whole laps and an offset.
    What a thread knows in a call stays safe: a commit's tail is not ahead of the
    real one, so room that was there is there; a free's target is behind every
    live region. Positions less than a lap apart differ in place
    (`SameLap`), which turns disjoint positions into disjoint bytes. `max_alloc`
    is compared case by case of where head and tail stand in the buffer.
    `RefusalsHonest` is an action property: the byte at `tail` is held and lies
    in what a refused call asked for, or in the padding it would need, or the
    two overlap.
  - *Thread pool.* `PoolInv` is `ResourcesApart` with the types: acquiring takes
    the top of the stack, releasing puts a resource where none is, and new ones
    get numbers above all others.
  - *Handles.* Objects refer to open resources, each to one of its own, and what
    is open and not given up is referred to (`Accounted`): the last is what a
    leak would break, the first two what a double close would.
  - *Fence and switch.* `SleepersWoken` is inductive with the type; the balance
    of the switch is, as it counts those about to switch on besides those that
    hold (`count` is the sum of the two), and each step changes the numbers of
    those about to call by `Recount`. The last release leaves nobody about to
    switch on, as whoever is has raised the counter.
  - *Connection.* The numbers queued continue those read, and while the fence is
    down some reader is outside or suspended, which is the one that took the
    message. `BetweenCalls` is what a reader knows between two calls: the message
    of its `wait()` is the first one still, and of the kind it saw, or another
    reader has taken it (`Overtaken`, which stays so). A message that arrives
    goes to the end and a close takes nothing away, so only `Take` of another
    reader can disturb it. `ReadAsWaited` says the same of what was taken.
  - *Terminal.* `StreamInv`: the cache is empty or begins with the state on top
    of the stack, which is never empty.
  - *Checks.* The place in a check tells who holds its report, and whether it
    was printed.
  - *Vector.* A buffer has the layout of its shape (`Buffered`). The offsets are
    a recursive function; that it exists and is monotone is an induction
    (`InductionOnNat`, from the well-foundedness of `<`), so blocks follow each
    other, and `RoundedUp` aligns them. It uses that an alignment below
    `alignof(max_align_t)` divides it, as powers of two do
    (`PolyVectorAssumption`). `min_raw_size` is the whole buffer
    (`CopiedWhole`), so a copy neither misses a block nor writes behind one.
  - *Forest.* `ForestInv` names the root of each index and a depth that shrinks
    from an index to its parent (`LeadsTo`). Halving a path keeps both as they
    are (`HalfTheWay`): a grandparent has the same root and lies less deep. The
    depth is below the size of the group, so a walk of `Size` turns has ended at
    the root (`FindsRoot`); that bound is what a merge must keep, which it does by
    putting what it hangs deeper by the depth of the new root. `PartitionJoined`
    says that the classes asked for follow the roots; that a root is the largest
    of its group is kept by merges of two only. The two loops are recursive
    functions, whose existence is an induction (`Repeated`).
  - *Assignment.* `CombineInv` says that who is assigned has one of its options,
    no `b` has more than the level allows, and whoever had a turn at this level
    and has no `b` shows that there is no assignment of this level
    (`LevelsTried`). A search keeps `Sound`: who is queued behind the first was
    visited after the `b` it holds, a full one that was reached from one queued
    before. If it fails, every `b` it reached is full and holds only who is
    queued (`ReachedClosed`), and all options of these were reached; there is
    one `a` more than these `b` have room for, so counting the `a` by the `b`
    they get (`AsOften`) shows that there is no assignment (`SearchFails`). If it
    finds a `b` with room, the loop that moves each one up ends: the position in
    the queue of the one to move sinks with every turn (`MoveOnKeeps`), the `b`
    it moves to has the room its predecessor left, and the first gets a `b`
    (`FlippedKeeps`). A level is raised only behind a turn that failed, so the
    level of the result is the least.
  - *Coroutines.* What `Cth` runs are steps of `Coroutines` (`CoroRuns`), so it
    has the invariant below.
* **RamProofs.** `RamSound` needs what the lists, chains and stacks of the object
  promise each other, which `Inv` says: there is a number of ids, at least two,
  that everything is an array over (`Shaped`); the free stack holds different ids,
  as many as are not below it, so each id above is on the stack or in use
  (`StackHolds`, a cardinality, because it must give "there is a free id" when
  `sp` is below the number of ids); each list begins at its bin and is linked in
  both directions among holes of that bin (`Lists`), and a rank that grows along
  it says that it has no cycle (`Ranked`), so following it meets every hole of the
  bin once (`WalkMeets`); `freeStorage` is the sum over the holes (`Stored`); the
  nodes in use and the holes form a chain by address without two neighbouring
  holes (`Chain`). An insertion, a removal, a cut and a merge are each proved to
  carry these over, and the functions of the class are put together from them.
  A hole of size zero is only the whole RAM, of capacity zero. At least two ids:
  the guard of `allocate` reserves when none remains, by a formula that grows by
  nothing from one id; the constructor never makes one.
  - The floats: `Power` is a recursive function, so doubling is an induction;
    `FloorIs` says that the value of a size's bin is not above it, that of the
    next bin is, and `FloorBetween` that rounding up is at most one bin more.
    Together with the order of the bins they give that a hole from a bin at or
    above the rounded-up size is large enough, and that `max_alloc` is exact.
    That a size below the capacity has a bin is where `Capacity < Power(TopBins)`
    is used: a capacity is a `size_type` and there is a top bin for each bit.
  - *Compaction.* `CompactionKeepsData` follows from the same `Inv`, in three
    inductions. Nodes in use are apart, because a chain is (`ChainApart`, by
    induction over the offset), so there is an order of them from left to right
    (`SortedIs`). Along it `CompactedTo` holds behind each node that
    `compactUsedNodes` reports: a node `Stays` where no move writes or `Goes` the
    distance of a move that covers it, the new places leave no gap (`NoGap`), and
    the moves are `InTurn`: they follow each other where they come from as well
    as where they go to. `to_disjunct_copies` cuts each into parts over the same
    distance (`PartOf`, `CutSoFar`) that overlap neither with their source nor
    out of turn. Copies in turn to the left read nothing that an earlier one
    wrote (`CopiedSoFar`), which is why one after the other they bring what was
    there before the first.

* **CoroutineProofs.** `OneResumer` counts threads, queues, waits and awaited
  tasks of one frame; it is not inductive, since a step that moves one frame
  could meet another anywhere. `Inv` says where everything is. `InOnePlace`: one
  thread works on a frame, or one queue holds one frame, or one wait, or nothing
  is under way; never two of these. `Chain`: every frame begun and not done is
  in that place or awaited-by the next one down, is suspended right at the await
  of it unless it is the place itself, and is `sync`'s or called by its
  continuation. Because no task is awaited by two coroutines (`AwaitedBy` is
  disjoint), a frame has one caller, and the chain has no branches. `Holders`:
  a posted frame stands at the `schedule` for this queue or at a wait.
  `Payloads`: who waits has a scheduler to wait on. `Ends`: nothing runs before
  `sync` starts, and after the signal nothing is left but the notification, so
  destroying the task is safe. `OneResumer` is then a count of sets with one
  element or none.
  - `ComesHome` needs what is passed on: `CapturePayload` (a `capture_task`
    carries the scheduler of its caller, whose payload does not change while it
    awaits), `Fresh` (a `capture_task` awaited further on is still cold, so it
    is run and not found done), and `Homes` (behind its own `schedule`, and
    behind an await of it, the thread is one of the payload's scheduler). An
    exception skips the `schedule`; `CatchesOwn` says that it is never caught
    where that would be noticed, and the property excepts those that fail.

### Only model-checked

* Liveness: `Answers`, `SyncReturns` and the end that `AnswersRefine` promises.
  TLAPS as installed has no `ENABLED`.

Every invariant and action property of the passing runs is stated by a theorem.
The five runs that show a violation have none, of course.

## 5. Not modelled

* The input loop of the runner: its end depends on what is typed alone. Files,
  `dyn_load` and `pause`. The timing and percentile report of the benchmarks.
* `mask_of` (`util.hpp:41-46`), which has no caller.
* A resize of `basic_miniram` to another capacity. What it does after a
  defragmentation or a `clear` is explored by `miniram_maintained` only (see
  findings).
* `force_off` of `global_switch` while other calls are under way: it is modelled
  for the destructor, the only one to call it.
* The payload that `executor::steal` makes for a capture task
  (`executor.hpp:57`, `steal.hpp:53` and 63) is a temporary, which the task keeps
  a reference to and which is gone when the task starts. The model keeps the
  payload; nothing in the repository calls these overloads.
* The values coroutines return, stopping a scheduler with work in it, and the
  binding to wait handles of the operating system.
* Wrappers without state (`optional`, `string_joiner`, `views`, `numeric`,
  formatting, key tables, meta programming), headers that only declare what
  comes as a binary, build files, pipelines and assets.

## 6. Plan

Done, in this order: `SolveRaw` against `ChainSearch`, `SplitScalar` and
`SplitSimd`, `WordFilter`, `BuildGraph`, `Solver`; `Bench`; the library with
`Cth`; the proofs of all parts of the solver, of their composition and of the agreement
with the second solver; the proofs of all parts of the library.

What is left:

* `MiniRam` with a changing capacity, once its free stack is repaired.
