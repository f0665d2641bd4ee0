# Formal verification of HighPerformance

The repository holds the worked examples of a book on high-performance C++:
thirteen Visual Studio projects, `Chapter1-CppBasic` to
`Chapter13-ParallelAlgorithm`, a header directory `Common`, and a vendored copy
of Boost. Most files demonstrate one language or library feature. The part that
is a *program* (components with state, operations and callers) is in Chapters 10
to 13 (threads, coroutines, asio, parallel algorithms) and, for single-threaded
code, in Chapters 1, 2, 4, 6, 7, 8 and 9. There are no unit tests; the drivers called from
each `Main.cpp` and the asserts in them are the only statement of what the code
should do.

This directory models those components in TLA+, checks them with TLC on small
instances, and proves the most important results with TLAPS for all values of
the constants. `PROJECT.json` is the machine-readable index: components, runs,
the mapping from definitions to source lines, a mutant per property, hazards,
findings and theorems.

Contents: [1 Inventory](#1-inventory) ·
[2 Plan](#2-plan) ·
[3 Models](#3-models-and-how-they-correspond-to-the-code) ·
[4 Runs](#4-runs-and-what-they-show) ·
[5 Fairness](#5-fairness) ·
[6 Proofs](#6-proofs) ·
[7 Only model-checked](#7-what-is-only-model-checked) ·
[8 Findings](#8-findings) ·
[9 Hazards without a property](#9-what-the-properties-do-not-cover) ·
[10 Not modelled](#10-what-is-not-modelled)

## 1 Inventory

`Main.cpp` of a chapter calls its examples one after the other; the examples
share no state with each other, so components interact only inside an example.

| Component (file) | State it keeps | Operations | Who interacts, and how | What is hard | What makes it correct |
|---|---|---|---|---|---|
| `BoundedBuffer<T,N>` (10/`AdditionalInCpp20.cpp`) | ring `buf_`, `read_pos_`, `write_pos_`, two `counting_semaphore`s, mutex | `do_push`, `pop` | any number of threads; driver: one producer, several consumers | the permit a thread has and the mutex another has are not the same order; an assignment may throw between acquire and release | bounded FIFO queue; permits are conserved on every path |
| `LockFreeQueue<T,N>` (10/`MemoryModel.cpp`) | ring, positions, atomic `size_` | `do_push`, `pop` | exactly one writer and one reader thread | no lock: only `size_` orders the accesses to a slot | no data race; bounded FIFO queue |
| `SimpleMutex` (10/`AdditionalInCpp20.cpp`) | `atomic_flag` | `lock`, `unlock` | any number of threads; `wait`/`notify_one` | clear and notify between another's test and its wait | mutual exclusion; no lost wake-up |
| Producer and consumers (10/`ProducerAndConsumer.cpp`) | `queue`, mutex, condition variable | `generate_ints`, `print_ints` | one producer, two consumers | spurious wake-ups, one notification per element, sentinels in the data queue | every integer printed once; all threads end |
| Critical sections (10/`CriticalSection.cpp`) | `counter`; `Account::balance_`, a mutex each | `increment_counter`, `transfer_money` | two threads; `std::lock` on two mutexes | read-modify-write; opposite lock orders | no lost update; no deadlock |
| Futures and promises (10/`FutureAndPromise.cpp`) | shared states of four futures | `divide`, `get`, `detach`, `async` | the caller and threads it never joins | promises on the caller's stack, exceptions between threads | promises outlive their threads; each outcome arrives |
| Latch, barrier, `flip_coin`, `Server` (10/`AdditionalInCpp20.cpp`) | latch counter; barrier phase, dice, `done`; `Stats` through `atomic_ref`; semaphore | the four examples | threads of the example | phases keep plain variables apart; unequal shares | start together; take turns in step; statistics complete; everybody is served |
| `Thread()` (10/`Thread.cpp`) | stop state of a jthread | `print`, `print_with_stop_token`, `request_stop`, the joins | main and two threads | the stop request is seen only by polling | both threads end |
| `MyGenerator` and pipelines (11/`Generator.cpp`) | promise value, frame, locals of each body | `seq`, `take_until`, `add`, `lin_space_coroutine`, gap and byte codec, `compress`/`decompress` | generators resume each other; consumers loop over them; a file in between | resume after the end is undefined; one slot for a value; locals between numbers | resumed in turn; no value lost; decode inverts encode |
| `Task`, `sync_wait`, `run_task`, `async_sleep` (12/`AsyncTask.cpp`) | frames, `result_`, `continuation_`, timers, work guard | `co_await`, `final_suspend`, the starters, timer callback | coroutines by symmetric transfer; `io_context` calls back | raw handles and a raw `this` in a callback; errors passed from promise to promise | behaves as ordinary calls; nothing dangles or leaks; errors arrive |
| `Resumable` and the programs that use it (11/`UseCoroutines.cpp`, 12/`Await.cpp`) | one handle per owner, the frames, the objects whose members bodies use | move, `resume`, destruction | main, and a jthread that a Resumable is moved to through a lambda | moved-from owners are still destroyed; a frame refers to an object it does not own | one owner per frame; bodies run while their objects exist |
| TCP server (12/`AsyncTCP.cpp`) | listener, one session per client, sockets | `listen`, `serve_client`, `ctx.run()` | coroutines on one thread; network | clients leave at any co_await; errors end a session silently | sockets closed; clients served independently |
| Parallel algorithms (13: `CopyIf`, `CountIf`, `Transform`, `DivideAndConquer`) | destination, `dst_idx`, futures | `par_copy_if_sync`, `par_copy_if_split`, `par_count_if`, `par_transform_dac`, `par_transform_naive` | caller and `std::async` tasks, recursive or in chunks | deferred launches; references to the caller's stack; exceptions; merging | same result as the sequential algorithm; no task outlives the call |
| `Arena`, `CUser`, `ShortAlloc` (6/`CustomAllocator.cpp`) | `buffer_`, `ptr_`, heap blocks | `allocate`, `deallocate`, `reset` | containers and `new`/`delete` in any order | only the last block is taken back; fallback to the heap; alignment | blocks in use are disjoint; each goes back where it came from |
| Searches (2/`BigONotation.cpp`, `contains` of 4) | indexes | `linear_search`, `binary_search` | none | bounds beside `mid` | right answer; O(log N) |
| Sorting of players (8/`Heterogenous.cpp`) | vector of players | `std::sort`, `ranges::sort` | none | comparator built of tuples | order by level, then score |
| Partial sort (4/`PartialSort.cpp`) | vector | `nth_element`, then `partial_sort` | the second relies on the first | positions around `iter`, equal numbers | three numbers where a full sort puts them |
| Copy-and-swap (1/`ErrorHandlering.cpp`) | string, its copy | `func`, `func_throw` | the caller catches | each append may throw | all of the change or none |
| String proxies (9/`LazyAndEager.cpp`, 7/`ConstraintAndConcept.cpp`) | references, size and hash of strings | `is_concat_equal`, `PrehashedString` | none | `std::equal` is given no second end | same answer as on whole strings, no read past the end |
| Factorials (12/`TailCallOptimization.cpp`) | call stack | `factorial`, `factorial_tail_call` | none | unsigned wrap, stack depth | both compute n! |

Everything else in the repository is listed in [section 10](#10-what-is-not-modelled).

## 2 Plan

Order of work: the most important behaviour first.

1. **Queues between threads** (done). `BoundedFifo`, the abstract queue;
   `BoundedBuffer` and `LockFreeQueue`, which implement it; `SimpleMutex`.
   Type correctness, safety and one refinement proved.
2. **Other threads of Chapter 10** (done). `ProducerAndConsumer`; one module per
   remaining example, composed by `ConcurrencyExamples` in the way `main` runs them.
3. **Coroutines** (done). `StructuredCalls`, the abstract call stack;
   `AsyncTask`, which implements it; `GeneratorPipeline`; `AsyncTCP`.
4. **Parallel algorithms** (done). `ParallelAlgorithms`.
5. **Sequential code with state** (done). `DisjointBlocks`, the abstract
   allocator, and `Arena`, which implements it; `Searches`; `PlayerSort`.
6. **More code** (done), folded into the compositions that exist:
   `Resumables`, composed with `AsyncTask` and `AsyncTCP` by `CoroutineExamples`; `StopThread` in
   `ConcurrencyExamples`; `lin_space_coroutine` in `GeneratorPipeline`; `PartialSort`, `CopyAndSwap`,
   `StringProxies` and `Factorials` in `SequentialExamples`.
7. **Proofs of the compositions** (done): `BoundedBuffer` implements `BoundedFifo`; the latch, the dice
   barrier, the futures, the driver of the buffer, the critical sections and `flip_coin` in `ConcurrencyExamples`; `HeldByOne` and
   `NothingDangles` of `AsyncTask`; `NoTwoWriters`, `NoTaskOutlives` and `SameAsSequential` of `ParallelAlgorithms`;
   all of `SequentialExamples`; `LosesNothing` of `Arena`; `NothingLostOrRepeated` of `ProducerAndConsumer`.
8. **Proofs by induction** (done): all safety of `GeneratorPipeline`, the round trip of its codec included, and that
   `AsyncTask` implements `StructuredCalls`; `OwnedOnce` of `Resumables`.

Modules that are proved about use no RECURSIVE operator; constants carry named
assumptions, which the module that composes them collects where it takes a
module by INSTANCE.

## 3 Models and how they correspond to the code

Conventions. Each action is one statement of the code, or a group of
statements that no other thread can tell apart because only the running thread
touches what they touch. `pc[t]` is the statement thread `t` runs next. The
number behind an action is the source line. Variables keep the names of the
source. Lines starting `\* Mutant:` introduce a wrong variant of the definition
that follows; no specification uses it.

**BoundedFifo.** What a queue promises: calls take effect at one instant
between invocation and return, in FIFO order, within the capacity; a call may
be refused (non-blocking) or throw and then has no effect. `Lose` is the exception to that: a blocking
pop returns its element by value, and if that move throws, the element is out of the queue and the caller has none.

**BoundedBuffer.** All statements of `do_push` and `pop` as actions:
`PushAcquire`, `PushLock`, `Store`, `AdvanceWrite` (with the unlock),
`ReleaseFull`, the `catch` block `PushCatch`, and the same for pop. `Throw` is the
exception inside a `try`: the `unique_lock` destructor releases the mutex before the
handler runs. `lock()` and the element assignment may throw; an assignment that
throws leaves its target (a free slot) old, new or empty. A move leaves `None`; one that throws
leaves its source as it was (here in `Take` and in `Move` of `LockFreeQueue`): a contract on `T` that the code
needs and does not state, as a half-moved element would be popped again. `PopReturn` is outside the `try`: when its
move throws, no permit is given back (`PopUnwind`) and the element is lost.
The refinement mapping `Contents` is the ring's window from `read_pos_`, with the element a pop
holds between its move and its `read_pos_` update put back at the head.

**LockFreeQueue.** `size_.load()`, the slot access, the position update and
`fetch_add`/`fetch_sub` are separate actions of writer and reader. The code uses the default,
sequentially consistent order for `size_`, so an execution without a data race
is an interleaving; `NoDataRace` discharges the condition.

**SimpleMutex.** `test_and_set`, `wait` (check and sleep are atomic, as the standard
says), `clear` and `notify_one` are separate; sleepers may also wake spuriously.

**ProducerAndConsumer.** The condition variable's `wait` releases the mutex and sleeps
in one step and relocks later; `notify_one` wakes any one sleeper, or nobody if
nobody sleeps. `Script` is what the producer pushes: 7 integers and one sentinel per consumer.
**Sleepers** lets either this program or `SimpleMutex` run.

**CriticalSection, FutureAndPromise, StartLatch, DiceBarrier, FlipCoin, Server,
BoundedBufferDriver, StopThread** have the state of their example and an action per
statement (a load and a store for `++counter` and `balance_ -=`). `CriticalSection`'s `block` says which of the two
blocks of the function runs, `Program` and `Initial` what its threads do and with which cells.
`std::lock` locks one mutex, tries the rest, and gives up what it has when one
is taken; which mutex it begins with is open, as in the standard. The barrier's completion
function runs in the last thread to arrive. `BoundedBufferDriver` EXTENDS `BoundedBuffer` with
the loop counters of its clients. **ConcurrencyExamples** instantiates all of
them; its `example` variable says which of them `main` is in. As
no example reads another's variables, each is begun from its own
initial state instead of after the others: any order of examples is covered.

**StructuredCalls.** A stack of calls and their outcomes: callees are called in
order, each returns to its caller, and no caller gives a value when a callee failed.

**AsyncTask.** `Body` says what each coroutine awaits, in order. The actions
are the points where the compiler calls into the promise or awaiter: `Call`
(`get_return_object`, `initial_suspend`), `Await` (`await_suspend`, which saves
`continuation_` and transfers), `AwaitResume`, `Return`, `Throw`
(`unhandled_exception`), `FinalSuspend`; `SleepReady`, `Sleep`, `Expire` and
`SleepResume` for the timer awaitable; and `Start`, `Resumed`, `Acquire`, `Signal`,
`Vanish` and `RunReturns` for the starters `sync_wait` and `run_task`. `frame[c]` follows each
coroutine frame from its allocation to its destruction by the owner of the Task.
The mapping to `StructuredCalls` takes the chain of coroutines that await each other as the stack.

**GeneratorPipeline.** `chain` is the pipeline; resuming a generator is a nested
call, and `active` is the innermost frame that runs. `Draw`, `Use`,
`Stops` and `co_yield` are the iterator's `++`, `*`, `!= end` and the promise's `yield_value`,
`Does` the arithmetic of each body, on integers as wide as the code's where the
width matters (bytes: `% 256`, with `Quotient` truncating as C++ does). The examples of
`Generator()` are initial states, `lin_space_coroutine` in units of 1/(n-1), in which its values are whole numbers; `compress` ends in the pipeline that reads the file back.

**AsyncTCP.** One action per `co_await` of `listen` and `serve_client`; asio and the
network are external and may fail whenever asio's operations may.

**Resumables.** `Statements` is the list of what `UseCoroutines()` and `Await()` do to Resumables
(create, move, resume, destroy), destructors of scopes included; the actions `Create`, `MoveConstruct`, `Resume` and
`Destruct` are the member functions, which the thread `t` also calls. `RunPart` runs a body to its
next suspension. Resuming or destroying what is not suspended makes every frame `undefined`.

**CoroutineExamples** lets one of `AsyncTask`, `AsyncTCP` and the programs of `Resumables` run, as
`ConcurrencyExamples` does for Chapter 10.

**ParallelAlgorithms.** `call` gives for each part of the range where its call is:
`ready` (a thread or the caller is to run it), `deferred` (std::async has not started
it), `loop`, `second` (its halves run), `returned` or `threw`. The loop
is one element per step so that tasks interleave; `fetch_add` (`Claim`) and the write are two.
`Wait` and `Join` are `wait()` or `get()` (`Gets`), which run a deferred task. `Unwind` is the
destructors of the futures when the caller leaves with an exception.

**Arena** counts addresses from `buffer_`. `align_up` wraps at twice
`PtrdiffMax + 1`, as `size_t` does. `Sizes` is what callers of the repository may ask for
(containers and new-expressions ask for 1 to PTRDIFF_MAX bytes). `::operator new` is external and gives any free heap place, one of them
right behind the buffer. `CUser` and `ShortAlloc` forward to the arena and
have no state of their own. **DisjointBlocks** is what an allocator promises.

**Searches, PlayerSort, PartialSort, CopyAndSwap, StringProxies, Factorials,
SequentialExamples.** A loop iteration, a call or a statement per step. A sort is any permutation
that its comparator allows, and `nth_element` and `partial_sort` any that satisfies their
postcondition: what the standard promises and no more. `std::equal` gives `undefined` when it would read past the second range. In
`Factorials`, `frames` is the call stack; a tail call that is not optimized takes a frame too.

## 4 Runs and what they show

All passing runs finish with deadlock checking on, except `bounded_buffer`: there, callers may
simply stop calling (all threads may wait to pop an empty buffer), which is
no error of the buffer. In its driver (`concurrency_examples`) deadlock is checked.

| Run | Distinct states | Bounds, and why they are enough | What it shows |
|---|---|---|---|
| `bounded_buffer` | 24,804 (symmetry) | N = 2, 4 threads, 2 items. Two slots are the least where the positions differ and wrap; four threads can hold both permits, the mutex, and wait. Threads and items are only compared, so symmetry is sound; no liveness is checked here. | Permits are conserved on every path (`PermitsConserved`), nobody overwrites an element or takes a hole (`SlotsInTurn`), and the buffer is a bounded FIFO queue with calls that may throw (`ImplementsFifo`). |
| `lock_free_queue` | 5,871 | N = 3, 2 items; unbounded calls. Three slots let writer and reader be apart, adjacent and wrapped. | The two unlocked accesses never meet (`NoDataRace`); the queue is a bounded FIFO queue that refuses only when full or empty (`ImplementsFifo`). |
| `sleepers` | 271,257 | The program's values: 7 integers, 2 sentinels, 2 consumers. `MaxSpurious` = 2 spurious wake-ups: one per consumer, or two for one. `SimpleMutex` with 4 threads: one inside, one notifying, two asleep. | No integer is lost, repeated or left behind and `front` is never called on an empty queue (`NothingLostOrRepeated`), all threads end with all integers printed (`PrintingEnds`). `MutualExclusion`; while someone waits, someone gets in again and again (`SomebodyGetsIn`). An individual thread may starve: the code promises no more. |
| `concurrency_examples` | 12,582 | Drivers' values made small (4 increments per thread; 4 transfers over 3 accounts, so lock orders cross; 3 latch and 3 dice threads; 6 items for 2 consumers; 9 and 4 flips; 3 clients, 2 permits). `MaxTurns` = 3 forces sixes in the third turn. | The property of each example (`NoLostUpdate`, `OutcomesArrive`, `PhasesInStep`, `EachOnceInOrder`), and that every example returns (`EveryExampleReturns`): no deadlock or livelock in any. |
| `coroutine_examples` | 3,828 | Both tasks of `AsyncTask()`, the second with a nested task between sleeps, so that every await follows every other kind; each body and timer may fail. Two TCP clients and `MaxCount` = 3 writes each. The two programs of `Resumables` as they are. Few threads, so few states: the interest is in the paths. | Each suspended coroutine has exactly one that will resume it (`HeldByOne`), nothing dangles and no frame is left (`NothingDangles`), Tasks are structured calls (`ImplementsCalls`), each frame of a Resumable has one owner (`OwnedOnce`), all ends come and errors reach the caller (`EndsWithErrors`). A client that leaves costs its own session only and its socket is closed (`SocketsAreClosed`); one that stays is served 0, 1, 2, … (`ClientsAreServed`). |
| `generator_pipeline` | 19,819 | `Ids` are sequences of up to 3 of 0, 1, 127, 128, 20000 (the one-, two- and three-byte boundaries), the program's arrays, and the largest int. `SeqMax` = 14 is past everything the loops draw. `Spaces`: the program's two, a falling one of two points, an empty one. | Generators are resumed in turn and never after their end (`ResumedInTurn`), no value is overwritten before its use (`NoValueLost`); the codec round-trips (`RoundTrip`); `std::ranges::includes` and the loop after it see each value once, and linear spaces are evenly spaced from start to stop (`SeenOnce`) and every loop ends (`LoopsEnd`). |
| `parallel_algorithms` | 231,482 | Lengths up to 4, chunk sizes 1 and 2, 1 to 3 tasks, every predicate, at most 1 throwing element, each task started or deferred. Length 4 gives two levels of recursion, three or four chunks, and a short last chunk. | Result equal to the sequential algorithm's, no two writers of an element, exceptions reported by `get()` (`SameAsSequential`), no task after the return, every call returns. |
| `arena` | 179,200 | 13 bytes (not a multiple of the alignment 4), sizes up to 31, heap places 13 (adjacent) and 60. | `Arena` is an allocator (`IsAnAllocator`), heap blocks balance, LIFO use loses nothing. |
| `sequential_examples` | 29,544 | Vectors of up to 5 of 4 values to search (empty, even, odd), 3 of the 5 players, all vectors of 6 of 3 numbers to sort partly (3 positions in the middle, numbers on both sides, repetitions), strings of up to 2 chars, `'\0'` among them, compared with up to 4; arguments 0 to 9 with room for 6 frames and a `size_t` of 5 bits, which 9! and 5! exceed. | The searches answer rightly (`FoundIfThere`), `binary_search` is logarithmic, players and the middle of a vector are printed in order (`PrintedInOrder`), a string changes wholly or not (`AllOrNothing`), strings are compared as the whole would be and equal ones hash equally (`ComparedAsWhole`), the factorials agree and the optimized tail call needs no stack (`SameFactorial`). |
| `player_sort_comparator` | violated | 3 of the 5 players. | The first finding of [section 8](#8-findings). |
| `factorial_of_zero` | violated | As `sequential_examples`. | The second finding. |

Every property of a passing run has a mutant: a plausible slip in one of the
modelled definitions (a semaphore that is not acquired, a position that does not wrap,
an `if` in place of a `while`, an exception that is swallowed) under which the same
run reports the property violated.

Bounds that are constants of the models, not of the code: `MaxSpurious`, `MaxTurns`, `SeqMax`,
`MaxN`, `MaxBad`, `MaxSize`, `Length`, `MaxCount`, `Requests`, `Size`, `Numbers`, `MaxLength`,
`SizeRange`, `MaxFrames`. All
other models have finitely many states without any.

## 5 Fairness

- **Threads** run on when they can (weak fairness per thread, or
  per task in `ParallelAlgorithms`): what an operating system gives. A thread
  blocked at a mutex, semaphore or latch is not enabled, so this says nothing about who gets it.
- **`std::lock`** needs more: two callers could spoil each other's tries for ever. Strong fairness
  on the two steps of each transfer rules that one livelock out; the
  implementations back off for that reason. It is assumed only for jobs that lock several mutexes, as `transfer_money` does.
- **SimpleMutex**: no fairness for the *choice* of sleeper, nor for calling `lock`; a thread
  inside is assumed to call `unlock`. Spurious wake-ups are possible and never assumed.
- **Coroutines on one thread** (`AsyncTask`, `GeneratorPipeline`, `Searches`): weak fairness of the
  whole next-state relation, i.e. the thread runs on and timers expire. Both threads of `Resumables` run on.
- **AsyncTCP**: completed operations get their turn in `ctx.run()`. Strong fairness of
  `WriteFails`: one write to a client that is gone may still succeed (it is only
  buffered), but not for ever. Nothing is assumed about clients or about `async_accept` failing.

## 6 Proofs

All theorems hold for every value of the constants that satisfies the named
assumption of the module. They are safety results; each follows the same argument:
an inductive invariant `IInv` with `Init => IInv` and `IInv /\ [Next]_vars => IInv'`, one step
per action, then the property from `IInv`.

**BoundedBufferProofs** (`BufferAssumption`: N positive, finitely many threads).
`IInv == TypeOK /\ LockHeld /\ PermitsConserved /\ Ends /\ Filled`. `PermitsConserved` alone
bounds the semaphores but says nothing about positions. `LockHeld` ties the mutex
to the one thread in the critical part, `Ends` ties `write_pos_` to `read_pos_` plus
the number of elements modulo N, and `Filled` says that the slots in that window, and only the
other slots, may be empty. A push that stores has a reserved slot, so the window is not full and
does not reach `write_pos_`; a pop that takes has a counted one, so it is not
empty. Lemma `Counts` gives the change of the cardinality of the threads at a set of labels for one moving thread.
Theorems: `TypeCorrect`, `Conservation`, `NoOverwrite`, `NoHole`, `InTurn`
(for the checked property `SlotsInTurn`), `PermitsReturned` (no permit is lost when all calls are at rest), and
`Refinement`: the buffer implements `BoundedFifo`, whatever of `lock()`, the assignments and the last move of pop
throws. Its mapping is `Contents`; the step lemma
names for each action the abstract step or shows that `Contents` and the calls stay as they are. A pop
between its move (133) and the position update (134) is the delicate case: the element is still in `Contents`, and
leaves it when the position moves. `DriverDelivers` is about `BoundedBufferDriver`: each number reaches one consumer, in order. It
assumes that nothing throws (`~MayThrow`, as for the `int`s of the example), since a call
that throws is not made again by the driver and its number would be missing.

**LockFreeQueueProofs** (`QueueAssumption`: N positive).
`IInv == TypeOK /\ Rights /\ InHand /\ Ends /\ Slots`. `Rights` is why the stale `size_` errs on the safe
side: after the writer has seen room, only the reader changes `size_`, downwards, so there
is still room at the store, and likewise for the reader. `Ends` and `Slots` are as above with the
slot that is written and not yet counted. Theorems: `TypeCorrect` (`size_` stays in 0..N, so
`fetch_sub` never wraps), `RaceFree`, `HandedOver`, and `Refinement`: the queue implements
`BoundedFifo`. Its step lemma shows for each action which abstract step it is; `Sequence` turns
ring arithmetic into positions of `Contents`.

**SleepersProofs** (`ProducerAssumption`: finitely many consumers, at least one, and as many sentinels, as line 47 demands).
For `ProducerAndConsumer`: `Taken` counts what has left the queue. `Line` says that the queue and what is
still to be pushed are the end of the script behind `Taken`, so that `Taken` decides for every number whether it is on the way or
`Reached` (printed or in a consumer's hand), and `Once` that it is there only once. `Holder` is why nobody pops between a
consumer's look at the queue and its `pop`, and `Left` why a consumer that has met a sentinel leaves no number behind.
Theorem: `OnceEach` (for `NothingLostOrRepeated`). For `SimpleMutex`, without an assumption: `MutexInv` adds that the flag is set exactly
while a thread is inside. Theorems: `Exclusion` (for `MutualExclusion`) and `WakeupKept` (a clear flag
and a sleeper leave somebody awake to act), the safety core of `SomebodyGetsIn`.

**ArenaProofs** (`ArenaAssumption`: buffer and alignment within PTRDIFF_MAX,
heap blocks apart from the buffer and from each other). `IInv` says that blocks lie below the aligned
`ptr_`, are spaced by their rounded-up lengths, and that heap blocks and heap places match.
The spacing is needed because `deallocate` rewinds by the rounded length. Lemma `AlignUp` shows
the sum in `align_up` does not wrap for the sizes allowed. `NoGap`: while blocks come back in the reverse order, every byte below
`ptr_` belongs to a block, so that the last one ends at `ptr_`. Theorems: `Below`, `Balance`, `NothingLost` (for `LosesNothing`), and
`Refinement`: `Arena` implements `DisjointBlocks`.

**SequentialExamplesProofs** (`SearchesAssumption` and `ExamplesAssumption`). It starts with induction, which the provers
cannot take from a library theorem with an operator parameter: `Least` follows from the well-foundedness of `<`, `Induct` is
induction for a set of numbers, and `Recursive` says that a recursive function on the numbers exists and unfolds. Then one part per
example, and `ExamplesInv` for all of them:
the searches keep `RuledOut` (the key is nowhere outside low..high) and `Halves` (what is left, times 2 to the number of looks, is within
the size); a sort rearranges what it is given (`SortInv`), and a rearrangement of a rearrangement is one; in the partly sorted vector
`SameBelow` shows that as many numbers are less than a bound as in the sorted one, which decides what is at a place that has all the
lesser numbers before it; `SwapInv` says what the copy holds at each statement; `ProxyInv` needs the lemmas that
`equal` decides equality where it stays in range; and `TailInv` says what the frames and `accum` still have to multiply, for which `TimesAssociative` shows
that the product modulo the range of `size_t` is associative. `FactorialAssumption` keeps the stack shorter than the range of
`size_t`: with more frames than that, `factorial(0)` would count down to 1, and return 0, and the proof fails there.
Theorems: `Correct` (for `FoundIfThere`), `Inside` (no read outside the vector), `LogarithmicallyMany` (for `Logarithmic`), `SortedForPrint`
(for `PrintedInOrder`), `ChangedAsWhole` (for `AllOrNothing`), `ComparedAsStrings` (for `ComparedAsWhole`),
`FactorialsAgree` (for `SameFactorial`).

**ConcurrencyExamplesProofs** (`ExamplesAssumption`, which collects the assumptions of the examples). `ExamplesInv` has one part per
example that is proved about. `LatchInv`: the counter is the number of threads that have not arrived (`Early`), so
it is 0 only when all have. `DiceInv`: the barrier's count is the number of threads `Missing` from the phase,
`OneCompletes` says that a single thread runs the completion function, and only when nobody is missing, `Turns` ties `n_turns` to
the phase. `FuturesInv` says which threads have ended by each statement of the caller, that a
shared state is set by then, and what has been printed. `SectionInv`: a thread that updates holds the mutexes of all cells of
its job and what it has loaded is still in the cell (`InJob`); every cell is its first value and the amounts of the updates `Stored` in it
(`Summed`); in a cell nobody has locked, these are the updates of the critical sections that are over. `CoinInv`: heads, tails and the flips
that are `left` add up to the calls made. Both need sums over sets, which the model takes with a fold: `SumIs` opens the fold, and by the
well-foundedness of `<` the sum exists (`SumExists`), is unique (`SumUnique`) and does not depend on the order
(`AnyOrder`), so that one more element adds its amount (`SumOfMore`). Theorems: `NoUpdateLost` (for `NoLostUpdate`), `PhasesAlwaysInStep` (for `PhasesInStep`),
`OutcomesAlwaysArrive` (for `OutcomesArrive`), and `AlwaysEachOnceInOrder` (for `EachOnceInOrder`), which
takes `DeliveryInv` from `BoundedBufferProofs` through an INSTANCE.

**CoroutineExamplesProofs** (`TaskAssumption`: the awaits form a tree, none is awaited twice, and the names that
`control` and `continuation_` use for "nobody" are no coroutines). `TaskInv` says which frames exist (`Unborn`,
`Bodies`: what a coroutine has awaited is over, what it will await is not there), that exactly the
coroutine in control runs and each `continuation_` is that of an awaiting caller (`Handles`), that timers belong to sleepers
(`Sleeps`), and that every frame belongs to a coroutine that the starter awaits, over others (`Reachable`). The last is a statement
about every set of coroutines in which each is awaited by another of the set, so it needs no recursion along the
awaits; it is why no frame is left when the starter returns.
Theorems: `TasksInvariant`, `AlwaysHeldByOne` (for `HeldByOne`), `NeverDangles` (for `NothingDangles`), and
`TasksImplementCalls` (for `ImplementsCalls`): the Tasks implement `StructuredCalls`. Its mapping, `Chain`, is a recursive function along
the awaits. In every state the coroutines under way stand in one row, from the starter to the innermost (`Chained`,
an invariant of its own: some sequence is this row). `ChainIs` shows that a function with the recursive equation exists, given that row, and
by induction from its end that every such function gives it. Then `Await` appends to the row (`ChainAwaits`: its Task has not begun, so it is
not in the row), the end of a body takes the last away (`ChainEnds`), and every other step leaves it (`ChainStays`). `Gave` says that
what a coroutine has gone past has given a value, which is why it may give one.

For `GeneratorPipeline` (`GeneratorsAssumption`: each of `Wanted` is less than the last value of
the pipeline, so that the second loop over it does not find it done (368); `lin_value` asserts at least two points (142), and `Spaces` may have none, too) `PipelineInv` has five parts. `PipelineTypes` are the types. `Turns`
is about frames: just `active` and the generators after it run, the latter in the middle of resuming the one before them, with
nothing left to yield; a value is unread only while its generator is suspended; what is done has nothing left. The others say, for each pipeline of the program, which
values are where; `Pending(i)` is what generator i has yielded or is to yield, and has not been taken.
`Takes`: in the pipeline of `seq`, `take_until` and `add` the numbers that are pending are consecutive, and what has been seen are those before.
`Lines`: in `lin_space_coroutine` a point is printed, pending or still in the loop's range, in order. `Codec`: a file that is written
holds the codes of the first gaps, one behind the other. Where each ends is a sequence of cuts, ascending from 0
(`EncodedIn`; only the last byte of a code has the mark of an end). A decoder that is between two cuts has, in `n` and
`weight`, the part of the gap that it has read, and the bytes up to the next cut are the code of the rest (`NextGap`); what it has restored
are the first ids. `variable_encode_num` is a recursive function on the integers: that it exists and what its first byte is
(`EncodeDef`, `FirstOfBytes`) is shown by induction on sets of numbers. TLC has checked `Codec` on the run's instance, too.
Theorems: `PipelineInvariant`, `AlwaysInTurn` (for `ResumedInTurn`), `LosesNoValue` (for `NoValueLost`), `AlwaysSeenOnce` (for `SeenOnce`,
any bounds, any array that is looked for, any linear space), and `AlwaysRoundTrip` (for `RoundTrip`): for any ids, of any number and size (for the byte codec those that ascend from 0 on, as in the run). The numbers
of the proof are unbounded. For the ids of the code, non-negative `int`s that ascend, no sum or gap leaves the range of `int`.

For `Resumables` the two programs are what they are, without constants, so TLC's run is exhaustive as well; the proof says why it holds.
`OwnerInv` gives for each statement the frame that each Resumable holds (`Owners`), from there whether a frame is running, suspended,
done or destroyed (`OwnedFrames`), and who can be in a coroutine (`InCalls`: the two threads are never in the same one,
since the main thread has moved its Resumable away before the other starts). `OneOwner`: a frame that is there is held by exactly one.
Theorem: `AlwaysOwnedOnce` (for `OwnedOnce`).

**ParallelAlgorithmsProofs** (`SizesAssumption`: positive chunk sizes and `None` no number). Two invariants, the second on top of the first.
`ParallelInv` is about the calls. In the recursive algorithms the parts that were started form a tree (`Laminar`: two of them
are apart, or one lies in a half of the other, which has been divided), and what is over has nothing active inside
(`Settled`); in those with chunks, `futures` holds the chunks that were started, one behind the other, and those joined are over
(`ChunkedInv`). In `par_copy_if_sync` tasks hold different places below `dst_idx` (`Claimed`); in
`par_copy_if_split` a task writes behind what it has read (`BehindRead`), and the merge behind
every task it has waited for (`Merged`). Theorems: `ParallelInvariant`, `WritersApart` (for `NoTwoWriters`),
`NothingOutlives` (for `NoTaskOutlives`).
`ResultsInv` says what every state has computed: each loop the results of what it has passed (`LoopsInv`), a call that is over those of its part
(`TreeResults`, `ChunkResults`), a count that of the matches (`CountResults`). `dst_idx` is the number of elements that were
copied or are about to be, each at a place of its own (`SyncResults`); the places that a chunk has filled list
its matches in ascending order, and those that were merged list the matches of all chunks before (`SplitResults`, by `Lists`).
Theorems: `ResultsInvariant` and `SameResults` (for `SameAsSequential`): for any length, chunk size, number of tasks,
predicate and set of throwing elements, and whatever is deferred.

## 7 What is only model-checked

- All liveness: `SomebodyGetsIn`, `PrintingEnds`, `EveryExampleReturns`, `EndsWithErrors`, `LoopsEnd`,
  `AllReturn`, `SocketsAreClosed`, `ClientsAreServed`. TLAPS here has no
  reasoning about ENABLED and hence none about fairness.
- `AsyncTCP` states liveness only. Every safety property of the runs is proved.

## 8 Findings

**The comparator of the players.** `Chapter8-Utility/Heterogenous.cpp:377-383`: the comparator `cmp` makes both tuples
from `lhs` (line 380 should say `rhs`). It therefore never says "less", so `std::sort` (384) takes all players for equal and
may leave them in any order, against the comment of line 381, "compare level
first, then score". Run `player_sort_comparator` checks `ComparatorOrders`, which states that
comment, and TLC finds it violated. The program's output does not show it:
`ranges::sort` (387-390) sorts the list again with the right projection, which `PrintedInOrder` confirms.

**The factorial of zero.** `Chapter12-Asyncchronous/TailCallOptimization.cpp:36` calls
`factorial_tail_call` "the tail call optimization version of factorial". It returns 1 for 0 (line 63); `factorial`
asks for 1 only (line 21), goes on with 0 - 1, the largest `size_t`, and overflows the stack. Run
`factorial_of_zero` checks `SameFunction` and finds this. The program calls both with 5 only.
For all other arguments they agree (`SameFactorial`).

## 9 What the properties do not cover

Known limits of the code that no run covers, because no caller in the
repository gets there; each is left out of the inputs of its model, not hidden:

- A `T` whose move throws and has changed its source by then (133, and `MemoryModel.cpp:215`): see the contract in
  [section 3](#3-models-and-how-they-correspond-to-the-code). `LockFreeQueue::pop` returns its local `val` (219); that compilers build it in
  place, so that nothing can throw there, is assumed.
- `par_count_if` without a chunk size (`CountIf.cpp:29-38`) divides by `hardware_concurrency()`, which is 0 on a
  system that cannot tell (35); its driver (61) would get there on such a system. The chunk size is a constant of `ParallelAlgorithms`, and this overload is not translated.
- `sync_wait` blocks its thread (`AsyncTask.cpp:284`); a task that slept on an
  `io_context` of that thread would never be resumed. A Task awaited twice would
  overwrite `continuation_` (`TaskAssumption` states that none is).
- The codec with ids that do not ascend: gaps are negative, `n % 128` is too,
  and bytes lose the sign. `RoundTrip` restricts the byte codec to ascending ids.
- `par_copy_if_split` on an empty range takes `futures.front()` of nothing; a chunk size
  of 0 does not end. `ParallelAlgorithms` starts from what the drivers may pass.
- `wait()` in `par_copy_if_sync` and `par_transform_*` drops the exception of a task, while
  `par_count_if` and `par_copy_if_split` use `get()`. `SameAsSequential` demands the exception for `get()` only, and
  allows what `wait()` leaves out.
- `Arena::allocate(0)`, sizes above PTRDIFF_MAX for which `align_up` wraps, and `reset` with blocks in use.
- `safe_cast` (7/`ConstraintAndConcept.cpp:181`) compares the converted value with its own
  conversion back, so lossy conversions pass; nothing says what it promises, and its driver turns 22.68 into 22.
- `lin_value` needs n > 1 (asserted); `lin_space_coroutine` counts an `unsigned int` up to a `size_t`.
- The last lambda of `UseCoroutines()` is destroyed before its coroutine runs: the comments (156-157) call it
  undefined behaviour, and `OwnedOnce` leaves out that one access.

## 10 What is not modelled

| Part | Why |
|---|---|
| Rest of Chapter 10: `CompilerOptimization.cpp`, the memory-order demonstrations of `MemoryModel.cpp` (comments), the lock-free asserts and unused `atomic<shared_ptr>` lambdas | no state that several steps change, or never called |
| 11: the other four `lin_space` variants, `SubroutinesAndCoroutines.cpp` | the same loop over an index without a coroutine; comments only |
| 12: `co_await` of a duration in `Await.cpp` | used only in code that is commented out |
| 13: `StdLibrary.cpp` | calls of the standard parallel algorithms only |
| the rest of 1, 4, 7, 8 and 9; 3, 5, 2/`Timer.cpp`, 6/`MemoryOwnership.cpp` and others | language features, single standard algorithms, containers and views on fixed data, templates resolved by the compiler, floating-point expressions: nothing whose steps could come in a wrong order or meet a limit |
| `Mallocator`, `PrintingResource` (6) | pass requests on and keep nothing |
| `Common`, every `Main.cpp` | includes, a scope timer, the order in which examples are called (which `ConcurrencyExamples` makes irrelevant) |
| `ThirdParty/boost` | vendored, and over 99% of the lines below `src/` (3.19 million, against some 7,500 of the repository's own, of which the map covers about a quarter); what the examples use of asio is external in `AsyncTask` and `AsyncTCP` |

Data races are modelled where the code guards against them (`NoDataRace`); weaker
memory orders are not, as the modelled code uses none. Memory allocation failure is
modelled in `Arena` (`::operator new` may find no place, and then nothing changes) and in `CopyAndSwap`.

To run a model: `tlc -config Arena.cfg Arena.tla` (each cfg belongs to the module
named in `PROJECT.json`, for example `BoundedBuffer.cfg` to `MCBoundedBuffer`). To check the proofs:
`tlapm ArenaProofs.tla`.
