# Verification of the dual-versioned transactional memory

This directory holds TLA+ modules, TLC models and TLAPS proofs about the
software transactional memory in `src/275085/`, about the grader that runs and
judges it with its bank workload (`src/grading/`), about the lock-based memory it
is compared with (`src/reference/`), and about the synchronisation examples
(`src/sync-examples/`). `PROJECT.json` maps every definition to the lines it
models and lists components, runs, hazards, findings and theorems.

## 1. The system

| component | source | state | operations |
|---|---|---|---|
| batcher | `275085/batcher.c`, `lock.c` | `n_remaining`, `n_blocked`, `n_in_epoch`, `tx_id_generator`, `cur_epoch`, one mutex, one condition variable | `enter_batcher`, `leave_batcher`, `prepare_batcher_for_next_epoch` |
| words | `275085/tm.c`, `batcher.c:61-83` | per word two copies and `word_is_ro`, `access_set`, `word_has_been_written`, a lock; `is_ro_flags` per transaction id | `tm_begin`, `read_word`, `write_word`, `abort_transaction_tx`, `tm_end`, `commit_transcations_in_epoch` |
| segment table | `275085/tm.c`, `segment.c`, `stack.c` | `n_segments`, `segments[]` with `deregistered`, the stack of free indices, `global_lock` | `tm_alloc`, `tm_free`, the segment loops of abort and commit, `tm_create`, `tm_destroy` |
| virtual addresses | `275085/tm.c:34-50` | none | packing of segment index and word offset |
| word copying | `275085/tm.c:160-184, 228-247` | the private buffer | the loops of `tm_read`, `tm_write` |
| reference memory | `reference/tm.c`, `shared-lock.c` | one readers-writer lock, a list of segments | the same interface |
| grader | `grading/grading.cpp`, `common.hpp:204-333`, `transactional.hpp:67-188` | `Sync` (status, ready counter, latch), `Barrier`, the memory, the loaded library | master and worker phases, `bounded_run`, creation, destruction, exit |
| bank workload | `grading/workload.hpp`, `transactional.hpp` | accounts in linked shared segments | `long_tx`, `short_tx`, `alloc_tx`, `init`, `run`, `check`, the retry loop |
| synchronisation examples | `sync-examples/` | a counter, a leader array, a bounded buffer | one program per example |
| template, playground, headers, `submit.py` | | none to speak of | stubs, declarations, an upload client |

How they interact. A client thread calls `tm_begin`, which blocks in the batcher
until an epoch admits it and gives it an id; it then calls `tm_read`, `tm_write`,
`tm_alloc` and `tm_free` with that id, and `tm_end`. A refused operation aborts
the transaction: its writes and deregistrations are taken back, it leaves the
batcher, and the client (the retry loop of the grader) starts again. The last
transaction to leave, whether it ends or aborts, commits the epoch inside
`leave_batcher`: it flips the copies of the written words, recycles segments,
and lets the blocked threads in. Three locks protect three parts: the batcher's
(counters, and the whole commit), one per word (its control structure, though
not always, and never the copying), and `global_lock` (parts of the table).

What is hard, and what makes each part correct:

- batcher: threads are handed from one epoch to the next by counters, and wait
  without re-testing a condition. Correct when no thread is lost or left
  asleep, ids are unique in an epoch, an epoch ends with its last transaction
  alone, and a blocked thread gets in.
- words: decisions are taken on unlocked reads, copying happens after the lock
  is released, aborts undo word by word while others run, ids are recycled.
  Correct when transactions see the snapshot of their epoch and their own
  writes, commits are atomic, aborts invisible, and the transactions of an epoch
  can be ordered.
- segment table: two locks, unlocked reads, deferred reuse. Correct when a
  segment is freed once, reused only when no client can use it, handed out to
  one client, and scanned only when built.
- grader: a lock-free hand-over of phases, a reusable spinning barrier,
  timeouts, threads that outlive the call that started them. Correct when phases
  run in lockstep, no error is lost, nobody works on a memory or a library that
  is gone, and the process exits.
- bank: transactions of many calls, over segments that others link and unlink,
  run again when refused. Correct when no money is made or lost and the grader has
  nothing to report.
- reference memory: one lock in two modes, a list threaded through the data.
  Correct when transactions are serial, the list is sound and nothing leaks.
- examples: correct when the programs that say so are, and all of them end.

## 2. The modules

| module | models | extends / composes |
|---|---|---|
| `EpochGate` | what a batcher promises: groups of threads, one after another | |
| `Batcher` | `batcher.c` without the commit | refines `EpochGate` |
| `BatcherProofs` | theorems about `Batcher` | extends it |
| `SnapshotMemory` | what the memory promises to an epoch: one snapshot, first updater wins, publication at one point | extends `EpochGate` |
| `DualVersionedMemory` | the words of a segment under transactions | extends `Batcher`, refines `SnapshotMemory` |
| `MemoryProofs` | theorems about `DualVersionedMemory` | extends it and `BatcherProofs` |
| `SnapshotProofs` | that it implements `SnapshotMemory` | extends `MemoryProofs` |
| `EpochHistory` | the same with a record of each epoch's reads, writes and ends | extends `DualVersionedMemory` |
| `HistoryProofs` | theorems about `EpochHistory` | extends it and `MemoryProofs` |
| `SegmentTable` | allocation, freeing, abort and commit on the table | extends `Batcher` |
| `SegmentProofs` | theorems about `SegmentTable` | extends it and `BatcherProofs` |
| `SpinBarrier` | the grader's spinning barrier (`common.hpp`) | |
| `GradingSync` | master and workers of the grader: `Sync`, `Latch`, `measure` | extends `SpinBarrier` |
| `Grader` | the main thread around `measure`: `bounded_run`, creation, destruction, unloading, exit | extends `GradingSync` |
| `GradingProofs` | theorems about `SpinBarrier`, `GradingSync` and `Grader` | extends `Grader` |
| `BankWorkload` | the bank's transactions and phases, call by call (`workload.hpp`), the retry loop (`transactional.hpp`) | |
| `ReferenceMemory` | the lock-based memory (`reference/tm.c`) | |
| `Bank` | the bank on either memory | extends `BankWorkload`, `ReferenceMemory`, `DualVersionedMemory` |
| `BankProofs` | the bank's types, accesses and lists, and what `init` and `check` report | extends it |
| `ExampleThreads` | the examples' lock, and threads that `main` starts and joins | |
| `SharedCounter`, `LeaderElection`, `ProducerConsumer` | `counter1`-`4`, `election1`-`4`, `procon1`-`4` | extend `ExampleThreads` |
| `SyncExamples` | a run of any of the twelve programs | extends these three |
| `ExampleProofs` | theorems about the twelve programs | extends `SyncExamples` |
| `MC*` | model values for the runs | |

**Batcher.** `pc` says where a thread is: outside, blocked in
`pthread_cond_wait`, woken (released, but without the mutex), or inside with an
id. All fields are accessed under `batcher->lock`, so an action is a critical
section: `EnterFirst` and `EnterBlock` are the two branches of `enter_batcher`,
`Resume` its tail after the wait, `LeaveLast` and `LeaveEarly` the branches of
`leave_batcher`. `SpuriousWakeup` is the return of `pthread_cond_wait` without
a broadcast that POSIX allows; the constant `SpuriousWakeups` switches it.
The commit that `LeaveLast` performs is conjoined by the modules that own the
memory, so that it is one step with the hand-over, as it is under the lock.

**DualVersionedMemory.** What runs under one lock is a step; what happens before
the lock or after its release is a step of its own: `write_word`'s unlocked test
(`WriteWord`), its critical section (`WriteLocked`), its `memcpy` (`WriteCopy`).
`AbortWord` is an iteration of the abort loop; test and reset are one step
because only the transaction itself makes an entry its own or gives it up.
`tm_read` and `tm_write` of several words are sequences of word operations.
The unlocked reads are data races in C; on the fields concerned (a `bool` and an
aligned integer) they yield the old or the new value, which is what the
interleaving of these steps gives. `target` holds what was last read until the
client's next operation. A write in a transaction declared read-only is outside
the interface and not modelled.

**EpochHistory** observes: every recorded step is a step of the memory, and no
step depends on the record.

**SegmentTable.** `tm_alloc` is two steps, because the abort loop may run between
the choice of an index (`AllocIndex`) and the building of the segment
(`AllocInit`); the abort loop is two steps per segment, the words without a lock
(`AbortScan`) and the deregistration with it (`AbortDeregister`). `Conflict`
stands for any refused read or write. The commit pushes the marked indices in
increasing order: `CommitSegments` says of the pushed sequence that it is strictly
increasing and has as many entries as there are marked segments, which leaves one. The variables `live`, `allocated`,
`freed`, `newLive`, `newFreed` record which addresses clients have, and bound
what they may pass to `tm_free`. `shared` collects indices handed out while
somebody had their address; the finding below makes it non-empty, and the other
properties speak of the segments outside it.

**SpinBarrier, GradingSync.** An action is one atomic access, or one critical
section of the latch; a loop that spins is a step enabled when the loop would
end. `at` and `spot` are program counters of the workers, `passed` counts
completed calls of `sync()`, `reported` and `threw` record who met an error or
an exception. The workload is left open: `Finish` ends a phase well or with an
error, `Throw` with an exception; in the check, `CheckSync` takes the worker
through the barrier three times, which every path of `check` does, the failing
ones included. Interleaved atomic accesses are sequentially consistent, while the
code uses relaxed ones; every hand-over goes through a release and an acquire of
the mode, the status `Run` or the latch's mutex, or is a read-modify-write, except
one: the store that resets `nbready` precedes the next phase's increments by way
of the latch, the master's store of `Wait` and a control dependency, an order that
the machines the code is built for keep. After a timeout `measure` throws and its
workers go on, until `Grader` ends the process.

**Grader.** `main` says where the main thread is, in `bounded_run`, in `measure`
or on its way out; `runner` is the thread `bounded_run` starts. The main thread holds
the mutex of `bounded_run` from before the runner is started until `wait_for`, and
again from the return of `wait_for` on, while it joins the runner too (`GuardLocked`);
the runner can notify (`RunnerNotifies`) only while the main thread sleeps. From there
`wait_for` returns in time, notified (`BoundedWakes`) or not (`BoundedWakesEarly`, the
spurious return, which the constant `SpuriousReturns` switches), or too late
(`BoundedOverrun`, possible after the notification too, as it is the clock that
decides). After a time-out the runner is detached and goes on with a frame that is
gone: undefined behaviour, which `RunnerAstray` models as ending, as taking the process
down (`"crash"`, `"terminate"`), or, being under no fairness, as doing neither. An
overrun in the constructor leaves `main` by the outer handler, with the library
unloaded; in the destructor, which is `noexcept`, it ends the process, and so does an
exception in the runner itself. One library is graded; others on the command line go
through the same. Nothing runs after an exit.

**BankWorkload, ReferenceMemory, Bank.** A worker's transaction is a queue `todo` of
the calls its body is bound to make. A step is one call that returns, together
with what the body does with the result, which touches only the worker's own
variables: `Returned` goes on with the queue, or, at the last call, with the body
(`long_tx`, `alloc_tx`, `short_tx`). `Retry` is the catch of `TransactionRetry`: the
body starts again with fresh variables `my`, but `arg`, what it captured by
reference, keeps what `short_tx` has done to it. `Unwound` is an exception of another
kind: the destructor still ends, and so commits, the transaction. `known`
is `run`'s count of accounts, updated by long transactions only; a transfer drawn
from it may name accounts that are gone, and is drawn again. `Sync` is the barrier of
`check`, with the contract that `RoundsInLockstep` establishes for the real one.
`ReferenceMemory` keeps the list nodes beside the words; `posix_memalign` returns any
free segment and fails when there is none. `Bank` connects the two: `Reference*`
actions are calls that take effect at once, under the lock; `Dual*` actions are
the steps of `DualVersionedMemory`, a call being several of them. On the
dual-versioned memory the bank stays in its first segment, since words and
segments of that memory are separate modules. A setting fixes library, phase,
workers, numbers and the kinds of transactions that have a positive probability;
the initial state of the phases `run` and `check` is what `init` leaves.

**Examples.** A step is one access to shared memory or one call of the lock; a
`counter++` is a read and a write. The build sets no optimisation, so the races of the
programs called incorrect are interleavings of the accesses in their source. An
item of the buffer is copied in two steps, so that a torn item can be seen. A poll
that fails and changes nothing is a stutter (`procon3`); `procon2` takes and
releases the lock when it polls. `procon3` loads `consumed_until` relaxed: test and
writes that depend on it stay behind it in the machine.

## 3. The runs

| run | bounds | question |
|---|---|---|
| `memory` | 3 threads, 2 words, 2 values | marks belong to the epoch, copies are race-free, the memory implements snapshot isolation with atomic epochs |
| `history` | 4 threads, 1 word, `cur_epoch` mod 2 | with a well-behaved condition variable, on a memory that aborts: exact counters, unique ids, epochs that end alone, refinement of `EpochGate`; no lost update; every abort has a cause in the same epoch |
| `batcher_spurious` | 4 threads, spurious returns allowed | what survives them: no thread lost from the counts, nobody asleep without a waker, everybody gets in |
| `batcher_spurious_commit` | the same | what does not: an epoch is committed around a transaction that holds an id in it (violation) |
| `segments` | 3 threads, 3 indices, 3 free entries | no double free, only freed segments are recycled, the commit meets nobody |
| `segments_alias` | the same | two allocations return one segment (violation) |
| `segments_scan` | the same | an abort scans a segment that is not built (violation) |
| `grading` | 3 workers, 2 timed runs, exceptions in init and run, timeouts, overruns, spurious returns of `wait_for` | phases and barrier rounds in lockstep, a latch that means done, no error lost, a memory that outlives the workers, a notification that is never too early, a process that exits (or joins in vain, see the findings) |
| `grading_check_throws` | the same, exceptions in the check, no timeouts of `measure`, no spurious returns | an exception in the check leaves everybody else waiting for ever (violation) |
| `bank` | 8 settings: the three phases on each memory, 2 or 3 workers, up to 2 transactions each, 1 to 3 accounts, 3 segments | money conserved, nothing to report, lists that agree, no access to freed memory, phases that end |
| `bank_skew` | 3 workers, 3 accounts, removal and transfer on the dual-versioned memory | money is created (violation) |
| `examples` | 3 threads, 3 rounds, 2 slots | the twelve programs do what their comments say, and end |

Why the bounds are enough. The batcher starts with an epoch of one transaction,
and the threads kept waiting form the next: n threads give epochs of up to
n - 1. Four threads give two running transactions while two more wait, three
running together, and a thread that re-enters. Conflicts on words are between
two transactions; three threads give that, and the history run gives three, so
that a read mark of an aborted transaction can meet two others. Two words are
needed for a torn commit and for an abort between two words;
two values tell copies apart. Three indices hold the initial segment, one that
is freed and one that is allocated meanwhile. `EpochMod` folds `cur_epoch`,
which no code reads; where no property mentions it, it is 1. Three workers give
the grader a first, a middle and a last one, at the counter as at the barrier; two
timed runs give phases that follow one of their own kind. `MaxSegments` and
`MaxFree` stop allocation and commit when reached, which is why the segment runs
do not look for deadlock; grader, bank and examples really end, and `GraderExits`,
`WorkersFinish` and `EveryoneFinishes` find what deadlock would.

The bank's settings on the reference memory: two workers of two transactions of all
kinds on segments of one account, so that every added account links a segment and
every removal frees one, with triggers that always and never remove; two workers
that remove and transfer among three accounts of one segment; three workers, so
that read-only transactions share the lock while a writer waits. Three segments are
enough for a first, a middle and a last one, for reuse of freed memory, and for an
allocation that fails. On the dual-versioned memory three workers are needed for
two transactions in one epoch, the first epoch being of one. `nbtxperwrk` of
`check`, 100 in the code, is a worker's number of transactions. The examples have
more rounds than slots, so that the buffer wraps; a third thread gives the counter a
write-back from before everything else. `memory`, `history`, `bank_skew` and the
segment runs use symmetry of threads, with invariants and safety properties only;
the runs with liveness use none.

Fairness. A woken thread gets the mutex: while it waits every other thread can
take it a bounded number of times before it blocks itself, so the mutex need not
be fair; with spurious returns this rests on a mutex that starves nobody. A
transaction ends: `BatcherFairness` says so directly. Nobody is obliged to begin a
transaction. The bank has the weakest fairness there is: some thread that can run
does, whichever (`WF` of the whole next-state relation). Its workers have
finitely many transactions, so neither the readers-writer lock nor the mutex need be
fair: who waits is let in when the others have run out. `WorkersFinish` leaves out the
phase `run` where the code does not promise its end: where accounts are removed, a
transfer may ask for missing ones again and again; on the dual-versioned memory,
transfers in opposite directions may abort each other again and again. The grader's
threads are scheduled (weak fairness of the main thread, the runner and each
worker), which includes that the transactions of a phase and the library's functions
end; a wait with `bounded_run`'s limit ends, `measure` is never obliged to give up, and a
detached runner is not obliged to anything.
The examples' threads are scheduled, and a thread that asks for the lock again and
again does not keep the other from it (strong fairness of taking the lock):
`procon2` polls under the lock, and in `procon4` a waiter may return spuriously.

### Findings

- **Spurious return** (`batcher.c:25`). The wait is not in a loop. A thread let in
  early takes an id in the running epoch but is counted for the next. Two then run
  where one is counted, and the first to leave, taken for the last, commits the epoch
  around the other. (If it has not taken its id by then, it is simply in the next
  epoch, and no harm is done.) The counters survive: nobody is lost or stuck.
- **Unregistered readers** (`tm.c:326`). A second reader of a word is not recorded, and
  the first may write it afterwards: epochs are not serializable. In the bank, the
  removal of an account adds a balance to the parity that a transfer of the same
  epoch has since lowered; both commit, and money is created, which a later long
  transaction reports as a violation.
- **Repeated recycling** (`batcher.c:68`). A freed segment stays deregistered, and
  every later commit pushes its index again: two allocations share a segment.
- **Scan of an unbuilt segment** (`tm.c:203`). `n_segments` grows before the segment
  is built, and the abort loop does not hold the lock while it reads.
- **Exception in the check** (`grading.cpp:182`). A worker that leaves the check by
  an exception reports it, but has not passed the barrier the others spin at;
  without a time limit, as for the reference, the grader never ends.

Two more the grader's model has, without a run of their own:

- **Joined in vain** (`common.hpp:285`). `bounded_run` waits without a predicate. After
  a spurious return it joins the runner with the mutex locked that the runner needs to
  notify: both wait for ever, however short the time limit. `GraderExits` names this
  state (`JoinedInVain`) as the one that keeps the process from ending, for
  `SpuriousReturns` only; the run shows that there is no other.
- **Unloaded in use** (`grading.cpp:309`). The workload is constructed outside the `try`
  block that quick-exits because running threads must not lose their library: when
  `tm_create` overruns, its library is unloaded around it (`BoundedOverrun`, `Unload`).

## 4. The proofs

Each theorem holds for every value of the constants that meets the assumptions named
in the modules; the runs evaluate those. What TLC checks on a small instance is
thereby proved for any number of threads, words, segments, workers, rounds and slots.

The theorems about the library suppose a condition variable without spurious
returns (`~SpuriousWakeups`) unless they say otherwise: the finding above shows that
the code relies on it. Those about the grader and the examples suppose nothing of
the kind: the grader's hold for either value of `SpuriousReturns`, and the models of the
examples always allow spurious returns.

**Batcher** (`BatcherProofs`).

- whatever wakes the waiters: `TypeCorrect`, `CountersConserveThreads`,
  `NeverAsleepAlone`;
- without spurious returns: `CountersAreExact`, `IdsAreUnique`,
  `CommitRunsAlone`, `BatcherRefinesGate`.

Assumptions: the set of threads is finite and `EpochMod` is positive. The argument
has two inductive invariants. `CountInv` adds to `Conservation`
that `n_remaining = 0` implies `n_blocked = 0` (or a thread would open an epoch
beside sleeping ones) and that no more threads sleep than `n_blocked` says (a
spurious return does not lower it); it is kept by every step, including the
spurious one. `EpochInv` adds to `Accounting` and `UniqueIds` that an empty
batcher has a reset id generator; a spurious return breaks it, hence the
hypothesis. `LastIsAlone` turns `n_remaining = 1` into "I am the only active
thread", from which the commit theorem and the refinement follow step by step.

**Words** (`MemoryProofs`): `MemoryTypesKept`, `MarksBelongToEpoch`,
`CopiesNeverRace` and `MemoryCommitsAlone`, for at most 65536 threads
(`FewThreadsAssumption`: transaction ids index `is_ro_flags`, which has
`MAX_NUM_SEGMENTS` entries, and must differ from `NONE`). `CopiesRaceFree` says
nothing of who owns a word, so it is not inductive. `MemoryInv` is: it joins
`EpochInv`, the types and `WordsBelongToEpoch` with `OperationsMatch` (an operation
is under way only while its thread holds an id) and `CopiersOwn` (whoever is
about to touch the writable copy of a word owns it and has marked it written).
The marks of another thread survive a step because a step changes only marks that
are free or its own, and ids are unique; at the end of an epoch nobody else is
inside (`LastIsAlone`). Two threads about to touch a word's writable copy would
both own it, hence have one id, hence be one thread: `WriterIsAlone`.
`MemoryUsesBatcher` shows that a step of the memory is a step of the batcher or
leaves it alone, which carries the batcher's theorems over to the memory.

**Snapshot isolation** (`SnapshotProofs`): `MemoryRefinesSnapshot`, the refinement
that the run `memory` checks. The mapping reads a transaction's buffer off the words
it owns, so each step needs to know which words a thread owns, and when.
`SnapshotInv` adds to `MemoryInv` that a transaction owns nothing at its start or when
read-only, nor the word it is about to read from the other copy, to lock, or has taken
back (`OwnsOnlyWhatItWrote`), and that ids are held inside only. Then each step has a
lemma saying which abstract step it is: the unlocked test, the critical section and
the `memcpy` of a write are a stutter, an update or a stutter; the commit of the last
transaction is the one point where all buffers are published. `ReadOnlyNeverAborts`
comes out of the same invariant.

**Histories** (`HistoryProofs`): `UpdatesAreNotLost`, `RefusalsHaveACause`.
`HistoryInv` says that while an epoch runs the record and the control structures
agree: what a transaction wrote it still owns until it aborts, also after it has
left (`WritesAreOwned`), and whoever is registered for a word is recorded with it
(`MarksAreRecorded`). The epoch's end resets the structures but not the record, so
`NoLostUpdate` is a conjunct of its own. `HistoryOnlyObserves` shows that the
record constrains nothing.

**Segment table** (`SegmentProofs`): `SegmentTypesKept`, `FreedOnce`,
`MarksAreOfFrees`, `CommitMeetsNone`, `SegmentsUseBatcher`; assumptions: at most
65536 threads, `NobodyAssumption` (the value for a free lock is no thread).
`NoDoubleFree` compares what clients freed. What keeps it is that a mark names the
transaction that freed the segment until that one takes it back (`FreedAreMarked`),
that every mark on a segment in use comes from such a free (`MarksAreFrees`), and
that ids are unique in an epoch; `ScannedAreUnmarked` is the abort loop's progress.
All of it leaves out the segments in `shared`, those that were handed out twice: for
them it is false, which is the finding on recycling.

**Grader** (`GradingProofs`): `RoundsKept`, `PhasesKept`, `LatchKept`, `ErrorsKept`,
`GraderTypes`, `WorkersHaveMemory`, `RunnerHeard`, and `ExitsHonestly`, the safety
half of `GraderExits`. `GraderInv` has three parts. `BarrierInv`: the shared counter
is the number of threads that have arrived and not departed, in both modes of the
barrier; which places are empty in each mode; the thread that switches the mode is
alone in doing so, with everybody or nobody inside; and all threads are in one
round, where one that has seen the mode change counts for the next. `SyncInv`: the
phase is in one of three stages (workers gathering, running, settled), each
saying what `status`, `nbready`, the latch and every worker's place are. `MainInv`:
what the main thread's place says of runner, memory, library and master; that the
runner is not over while the main thread is yet to wait or asleep is `RunnerHeard`.
`GraderTypes` includes that the master never reaches the branch the code marks
as unreachable.

**Examples** (`ExampleProofs`): `ExamplesTypesKept`, `CountersExact`,
`CountersLoseSome`, `ElectionsElectOne`, `ElectionsElectSome`, `ConsumersGetItems`,
`SlotsKeptApart`, for any numbers of threads and rounds (at least two) and any
buffer. `ThreadInv` says which steps belong to which program and that
the mutex is held in the critical section, by one thread. `CounterInv` compares the
counter with the set of increments made, each named by thread and round, so that a
sum becomes a cardinality; for the racing counters, that a thread which has
completed a round writes at least 2 from then on. `ElectionInv` compares a round's
leader and count with the threads that are past it or about to count. `BufferInv`
orders the rounds of the two threads and the published counters, and says of every
item where it is: in the buffer from its publication to its consumption, in
halves while it is copied. `SlotsDiffer` (items less than a buffer apart have
different slots) is the fact about the modulus that everything there rests on.

**Bank** (`BankProofs`): `BankTypes`, on both memories and for all settings. `Fits`
orders the transactions a worker goes through and says, for each, how many rounds it
has committed and how often it has passed the barrier; without it `BankTypeOK` would
not bound either. `InTransactions` says that whoever is in the batcher, or in
an operation of the dual-versioned memory, is in a transaction, so that a refusal
never refills the queue of a worker that is done. Nothing is assumed of the values
read: the bodies queue a bounded number of calls whatever those are.

`BankAccessesAllocated` and `BankSegmentsLinked` do depend on the values read. They are
about the lock-based memory; on the dual-versioned one, where the bank has one
segment, they say only that no call leaves it. `AccessesAllocated` is not inductive: that a call goes to an allocated
segment follows from where its body has got the address, and a body may hold an
address over several calls. `LinksInv` adds, in named parts: for every body that is
inside, at which call it is and what its variables mean there (`BodiesFit`; e.g.
alloc_tx, once it has counted a segment, knows the one before it, which points to it);
that the accounts form one chain through `NEXT`, each segment but the first pointed
to by exactly one other and, in `run`, counting at least one account (`AccountsFit`); that
whoever is inside has the lock as it needs it (`LockHeld`); that the library's list is
the same forwards and backwards and has no circle (`ListFits`); and, on the
dual-versioned memory, that both copies of the first segment's header end the chain
and count at least one account and that the operation under way is the pending call
(`DualFit`). The chain is whole except
in three places of alloc_tx, all of them before a write to be made under the exclusive
lock (`InPieces`): the last segment is freed and still linked; a new one is not yet
linked; it is linked and has no account yet. `PiecesWrite` and `WriterAlone` show that
nobody else is inside then, `ListGrows` and `ListShrinks` are the two changes of the
list, and `WholeToOthers` says that whoever else is inside finds the chain whole. Whatever a read returns, on either memory, sends the body
where it may be (`ReadGoesOn`); on the dual-versioned one this needs only that each
copy of the header is good for a reader, not which of the two it gets. Assumed: at
least one account in a segment, as in `BankWorkload`, and that the value for a free
lock is no worker (`NoWriterAssumption`). TLC has checked every part of `LinksInv` on
the instance of the run `bank`.

`BankCheckHonest`: on the lock-based memory, `NoViolationReported` holds in the phases
`init` and `check`, for any numbers of workers, accounts and rounds. `HonestInv` adds to
`LinksInv`, for `init`: whatever is left of a worker's writes stores the initial balance
in the first account, or it is there already, and a worker that is past them finds it
there; that others store it again makes no difference. For `check`: nobody is more than
one barrier ahead of anyone, and only of those who wait there (`BarrierFits`); how many
rounds a worker has behind it and which call is next (`StageFits`, `CallAgrees`); once
set, the counter is what was set less the number of decreases, each named by worker
and round, where one that is written and not yet committed counts (`CounterFits`);
and what a worker has last seen is at least the counter, which only falls (`SeenFits`).
The value about to be written is the counter less one because a transaction that writes
holds the lock alone (`WriterAlone`). The third barrier then makes the set of decreases the
whole product of workers and rounds, and the counter zero (`EveryDecrease`). TLC has
checked both parts of `HonestInv` with three workers and two rounds, and with two and
three.

Only model-checked: liveness (`BlockedEnters`, `GraderExits`, `WorkersFinish`,
`EveryoneFinishes`), which is out of the prover's reach, `MoneyConserved`, and
`NoViolationReported` in the phase `run` and on the dual-versioned memory. The sums of
`MoneyConserved` and of a long transaction are recursive functions over a list, and an
invariant about them an induction over data. On the dual-versioned memory both hold in
some settings only (the finding on unregistered readers).

## 5. What is not modelled

- Allocation failures in the dual-versioned `tm_alloc` and `tm_create`, and the
  reallocation of its table. The hazards they carry (a lock that is kept, -1 taken for
  an index, a table that moves) are listed without a property.
- Words and segments of the dual-versioned memory in one model: an access to a
  segment that another transaction of the epoch frees is not visible, and the bank
  does not allocate there.
- Addresses and the loops over several words (`tm.c:34-50, 172-182, 235-245`): the
  modules name segments and words, and the bank accesses one word a call.
- `Chrono`, printing and the command line, which do not affect control; `assert_mode`,
  which the build switches off.
- Template, playground and headers, which have no behaviour; `submit.py`, which is
  network I/O.

## 6. Plan

`SegmentTable`: the failing paths of `tm_alloc` and the reallocation of the table.
