# A TLA+ verification project for bcachefs

bcachefs is a copy-on-write filesystem. All metadata is in btrees. An update
is first made in memory and in the open journal entry; journal entries are
written in order; btree nodes are written later, and a journal entry is
reclaimed when no update in it is needed any more. The repository has the
filesystem (`fs/`, C and Rust, built as a kernel module and in userspace),
stand-ins for kernel services in userspace (`linux/`, `include/`), and the
command line tools (`src/`, `c_src/`).

## Inventory

| Part | Source | State | Operations | What makes it hard |
| --- | --- | --- | --- | --- |
| Two-state lock | `fs/util/two_state_shared_lock.*` | signed holder count, wait queue | trylock, lock, unlock | lock-free; the last unlock races a waiter about to sleep |
| SIX lock | `fs/util/six.*` | lock word, per-CPU read counts, owner, sequence number, wait list | trylock, lock, relock, upgrade, downgrade, increment, unlock, lending readers | several atomic accesses per call; wakeups hand the lock over; waits are aborted |
| Journal | `fs/journal/journal.c`, `write.c`, `reclaim.c` | reservation word, entries in flight, wait lists, pins, sequence numbers on disk | reserve, put, open, close, write, complete, flush, noflush, meta, halt, block | crash at any moment; lock-free walks over entries that complete; writes out of order; errors |
| Journal ring | `fs/journal/reclaim.c`, `init.c` | per-device bucket indices | allocate, retire, discard, resize | indices are advanced under different locks |
| Journal reading | `fs/journal/read.c`, `seq_blacklist.c` | entries found, blacklisted ranges | read, drop, blacklist, replay | entries that were written but must not be used |
| Write buffer | `fs/btree/write_buffer.c` | two key arrays with a journal pin each | fill from journal entries, flush | order of pins, of fills and of flushes |
| Key cache | `fs/btree/key_cache.c` | cached keys, dirty flags, pins | fill, update, flush, evict | flushes race updates and reclaim |
| Btree nodes | `fs/btree/write.c`, `cache.c`, `interior.c` | flag word, two pending writes, reachability | write, complete, split, merge, free | a write completes before its pointer is updated |
| Btree locking | `fs/btree/locking.c` | who holds and who waits for what | lock, wait, look for a cycle, abort | the cycle detector reads without locks |
| Nocow locks | `fs/data/nocow_locking.c` | hash chains of signed counts | trylock, lock, unlock | several buckets per call, hash collisions; writers in place race moves and the allocator |
| Allocator | `fs/alloc/*` | bucket states, open buckets, write points, discards | allocate, mark, discard | cached information; crash between steps |
| Data path | `fs/data/*` | writes in flight, extents | write, read, move, copygc, erasure code | moves race overwrites |
| Snapshots | `fs/snapshots/*` | snapshot trees, subvolumes | create, delete, look up | deletion runs beside use |
| Recovery, shutdown | `fs/init/*` | scheduled and completed passes, read-only state | run, rewind, go read-only | passes schedule earlier passes |
| Superblock | `fs/sb/*` | copies, sequence number, clean section | write, mark clean, mark dirty | several devices |
| Files, VFS, tools | `fs/fs/*`, `fs/vfs/*`, `src/*` | one transaction per operation | | mostly sequential |

The parts interact through the journal: a transaction commit holds SIX locks
on the nodes it updates, takes a reservation, updates nodes or cached keys,
pins the entry, and puts the reservation. Node writes and key cache flushes
drop pins; that lets `last_seq` advance; a flush entry records `last_seq`;
after a crash the newest flush entry says from where to replay. The superblock
says "clean" when no journal entry is needed.

## Modules

| Module | Models | Proofs | Instances |
| --- | --- | --- | --- |
| `ModeLock` | what a lock promises: holders of modes that conflict exclude each other | | |
| `TwoStateLock` | two-state lock with `wait_event()`; implements `ModeLock` | `TwoStateLockProofs` | `MCTwoStateLock` |
| `SixLock` | one SIX lock, every call on it; implements `ModeLock` | | `MCSixLock` |
| `SixWaitFifo` | the slots of the wait lists of SIX locks | `SixWaitFifoProofs` | (in `MCLockGraph`) |
| `LockGraph` | transactions that lock btree nodes, the cycle detector, restarts and node reclaim; uses the wait lists of `SixWaitFifo` | `LockGraphProofs` | `MCLockGraph` |
| `Journal` | the journal with pins, node writes and key cache flushes, and what a crash leaves | | `MCJournal` |
| `WriteBuffer` | the btree write buffer between journal entries and the btree, with its pins | | `MCWriteBuffer` |
| `RecoveryPasses` | requests for recovery passes, the pass loop, the mount, the worker, online fsck | `RecoveryPassesProofs` | `MCRecoveryPasses` |
| `NocowLock` | the table of nocow locks, composed with writes in place, moves and the allocator; each bucket's lock implements `ModeLock` | | `MCNocowLock` |

**ModeLock.** The abstract lock: `held[t]` is the set of modes that owner `t`
holds, a step changes it for one owner, and only to modes that go together
(`Compatible`) with all that the others hold. Three modules implement it with
`INSTANCE ModeLock WITH` and the refinement as a property (`ImplementsLock`):
the sides of the two-state lock, the modes read, intent and write of a SIX lock,
and, for every bucket, the two sides of its lock in the nocow table.

**TwoStateLock.** `v` is the lock word, `queue` the wait queue, `pc` and
`side` the tasks. A step is one atomic operation: the compare-and-exchange of
trylock (`Acquire`), linking into the queue (`PrepareToWait`), the recheck
(`RecheckAcquires`, `RecheckFails`), waking (`Schedule`), the subtraction of
unlock and, separately, the wakeup after it (`Unlock`, `WakeUpAll`).

**SixLock.** The record `state` has the bits of the lock word, `readers` the
per-CPU counts. A step is one atomic access to shared memory, or one stretch
under `wait_lock`. `try`, `wake`, `unl`, `req` are the arguments and locals of
the functions of six.c a task is inside of; `held` is what its callers believe
they hold. A CPU is chosen anew at every per-CPU access, as preemption allows.
`should_sleep_fn` is the caller's and may abort any wait.

**SixWaitFifo.** The array behind the wait list, which `SixLock` treats as a
set, for any number of locks: where a waiter is put (`FreeSlot`, `Join`), how
the list grows (`Grow`) and is trimmed (`Trims`), who is taken off by a wakeup
(`WakeReaders`, `WakeOldest`) and who leaves (`Leave`). A step is one critical
section under `wait_lock`.

**LockGraph.** Each transaction has a list of paths (a node, and read or
intent) which it locks in turn, and of paths it then locks for write. `tr` is
`struct btree_trans` with the place its task is at, `lock` who holds what,
`graph` the stack of frames of each running detector. A failed trylock goes to
the slow path (`Contend`, `SlowGet`, `Wait`), a waiter runs the detector before
it sleeps and after each wakeup (`LoopCheck`), and the detector takes one step
for each lock it comes to (`Scan`), each slot of its wait list (`ScanSlot`, to
`ScanEnd`) and each waiter it goes on to (`Descend`, `Up`). It gives up when it
meets a path that is being changed (`ScanRaced`) and fails when there is no
memory for what it notes (`ScanFails`); all other tasks may
act in between, as the code holds no lock then, and a list may be replaced by a
larger one while it is walked (`StaysOn`). A
cycle found aborts its youngest member (`BreakCycle`), which unlocks and takes
its paths again in the order of the nodes (`Unlock`, `Unlocked`). A reclaimer
locks a node, takes away its identity and wakes its waiters. The module extends
`SixWaitFifo`: the wait lists the detector reads are the arrays. The lock word,
with the wakeups of an unlock, is one step here: `SixLock` has what happens
inside.

**Journal.** The record `j` is `struct journal`. Functions that run under
`j->lock` are operators from one value of `j` to the next, with the names of
the functions (`DoWrites`, `Close`, `OpenOne`, `Cycle`, `PinPut`...), so that a
critical section is one step. Lock-free code has steps of its own: taking and
putting a reservation (`ResGet`, `ResPut`), a flush request's walk over the
entries (`Walk`, one slot per step), the early wakeup by a flush write
(`WriteEndio`). The loop of `bch2_journal_cycle_locked()` opens an entry in one
round and closes it in the next (`Cycle`, `CycleRest`): its caller keeps
`j->lock`, and reservations that need no lock are taken in between. `journal_write_done()` drops the lock in its loop and is split
there (`DoneStart` to `DoneFinish`), `bch2_journal_halt()` between the error
state and `err_seq` (`HaltClose`, `HaltFinish`).

A waitlist head is a sentinel (not in flight, noflush, flush without waiters)
or a set of tasks. `jset` is the device: an entry's write is submitted,
volatile (completed, in the device's cache), durable, or failed; a preflush
makes durable what had completed when it was issued (`pre`), a flush write is
FUA. `u[i][s]` is where the update of item `i` made in entry `s` is (cached,
dirty, being written, volatile, durable), `cov` the entry with the node pointer
that makes it reachable. `Env` chooses what is left out: whether the flush
delay has passed, whether a flush would free space, whether there is space.

**WriteBuffer.** A transaction leaves its keys in a journal entry
(`Reserve`, `Fill`). They are taken out when the entry is written
(`WriteStart`, then the intake) or earlier by a synchronous flush
(`SyncCall`, `SyncFetch`, the `Fetch` actions). The intake stages them in
`flushing` if its lock is free and in `inc` otherwise (`LockInc`, `TakeKey`,
`FallBack`, `NoMem`, `Unlock`), and pins the entry. A flush moves keys from
`inc` to `flushing`, sorts, drops overwritten keys and adds up deltas (`Dedup`),
inserts without taking the journal's reservations where it can (`FastOne`), and
in the order of the journal where it cannot (`SlowOne`), then drops or moves the
pin (`Finish`). A key has a position, the entry it came from and a value or a
delta; the btree keeps, per position, what was inserted and what of it is
durable. After a crash, recovery replays the entries from the oldest pin on.

**RecoveryPasses.** `r` is `struct bch_fs_recovery`, `sb` the passes required by
the superblock, `run` the function `bch2_run_recovery_passes()` and the thread
that is in it, `mount` the mount. The pass loop is cut where it drops its lock:
before and after the pass, at the superblock write and at the journal flush.
`RunExplicit` is a request from any context with any of its flags, at any of
these cuts; `Require` is the one that only sets the superblock. What the mount
puts off is loaded and stored in two steps, as in the code. The table of
passes (order, flags, dependencies) is the constant `Table`; the instances use
nine rows of the table in `passes_format.rs`. `hist` is not in the code: what
was requested, what is owed a rerun, what the mount has to do, and what the
exceptions of the properties are about.

**NocowLock.** `tab` has the chains with their slots (bucket, signed
count), `waiters` the wait queue of each chain. The lock steps are those of
`bch2_bkey_nocow_lock()` and `bch2_bkey_nocow_trylock()`, one bucket at a time.
Around them: a write in place looks an extent up, locks its buckets, compares
generations on the slow path, writes and unlocks. A data update looks for others
of the same extent and then lists itself (`StartMove`, `EnterMove`: two may pass
each other, and copygc goes beside the other kinds), locks, reads, writes
elsewhere and, if the extent still matches, replaces the pointer or leaves the
extent as it is; a promote adds a cached pointer and gives up if it has to wait.
A bucket that becomes empty gets a new generation, but one that is open only
later (`owing`, `LaterGen`), when it has been closed (`CloseBucket`). Cached
pointers are invalidated without a look at the locks (`Invalidate`). The
allocator takes buckets that are empty, neither open nor locked (`AllocCheck`,
`AllocTake`). `lost` and `astray` are not in the code: which writes went on
with pointers that had changed unnoticed.

## Runs

All `pass` runs finish within four to five minutes on two cores, most in less
than three. Where a run
puts a component to several uses (who may make which calls, what else may
happen, how many entries), the constant `Uses` lists them and the variable
`use`, chosen in `Init` and never changed, holds the one a behaviour is about:
the state space is the union of those of the uses.

| Run | Shows | Instance |
| --- | --- | --- |
| `two_state_lock` | the sides exclude each other (`ImplementsLock`); a parked task waits for a holder or a wakeup is on its way (`NoLostWakeup`); waiters proceed (`WaiterProgress`) | 3 tasks; 2,466 states |
| `six_lock` | `MutualExclusion`, `NoLostWakeup`; an aborted wait leaves nothing behind (`FailureHoldsNothing`); a relock is refused after a writer (`RelockSound`); the subtraction of NOSPIN never borrows, the read count stays in its bits (`NospinStillSet`); these calls together are those of an abstract lock (`ImplementsLock`) | without per-CPU counts: 2 tasks with all calls, a list of one slot and failing allocations, and 3 tasks that lock and unlock; with counts on 2 CPUs: 3 tasks that lock and unlock, 2 tasks with all calls but increment, relock, `six_lock_wakeup_all()` and `six_lock_contended()`; 1,911,013 states |
| `six_lock_live` | a waiting writer is not starved by readers that keep coming (`WriterProgress`) | a writer and 2 readers whose times overlap, with per-CPU counts 1 reader; 41,333 states |
| `lock_graph` | no circle of transactions is asleep, but one missed by a walk that was given up, and nobody is parked on a reclaimed node (`NoOneStuck`); a lock that may not fail is had, unless memory runs short (`NofailHolds`); every transaction ends (`TransactionsEnd`, with the same two exceptions); waiters are where wakeups and the detector look (`OwnSlot`) | 3 transactions, 4 nodes, lists of 1 to 4 slots; a circle of three in two orders of age, one that gives up and waits elsewhere while it is looked at, one that gives up while a third closes a circle, writers against readers, one and two writers that may not fail, a graph too shallow, a reclaimed node, repeated transactions without memory for the walk; 446,733 states |
| `journal` | after a crash at any moment everything needed is there (`JournalIntact`, `Recoverable`; `DirtyHasFlush`, with an exception named below); what is reported as flushed is (`AckDurable`); a blocked journal is quiet (`BlockedQuiet`); references are put in order (`RefsPutFirst`); none of the code's assertions fails (`NoBug`) | 2 tasks: commits by one with node writes and by both, the key cache, noflush promises, blocking and quiescing, 3 entries; meta and flush requests with delay and full journal, 4 entries; failing writes, 3 entries; failing writes and a halt, 2 entries; 1,160,301 states |
| `journal_live` | every flush request is answered (`FlushReturns`) | timer and 2 entry points, 3 entries; with failing writes 2 entries; 599,043 states |
| `write_buffer` | a crash loses no key and counts no delta twice (`Recoverable`, `TakenOnce`); pins cover what the buffers hold, and only that (`KeysPinned`, `PinsLive`); nothing older overwrites something newer (`NeverBack`); a synchronous flush returns (`SyncReturns`), and then all it covers is in the btree (`SyncFlushed`) | 2 positions, up to 3 entries and 4 updates, full buffers, failing allocations (of plain keys), also after a fall back to `inc`, btree errors; 494,792 states |
| `recovery_passes` | what ran before a pass it depends on is run again (`DependentsRerun`); only online passes run on a started filesystem, but for what a run had taken before (`OfflineNotOnline`); a mount runs what is required (`MountRunsRequired`); what is scheduled in memory is kept until it is attempted (`ScheduledKept`); requests survive failures and remounts (`RequestKept`); every run ends (`RunTerminates`) | ten mounts over 9 passes of the table; 657,801 states |
| `nocow_lock` | each bucket has a lock of its own whatever shares its chain (`ImplementsLock`, `SlotsAccount`); a write in place lands in a bucket that is still its own (`WriteLandsHome`) and is kept, unless the extent changed unnoticed while the writer waited (`KeptUnlessUnnoticed`); every task ends, unless two wait for each other in one chain (`TasksEnd`) | 2 chains of 2 slots, 5 buckets, 3 extents, 2 writers, 2 movers; shared buckets, extents alone in a closed and in an open bucket, promotes of the written extent with invalidation, two data updates of one extent, two orders of two buckets across chains and in one, a full chain, overwrites elsewhere; 161,497 states |

Bounds. Three journal entries are the least at which one is on disk, one is
being written and one is open. No slot of the `in_flight` FIFO is used twice
within these bounds. `OpenNr` (4 in the code) is 2, so that the ring of reservation counts
wraps too. The per-CPU uses have two CPUs because a sum over one is atomic. A
chain of the nocow table has 2 slots instead of 6, so that it fills up; the
count's limit of 2^31 is a small number for the same reason. Three
transactions are the least for a circle that none of its pairs makes, and for a
third that changes what a detector has seen; the lock graph has depth 3 (all of
them), and 2 where it is to be too short. Three entries in
the write buffer are one in `flushing`, one in `inc` and one in the journal.
The nine passes have each of the flags `always`, `online`, `fsck`, `alloc`,
`nodefer` and `ephemeral` in some combinations of the table, among them offline
and online passes over allocation info, and dependencies three deep. The `VIEW`s merge states that differ only in locals
nobody reads again. `CHECK_DEADLOCK FALSE` where all sequence numbers, updates
or writes of an instance can be used up.

Fairness. The locks: a task inside the lock code is scheduled again, holders
unlock. The journal: work items and I/O completions run, tasks inside journal
code are scheduled, and the auto-commit timer expires when armed; new calls,
reservations and node writes need not happen. The write buffer: tasks inside it
and the work item are scheduled, reservations are put, accounting replay ends,
and an allocation that is retried succeeds at some time (strong fairness of
`TakeKey`). Recovery passes: a pass returns, and the thread that runs the loop
is scheduled; nobody need ask for anything. Nocow: writers and movers are
scheduled, their I/O completes, and the allocator does not stop with the
freespace btree locked. The lock graph: a task that is awake runs,
and a reclaim that has begun ends; transactions need not begin. No fairness is assumed of lock acquisition
beyond the lock being free infinitely often.

### Disagreements between code and description

Each has a run that shows it (`expect: violation`):

- `six_lock_percpu_increment`: a per-CPU reader that increments its count on
  one CPU and drops one on another while a writer adds the counts up is
  overlooked by the writer.
- `journal_halt_flush`: `bch2_journal_flush_seq()` returns 0 in the window of a
  halt before `err_seq` is set.
- `nocow_lost_write`: a write in place that had to wait for a move goes on with
  the pointers it looked up before and compares generations only; if the old
  bucket still holds other extents, its generation is the same and the write
  goes to the old place.

Named as exceptions in properties that hold otherwise; the runs reach each of
them:

- `NoOneStuck`, `TransactionsEnd`: when the detector meets a held lock without a
  node, `lock_graph_remove_non_waiters(g, g->g)` looks at the root, which still
  waits, and at edges that cannot have changed. It finds nothing, and the walk is
  given up (`locking.c:509-530`; the comment there takes this for a call from
  debugfs): a circle may be missed for good.
- `NofailHolds`, `TransactionsEnd`: `waitlist_alloc_failed()` returns an error
  without a look at `lock_may_not_fail`, and `btree_node_lock_nopath()` has a
  `BUG_ON` for that (`locking.h:321`).
- `DirtyHasFlush`: the entry of the transition from clean to dirty may have been
  picked as a flush and not be on disk yet when the next entry, a noflush one,
  marks the superblock dirty, which it does before it is submitted
  (`write.c:911-933`, `1146`; the comment at 912 says why the transition entry
  itself is marked later).
- `KeysPinned`, `SyncReturns`: if neither `flushing` nor `inc` can be grown,
  `inc` is left pinned and empty (`write_buffer.c:1372`, `330`): the comment at
  1075 does not hold, and a synchronous flush spins until there is a key.
- `RequestKept`: a persistent request for a pass that is running is recorded and
  erased when the pass completes (`passes.c:150-172`; the comment at 381 says it
  should run again); and the bit is cleared before the journal is flushed.
- `ScheduledKept`: a request between the mount's load and its store of
  `scheduled_passes_ephemeral` (`passes.c:923`) is overwritten and lost; it is
  not counted as scheduled.
- `OfflineNotOnline`: the worker that the mount kicks before `BCH_FS_started` is
  set may take an offline pass and run it after (`passes.c:935`, `fs.c:1596`;
  the comment at `passes.c:329`).
- `MountRunsRequired`: without allocation info the passes over it are dropped,
  `check_allocations` included, and the mount succeeds (`passes.c:716`).
- `KeptUnlessUnnoticed`, `WriteLandsHome`: as in `nocow_lost_write`, and also
  when the extent was alone in a bucket that is still open, whose generation is
  changed later (`background.c:1394`), or when it was promoted while the writer
  waited: the cached copy then has what was there before the write. A cached
  copy may be invalidated while a write to it is under way.
- `TasksEnd`: nocow locks of one key are sorted by chain only
  (`nocow_locking.c:154`): two keys with the same two buckets of one chain in
  opposite orders can wait for each other for ever.

Met while modelling, without a run:

- An entry promised not to be a flush becomes one when `need_flush_write` is
  set (`write.c:1041`), and after an error an entry above the failed one can
  still be a flush (`write.c:1023` says such entries "will never be used").
- A hard btree error drops keys and pin before the filesystem is declared
  broken (`write_buffer.c:822-827`): a synchronous flush may return success in
  between. The properties of the write buffer exempt this (`lost`).
- A SIX wait list of 2^15 slots that is full fails with `wait_lock` held
  (`six.c:312-313`), and when a second allocation fails the list of the first is
  freed twice (`317-323`, `693-694`). `Realloc` has both (`MaxFifo`), but no run
  has so many waiters, and memory that is freed twice is no state of the model.
- A data update that cannot be listed for want of memory goes on unlisted
  (`update.c:1565`). The run does this too, to no harm.

## Proofs

`TwoStateLockProofs`, for any finite set of tasks: `TypeCorrect`,
`SidesExclude`, `WakeupNotLost`, `LockImplemented`. Mutual exclusion is not
inductive by itself; the invariant says that the lock word is the number of
holders of one side minus that of the other and that one of the two is zero.
`WakeupNotLost` adds that a task in the queue is there because of a holder, or
because an unlocker is about to wake it. `LockImplemented` is the refinement of
`ModeLock`: every step of the lock word with its queue is a step of the abstract
lock or leaves it as it is.

`SixWaitFifoProofs`, for any set of locks and waiters and any list size:
`WaitListSound`. The invariant ties `slot` and `data` together (each waiter is
in the slot it remembers and in no other) and says that no occupied slot is at
or beyond `nr`.

`LockGraphProofs`, for any nodes, transactions and uses: `ListsImplemented`, all
that transactions do to the wait lists is allowed by `SixWaitFifo` (the spec of
the composition implies `FifoSpec`), and from it `WaitersSeen`. The wait list
itself relies on its callers: nobody is put on a second list, who is served is
taken off, and who was served does not take itself off again. The invariant says
so of each transaction: one that is on the list of a lock is in the slow path of
that lock and has not been given it.

`RecoveryPassesProofs`, for every table of passes that is ordered by its
dependencies, every set of uses and any number of mounts: `TypeCorrect`,
`DependentsAreRerun`, `OfflineStaysOffline`, `ScheduledIsKept`,
`RequestsAreKept`. The inductive
invariant is about the bitmaps while a pass runs: what was attempted and lies
beyond the current pass is still to come, and what is to come lies beyond the
current pass or beyond an armed rewind. Without it a rewind could skip a
dependent pass. `OfflineStaysOffline` needs the same of the passes a rewind
would restore (`scheduled`) and of what a run had taken when the filesystem was
started. The theorems have the exceptions of their properties.

Assumptions: only those on the constants, named in the modules.

Only model-checked: liveness (out of the prover's reach); `MountRunsRequired`,
which depends on a closure computed by recursion; `SixLock`,
`Journal`, `WriteBuffer`, `NocowLock`; of `LockGraph`, `NoOneStuck` and
`NofailHolds` (an invariant for them has to say what every detector half way
through its walk still will see).

## Plan

1. `EnumeratedRef`, `RcuPending`; lookup and eviction of cached keys and nodes.
2. `JournalRing`: bucket indices against allocation, discards and resizing.
   `JournalRecovery`: choice of entries, blacklist, replay; an abstract
   specification of a log with flush points, which `Journal` should implement.
3. `OpenBuckets` with discards; `DataWrite`; `Snapshots`; `InteriorUpdate`;
   `SuperblockWrite`; logged operations.
4. Pure algorithms: Eytzinger search, varint, cuckoo, key packing.
5. Proofs: `SixLock` exclusion for locks without per-CPU counts (the invariant
   relates the lock word to the holders and to tasks half way through a call);
   `Journal` type correctness, pins and `last_seq`, `JournalIntact`;
   `NocowLock` `SlotsAccount`.

## Not modelled

`PROJECT.json` lists every part with the reason. In the modelled parts:

- SIX locks: `six_lock_counts()` (read only), lock statistics, lockdep.
- Lock graph: a node in several paths of one transaction
  (`btree_node_lock_increment()`, lending read counts), per-CPU read counts,
  relocking, upgrading and downgrading of paths, wait lists that cannot grow. The
  detector
  reads a waiter and the type it wants in one step, and a wakeup of several
  readers empties their slots in one; memory is sequentially consistent (the
  barriers at `locking.c:634` and in `six.c` are taken to do what their comments
  say). What a transaction does with its locks is
  left out; no circle consists only of writers that may not fail, a reclaimed
  node stays locked, and `after` fixes the order in which some uses begin.
- Journal: entry sizes, watermarks, the stuck detector, space and bucket
  allocation, mounting with entries to replay, replicas on several devices (an
  entry has a replicas reference or not), btrees of more than a root node.
- Write buffer: sizing and shrinking of the buffers, the watermark and
  `must_wait`, the sharded fast path, `maybe_flush`, and the retry of a failed
  fetch inside an accounting entry of several keys.
- Recovery passes: the passes themselves, `skip_if_complete`, `norecovery`, the
  second startup run of debug builds, the arithmetic of the rate limit.
- Nocow: I/O errors, device removal, unwritten and partial extents, the fall
  back to copy on write. What moves write goes to buckets of their own, and what
  else goes to an open bucket is not shown. A count's decrement and the wakeup
  after it are one step.

Hazards of parts that have no module yet are in the plan's components: a crash
between a data write and its index update, buckets discarded while allocated,
snapshots deleted while in use, RCU callbacks that race their processing.
