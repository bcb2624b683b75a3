------------------------------- MODULE SixLock -------------------------------
(***************************************************************************)
(* The shared/intent/exclusive lock of fs/util/six.[ch], one instance of   *)
(* it, used by several threads.                                            *)
(*                                                                         *)
(* A step is one access to memory the threads share: one atomic operation  *)
(* on lock->state, one per-CPU counter access, or one stretch under        *)
(* lock->wait_lock that touches nothing but what that spinlock protects.   *)
(* The bits of lock->state are the fields of the record state.             *)
(*                                                                         *)
(* The wait list is the set of threads on it (SixWaitFifo models its       *)
(* slots).  should_sleep_fn is the caller's: it may abort any wait.        *)
(***************************************************************************)
EXTENDS Integers, Sequences, FiniteSets

CONSTANTS
    Threads,        \* the tasks using the lock
    NoThread,       \* not a task
    StartTime,      \* trans_start_time of each task
    NCpu,           \* number of possible CPUs
    MaxDrift,       \* bound: how far below zero one CPU's count may get
    MaxWrites,      \* bound: write sections
    SeqMod,         \* lock->seq is counted modulo this: 2^32 in the code
    MaxFifo,        \* the largest wait list: 2^15 slots in the code
    Uses            \* the ways the lock may be used, one of which a run takes

ASSUME SixAssumption ==
    /\ IsFiniteSet(Threads) /\ NoThread \notin Threads
    /\ StartTime \in [Threads -> Nat]
    /\ NCpu \in Nat \ {0} /\ MaxDrift \in Nat
    /\ MaxWrites \in Nat /\ SeqMod \in Nat \ {0} /\ MaxFifo \in Nat \ {0}
    /\ Uses \subseteq
         [calls : [Threads -> SUBSET {"trylock", "lock", "contended", "relock",
                                      "wakeup_all", "increment", "increment_read",
                                      "downgrade", "tryupgrade", "readers_add"}],
          takes : [Threads -> SUBSET {"read", "intent", "write"}],
          count : Nat \ {0},
          percpu : BOOLEAN,
          inline : Nat \ {0},
          allocFails : BOOLEAN]

VARIABLES
    use,        \* the calls each task makes, the lock types it asks for, how
                \* often it may hold one (a bound), SIX_LOCK_INIT_PCPU,
                \* SIX_LOCK_INLINE_WAITERS, whether kzalloc() may fail
    state,      \* lock->state: [read, intent, write, waiting, nospin]
    readers,    \* lock->readers: the per-CPU read counts
    seq,        \* lock->seq
    recurse,    \* lock->intent_lock_recurse and write_lock_recurse
    owner,      \* lock->owner
    waitLock,   \* the holder of lock->wait_lock
    fifo,       \* the tasks in lock->wait_fifo
    size,       \* lock->wait_fifo->size
    acquired,   \* six_lock_waiter.lock_acquired of each task
    pc,         \* where each task is
    req,        \* the lock type it is taking and the entry point it used
    try,        \* the arguments of __do_six_trylock() and its partial sum
    wake,       \* the arguments of __six_lock_wakeup()
    unl,        \* the arguments of do_six_unlock_type() and the NOSPIN it read
    newWf,      \* new_wf of six_lock_slowpath(): its size, or 0
    held,       \* how often each task holds the lock, per type
    lent,       \* tasks whose read counts six_lock_readers_add() took out
    version,    \* history: how many write sections ended
    saved       \* lock sequence number a task saved, with the version then

lockVars == <<state, readers, seq, recurse, owner>>
waitVars == <<waitLock, fifo, size, acquired>>
argVars  == <<req, try, wake, unl, newWf>>
histVars == <<held, lent, version, saved>>
vars == <<use, lockVars, waitVars, pc, argVars, histVars>>

Calls(t) == use.calls[t]
MaxCount == use.count
Percpu   == use.percpu

Types == {"read", "intent", "write"}
Cpus  == 0 .. NCpu - 1

(* this_cpu_add() of n to the read count of the CPU the task is on now. *)
ThisCpuAdd(n) ==
    \E c \in Cpus :
        /\ readers[c] + n >= -MaxDrift
        /\ readers' = [readers EXCEPT ![c] = @ + n]

Goto(t, label) == pc' = [pc EXCEPT ![t] = label]

(* Mutant of LockFail: an intent lock does not keep a second one out. *)
LockFailNoIntent(type) ==
    CASE type = "read"   -> state.write
      [] type = "intent" -> FALSE
      [] type = "write"  -> state.read > 0

(* l[type].lock_fail: the bits that make taking a lock of the type fail. *)
LockFail(type) ==
    CASE type = "read"   -> state.write
      [] type = "intent" -> state.intent
      [] type = "write"  -> state.read > 0

(* Mutant of UnlockWakeup: the last reader does not wake the writer. *)
UnlockWakeupNotWrite(type) ==
    CASE type = "read"   -> "intent"
      [] type = "intent" -> "intent"
      [] type = "write"  -> "read"

(* l[type].unlock_wakeup: whom releasing a lock of the type may let in. *)
UnlockWakeup(type) ==
    CASE type = "read"   -> "write"
      [] type = "intent" -> "intent"
      [] type = "write"  -> "read"

(* lock->state after l[type].lock_val was added, n times for a read. *)
AddVal(s, type, n) ==
    CASE type = "read"   -> [s EXCEPT !.read = @ + n]
      [] type = "intent" -> [s EXCEPT !.intent = n > 0]
      [] type = "write"  -> [s EXCEPT !.write = n > 0]

Hold(t, type, n) == held' = [held EXCEPT ![t][type] = @ + n]

Init ==
    /\ use \in Uses
    /\ state = [read |-> 0, intent |-> FALSE, write |-> FALSE,
                waiting |-> {}, nospin |-> FALSE]
    /\ readers = [c \in Cpus |-> 0]
    /\ seq = 0
    /\ recurse = [intent |-> 0, write |-> 0]
    /\ owner = NoThread
    /\ waitLock = NoThread
    /\ fifo = {}
    /\ size = use.inline
    /\ acquired = [t \in Threads |-> FALSE]
    /\ pc = [t \in Threads |-> "idle"]
    /\ req = [t \in Threads |-> [type |-> "read", entry |-> "trylock"]]
    /\ try = [t \in Threads |-> [type |-> "read", task |-> t, try |-> TRUE,
                                 from |-> "fast", cpu |-> 0, sum |-> 0]]
    /\ wake = [t \in Threads |-> [types |-> <<>>, then |-> "idle"]]
    /\ unl = [t \in Threads |-> [type |-> "read", nospin |-> FALSE, then |-> "idle"]]
    /\ newWf = [t \in Threads |-> 0]
    /\ held = [t \in Threads |-> [type \in Types |-> 0]]
    /\ lent = {}
    /\ version = 0
    /\ saved = [t \in Threads |-> [seq |-> 0, version |-> 0]]

-----------------------------------------------------------------------------
(* __do_six_trylock() *)

CallTrylock(t, type, task, first, from) ==
    /\ try' = [try EXCEPT ![t] = [type |-> type, task |-> task, try |-> first,
                                  from |-> from, cpu |-> 0, sum |-> 0]]
    /\ Goto(t, "try")

(* Where a lock operation goes that found the lock taken. *)
AfterFail(t) ==
    IF req[t].entry \in {"trylock", "relock"} THEN "idle"
    ELSE IF req[t].type = "write" THEN "slow_add"
    ELSE "slow_set"

(* The caller of __do_six_trylock() gets 1. *)
Success(t) ==
    LET task == try[t].task
        type == try[t].type
    IN  /\ Hold(task, type, 1)
        /\ \/ /\ try[t].from = "fast"
              /\ Goto(t, IF req[t].entry = "relock" THEN "recheck" ELSE "idle")
              /\ UNCHANGED <<waitVars, wake, newWf>>
           \/ /\ try[t].from = "slow"
              /\ waitLock' = NoThread
              /\ newWf' = [newWf EXCEPT ![t] = 0]
              /\ Goto(t, "idle")
              /\ UNCHANGED <<fifo, size, acquired, wake>>
           \/ /\ try[t].from = "wake"
              /\ fifo' = fifo \ {task}
              /\ acquired' = [acquired EXCEPT ![task] = TRUE]
              /\ Goto(t, IF type = "read" THEN "wake" 
                         ELSE IF \E w \in fifo \ {task} : req[w].type = type
                              THEN "wake_end" ELSE "wake_clear")
              /\ UNCHANGED <<waitLock, size, wake, newWf>>

(* It gets 0 or, when it has to wake waiters of a type, -1 - type: more is *)
(* empty or that type.  do_six_trylock() takes wait_lock for the wakeup,   *)
(* the other two callers hold it.                                          *)
Failure(t, more) ==
    /\ UNCHANGED <<held, waitVars, newWf>>
    /\ CASE try[t].from = "fast" ->
              IF more = <<>>
              THEN Goto(t, AfterFail(t)) /\ UNCHANGED wake
              ELSE /\ wake' = [wake EXCEPT ![t] = [types |-> more, then |-> AfterFail(t)]]
                   /\ Goto(t, "wake_lock")
         [] try[t].from = "slow" ->
              IF more = <<>>
              THEN Goto(t, "insert") /\ UNCHANGED wake
              ELSE /\ wake' = [wake EXCEPT ![t] = [types |-> more, then |-> "insert"]]
                   /\ Goto(t, "wake")
         [] try[t].from = "wake" ->
              IF more = <<>>
              THEN Goto(t, "wake_end") /\ UNCHANGED wake
              ELSE /\ wake' = [wake EXCEPT ![t].types = more \o Tail(@)]
                   /\ Goto(t, "wake")

(* An intent lock, or any lock when the reader count is in lock->state:    *)
(* one cmpxchg.  A write lock that is not being tried for the first time   *)
(* has HELD_write set already and only looks for readers.  six_set_owner() *)
(* follows the cmpxchg at once: until then only its new owner reads owner. *)
TryCmpxchg(t) ==
    /\ pc[t] = "try"
    /\ try[t].type = "intent" \/ ~Percpu
    /\ IF LockFail(try[t].type)
       THEN /\ Failure(t, <<>>)
            /\ UNCHANGED <<state, owner>>
       ELSE /\ Success(t)
            /\ state' = IF try[t].type = "write" /\ ~try[t].try
                        THEN state
                        ELSE AddVal(state, try[t].type, 1)
            /\ owner' = IF try[t].type = "intent" THEN try[t].task ELSE owner
    /\ UNCHANGED <<use, readers, seq, recurse, req, try, unl, lent, version, saved>>

(* Percpu read lock: count ourselves on this CPU, then look for a writer. *)
TryReadInc(t) ==
    /\ pc[t] = "try" /\ Percpu /\ try[t].type = "read"
    /\ \E c \in Cpus :
         /\ readers' = [readers EXCEPT ![c] = @ + 1]
         /\ try' = [try EXCEPT ![t].cpu = c]
    /\ Goto(t, "read_check")
    /\ UNCHANGED <<use, state, seq, recurse, owner, waitVars, req, wake, unl, newWf, histVars>>

(* Mutant of TryReadCheck: it does not look for a writer after counting itself. *)
TryReadNoCheck(t) ==
    /\ pc[t] = "read_check"
    /\ Success(t)
    /\ UNCHANGED <<use, lockVars, req, try, unl, lent, version, saved>>

TryReadCheck(t) ==
    /\ pc[t] = "read_check"
    /\ IF state.write
       THEN Goto(t, "read_dec") /\ UNCHANGED <<held, waitVars, wake, newWf>>
       ELSE Success(t)
    /\ UNCHANGED <<use, lockVars, req, try, unl, lent, version, saved>>

(* Preemption is off: the count goes where it was taken from. *)
TryReadDec(t) ==
    /\ pc[t] = "read_dec"
    /\ readers' = [readers EXCEPT ![try[t].cpu] = @ - 1]
    /\ Goto(t, "read_waiting")
    /\ UNCHANGED <<use, state, seq, recurse, owner, waitVars, argVars, histVars>>

(* Mutant of TryReadWaiting: no wakeup for the writer it may have misled. *)
TryReadNoWakeup(t) ==
    /\ pc[t] = "read_waiting"
    /\ Failure(t, <<>>)
    /\ UNCHANGED <<use, lockVars, req, try, unl, lent, version, saved>>

(* A writer that counted us may have gone to sleep: wake it. *)
TryReadWaiting(t) ==
    /\ pc[t] = "read_waiting"
    /\ Failure(t, IF "write" \in state.waiting THEN <<"write">> ELSE <<>>)
    /\ UNCHANGED <<use, lockVars, req, try, unl, lent, version, saved>>

(* Percpu write lock: announce it, then add up the read counts one CPU     *)
(* after the other.                                                        *)
TryWriteAdd(t) ==
    /\ pc[t] = "try" /\ Percpu /\ try[t].type = "write"
    /\ state' = IF try[t].try THEN AddVal(state, "write", 1) ELSE state
    /\ Goto(t, "write_sum")
    /\ UNCHANGED <<use, readers, seq, recurse, owner, waitVars, argVars, histVars>>

TryWriteSum(t) ==
    /\ pc[t] = "write_sum"
    /\ LET sum == try[t].sum + readers[try[t].cpu]
       IN  IF try[t].cpu + 1 < NCpu
           THEN /\ try' = [try EXCEPT ![t].sum = sum, ![t].cpu = @ + 1]
                /\ UNCHANGED <<pc, held, waitVars, wake, newWf>>
           ELSE /\ UNCHANGED try
                /\ IF sum = 0
                   THEN Success(t)
                   ELSE IF try[t].try
                        THEN Goto(t, "write_sub") /\ UNCHANGED <<held, waitVars, wake, newWf>>
                        ELSE Failure(t, <<>>)
    /\ UNCHANGED <<use, lockVars, req, unl, lent, version, saved>>

TryWriteSub(t) ==
    /\ pc[t] = "write_sub"
    /\ state' = AddVal(state, "write", 0)
    /\ Failure(t, IF "read" \in state.waiting THEN <<"read">> ELSE <<>>)
    /\ UNCHANGED <<use, readers, seq, recurse, owner, req, try, unl, lent, version, saved>>

-----------------------------------------------------------------------------
(* __six_lock_wakeup() *)

(* six_lock_wakeup() with the value s of lock->state: which of the types   *)
(* have a wakeup to do.                                                    *)
NeedsWakeup(s, type) ==
    /\ type = "write" => s.read = 0
    /\ type \in s.waiting

CallWakeup(t, types, then) ==
    /\ wake' = [wake EXCEPT ![t] = [types |-> types, then |-> then]]
    /\ Goto(t, IF types = <<>> THEN then ELSE "wake_lock")

WakeLock(t) ==
    /\ pc[t] = "wake_lock"
    /\ waitLock = NoThread
    /\ waitLock' = t
    /\ Goto(t, "wake")
    /\ UNCHANGED <<use, lockVars, fifo, size, acquired, argVars, histVars>>

Matching(type) == {w \in fifo : req[w].type = type}

(* Readers are all woken; of the others the one that started first. *)
WakeCandidates(type) ==
    IF type = "read"
    THEN Matching(type)
    ELSE {w \in Matching(type) :
            \A u \in Matching(type) : StartTime[w] <= StartTime[u]}

(* Take the lock on behalf of the next waiter. *)
WakeTry(t) ==
    /\ pc[t] = "wake"
    /\ \E w \in WakeCandidates(Head(wake[t].types)) :
         CallTrylock(t, Head(wake[t].types), w, FALSE, "wake")
    /\ UNCHANGED <<use, lockVars, waitVars, req, wake, unl, newWf, histVars>>

(* Nobody of the type is left on the list. *)
WakeClear(t) ==
    /\ \/ pc[t] = "wake" /\ Matching(Head(wake[t].types)) = {}
       \/ pc[t] = "wake_clear"
    /\ state' = [state EXCEPT !.waiting = @ \ {Head(wake[t].types)}]
    /\ Goto(t, "wake_end")
    /\ UNCHANGED <<use, readers, seq, recurse, owner, waitVars, argVars, histVars>>

(* Return from __six_lock_wakeup(); the slow path keeps wait_lock. *)
WakeEnd(t) ==
    /\ pc[t] = "wake_end"
    /\ IF wake[t].then = "insert"
       THEN Goto(t, "insert") /\ UNCHANGED <<waitLock, wake>>
       ELSE /\ waitLock' = NoThread
            /\ CallWakeup(t, Tail(wake[t].types), wake[t].then)
    /\ UNCHANGED <<use, lockVars, fifo, size, acquired, req, try, unl, newWf, histVars>>

(* six_lock_wakeup_all(), which looks at lock->state only once.  That it   *)
(* wakes the remaining waiters too only makes them call should_sleep_fn.   *)
WakeupAll(t) ==
    /\ "wakeup_all" \in Calls(t)
    /\ pc[t] = "idle"
    /\ LET Wants(type) == NeedsWakeup(state, type)
       IN  CallWakeup(t, SelectSeq(<<"read", "intent", "write">>, Wants), "idle")
    /\ UNCHANGED <<use, lockVars, waitVars, req, try, unl, newWf, histVars>>

-----------------------------------------------------------------------------
(* Taking the lock *)

(* six_trylock_ip(), six_lock_ip_waiter(), six_lock_contended() and        *)
(* six_relock_ip(), which first compares the sequence number.  A task      *)
(* takes a read or intent lock only when it holds none (the upper layer    *)
(* increments the one it holds) and a write lock only on top of an intent  *)
(* lock; with read locks of its own it can only try.                       *)
Lock(t, type, entry) ==
    /\ entry \in Calls(t) /\ type \in use.takes[t]
    /\ pc[t] = "idle" /\ t \notin lent
    /\ IF type = "write"
       THEN /\ held[t].intent > 0 /\ held[t].write = 0
            /\ held[t].read > 0 => entry = "trylock"
            /\ version < MaxWrites
       ELSE held[t].read = 0 /\ held[t].intent = 0
    /\ entry = "relock" => type # "write" /\ seq = saved[t].seq
    /\ req' = [req EXCEPT ![t] = [type |-> type, entry |-> entry]]
    /\ IF entry = "contended"
       THEN /\ Goto(t, IF type = "write" THEN "slow_add" ELSE "slow_set")
            /\ UNCHANGED try
       ELSE CallTrylock(t, type, t, TRUE, "fast")
    /\ UNCHANGED <<use, lockVars, waitVars, wake, unl, newWf, histVars>>

(* Mutant of Recheck: the sequence number is compared only once. *)
RecheckSkipped(t) ==
    /\ pc[t] = "recheck"
    /\ Goto(t, "relocked")
    /\ UNCHANGED <<use, lockVars, waitVars, argVars, histVars>>

(* The second comparison of six_relock_ip(). *)
Recheck(t) ==
    /\ pc[t] = "recheck"
    /\ Goto(t, IF seq = saved[t].seq THEN "relocked" ELSE "unlock")
    /\ UNCHANGED <<use, lockVars, waitVars, argVars, histVars>>

Relocked(t) ==
    /\ pc[t] = "relocked"
    /\ Goto(t, "idle")
    /\ UNCHANGED <<use, lockVars, waitVars, argVars, histVars>>

(* six_lock_slowpath(): a writer first keeps new readers out. *)
SlowAdd(t) ==
    /\ pc[t] = "slow_add"
    /\ state' = AddVal(state, "write", 1)
    /\ Goto(t, "slow_set")
    /\ UNCHANGED <<use, readers, seq, recurse, owner, waitVars, argVars, histVars>>

SlowSet(t) ==
    /\ pc[t] = "slow_set"
    /\ waitLock = NoThread
    /\ waitLock' = t
    /\ acquired' = [acquired EXCEPT ![t] = FALSE]
    /\ state' = [state EXCEPT !.waiting = @ \union {req[t].type}]
    /\ CallTrylock(t, req[t].type, t, FALSE, "slow")
    /\ UNCHANGED <<use, readers, seq, recurse, owner, fifo, size, req, wake, unl, newWf, histVars>>

(* six_lock_wait_fifo_insert(), with the larger list of an earlier round   *)
(* of six_lock_wait_fifo_realloc() if that still has the right size.  Only *)
(* the sole waiter spins for the lock before it sleeps.                    *)
Insert(t) ==
    /\ pc[t] = "insert"
    /\ \/ Cardinality(fifo) < size /\ UNCHANGED size
       \/ Cardinality(fifo) = size /\ newWf[t] = 2 * size /\ size' = 2 * size
    /\ fifo' = fifo \union {t}
    /\ waitLock' = NoThread
    /\ newWf' = [newWf EXCEPT ![t] = 0]
    /\ Goto(t, IF fifo = {} /\ req[t].type # "write" /\ ~state.nospin
               THEN "spin" ELSE "parked")
    /\ UNCHANGED <<use, lockVars, acquired, req, try, wake, unl, histVars>>

(* six_lock_wait_fifo_realloc() without a list to install: allocate one    *)
(* with wait_lock dropped and start over, or fail.  A list that is as long *)
(* as it gets fails with wait_lock held, which nobody drops then; and when *)
(* the allocation fails, new_wf still points to the list of an earlier     *)
(* round, which was freed and is freed again on the way out.               *)
Realloc(t) ==
    /\ pc[t] = "insert"
    /\ Cardinality(fifo) = size /\ newWf[t] # 2 * size
    /\ waitLock' = IF size < MaxFifo THEN NoThread ELSE waitLock
    /\ \/ /\ size < MaxFifo
          /\ newWf' = [newWf EXCEPT ![t] = 2 * size]
          /\ Goto(t, "slow_set")
       \/ /\ use.allocFails \/ size >= MaxFifo
          /\ Goto(t, IF req[t].type = "write" THEN "undo_write" ELSE "failed")
          /\ UNCHANGED newWf
    /\ UNCHANGED <<use, lockVars, fifo, size, acquired, req, try, wake, unl, histVars>>

(* six_optimistic_spin() runs out of time, or stops for another reason. *)
SpinTimeout(t) ==
    /\ pc[t] = "spin"
    /\ \/ state' = [state EXCEPT !.nospin = TRUE]
       \/ UNCHANGED state
    /\ Goto(t, "parked")
    /\ UNCHANGED <<use, readers, seq, recurse, owner, waitVars, argVars, histVars>>

(* A waiter, spinning or woken, finds that it was handed the lock. *)
LockAcquired(t) ==
    /\ pc[t] \in {"spin", "parked"}
    /\ acquired[t]
    /\ Goto(t, "idle")
    /\ UNCHANGED <<use, lockVars, waitVars, argVars, histVars>>

(* Mutant of Abort: a lock handed over in the meantime is not released. *)
AbortLeaksLock(t) ==
    /\ pc[t] = "parked"
    /\ waitLock = NoThread
    /\ fifo' = fifo \ {t}
    /\ Goto(t, IF req[t].type = "write" /\ ~acquired[t] THEN "undo_write" ELSE "failed")
    /\ UNCHANGED <<use, lockVars, waitLock, size, acquired, argVars, histVars>>

(* should_sleep_fn() returned an error: leave the list, under wait_lock,   *)
(* or release the lock if it was handed over in the meantime.              *)
Abort(t) ==
    /\ pc[t] = "parked"
    /\ waitLock = NoThread
    /\ IF acquired[t]
       THEN Goto(t, "unlock") /\ UNCHANGED fifo
       ELSE /\ fifo' = fifo \ {t}
            /\ Goto(t, IF req[t].type = "write" THEN "undo_write" ELSE "failed")
    /\ UNCHANGED <<use, lockVars, waitLock, size, acquired, argVars, histVars>>

(* A failed writer lets the readers in again ... *)
UndoWrite(t) ==
    /\ pc[t] = "undo_write"
    /\ state' = AddVal(state, "write", 0)
    /\ Goto(t, "undo_wake")
    /\ UNCHANGED <<use, readers, seq, recurse, owner, waitVars, argVars, histVars>>

(* ... and wakes the ones that waited for it. *)
UndoWake(t) ==
    /\ pc[t] = "undo_wake"
    /\ CallWakeup(t, IF NeedsWakeup(state, "read") THEN <<"read">> ELSE <<>>, "failed")
    /\ UNCHANGED <<use, lockVars, waitVars, req, try, unl, newWf, histVars>>

(* The way out of the slow path with an error; what new_wf has is freed. *)
Failed(t) ==
    /\ pc[t] = "failed"
    /\ newWf' = [newWf EXCEPT ![t] = 0]
    /\ Goto(t, "idle")
    /\ UNCHANGED <<use, lockVars, waitVars, req, try, wake, unl, histVars>>

-----------------------------------------------------------------------------
(* Releasing the lock *)

(* Mutant of StartUnlock: readers subtract the NOSPIN bit as well. *)
StartUnlockReaderNospin(t, type, then) ==
    /\ owner' = IF type = "intent" THEN NoThread ELSE owner
    /\ unl' = [unl EXCEPT ![t] = [type |-> type, then |-> then, nospin |-> state.nospin]]
    /\ Goto(t, "unlock_sub")

(* do_six_unlock_type() up to its atomic operation: NOSPIN is read first   *)
(* and subtracted together with the lock's value.                          *)
StartUnlock(t, type, then) ==
    /\ owner' = IF type = "intent" THEN NoThread ELSE owner
    /\ unl' = [unl EXCEPT ![t] = [type |-> type, then |-> then,
                                  nospin |-> type # "read" /\ state.nospin]]
    /\ Goto(t, "unlock_sub")

(* A lock operation that has to give the lock back and fail. *)
UnlockFailed(t) ==
    /\ pc[t] = "unlock"
    /\ StartUnlock(t, req[t].type, "failed")
    /\ UNCHANGED <<use, state, readers, seq, recurse, waitVars, req, try, wake, newWf, histVars>>

(* The atomic subtraction; its result says whether to wake somebody. *)
UnlockSub(t) ==
    /\ pc[t] = "unlock_sub"
    /\ ~(Percpu /\ unl[t].type = "read")
    /\ LET type == unl[t].type
           new  == [AddVal(state, type, IF type = "read" THEN -1 ELSE 0)
                      EXCEPT !.nospin = @ /\ ~unl[t].nospin]
           next == UnlockWakeup(type)
       IN  /\ state' = new
           /\ CallWakeup(t, IF NeedsWakeup(new, next) THEN <<next>> ELSE <<>>, unl[t].then)
           /\ Hold(t, type, -1)
    /\ UNCHANGED <<use, readers, seq, recurse, owner, waitVars, req, try, unl, newWf, lent, version, saved>>

(* Percpu mode: count down on this CPU, then look at lock->state. *)
UnlockDec(t) ==
    /\ pc[t] = "unlock_sub"
    /\ Percpu /\ unl[t].type = "read"
    /\ ThisCpuAdd(-1)
    /\ Hold(t, "read", -1)
    /\ Goto(t, "unlock_read")
    /\ UNCHANGED <<use, state, seq, recurse, owner, waitVars, argVars, lent, version, saved>>

UnlockRead(t) ==
    /\ pc[t] = "unlock_read"
    /\ CallWakeup(t, IF NeedsWakeup(state, "write") THEN <<"write">> ELSE <<>>, unl[t].then)
    /\ UNCHANGED <<use, lockVars, waitVars, req, try, unl, newWf, histVars>>

(* six_unlock_ip() and six_lock_downgrade()'s second half.  A task saves   *)
(* the sequence number while it still holds the lock for read or intent.   *)
SixUnlock(t, type) ==
    /\ held[t][type] > 0
    /\ type = "intent" /\ held[t].intent = 1 => held[t].write = 0
    /\ saved' = IF type = "write" \/ "relock" \notin Calls(t) THEN saved
                ELSE [saved EXCEPT ![t] = [seq |-> seq, version |-> version]]
    /\ IF type # "read" /\ recurse[type] > 0
       THEN /\ recurse' = [recurse EXCEPT ![type] = @ - 1]
            /\ Hold(t, type, -1)
            /\ Goto(t, "idle")
            /\ UNCHANGED <<seq, owner, unl, version>>
       ELSE /\ StartUnlock(t, type, "idle")
            /\ seq' = IF type = "write" THEN (seq + 1) % SeqMod ELSE seq
            /\ version' = IF type = "write" THEN version + 1 ELSE version
            /\ UNCHANGED <<recurse, held>>
    /\ UNCHANGED <<use, state, readers, waitVars, req, try, wake, newWf, lent>>

Unlock(t, type) ==
    /\ pc[t] = "idle" /\ t \notin lent
    /\ SixUnlock(t, type)

-----------------------------------------------------------------------------
(* Changing a lock that is held *)

(* Add n to the read count, wherever that is kept. *)
ReadersAdd(n) ==
    IF Percpu
    THEN /\ ThisCpuAdd(n)
         /\ UNCHANGED state
    ELSE /\ state' = AddVal(state, "read", n)
         /\ UNCHANGED readers

(* six_lock_increment(): the read count of a lock held for read or intent, *)
(* the recursion count of an intent lock, or, for a node that is written   *)
(* while it is split, those of a write lock.                               *)
Increment(t, type) ==
    /\ pc[t] = "idle" /\ t \notin lent
    /\ held[t][type] < MaxCount
    /\ \/ /\ type = "read"
          /\ \/ held[t].read > 0 /\ "increment_read" \in Calls(t)
             \/ held[t].intent > 0 /\ "increment" \in Calls(t)
          /\ ReadersAdd(1)
          /\ Hold(t, "read", 1)
          /\ UNCHANGED recurse
       \/ /\ type = "intent"
          /\ held[t].intent > 0 /\ "increment" \in Calls(t)
          /\ recurse' = [recurse EXCEPT !.intent = @ + 1]
          /\ Hold(t, "intent", 1)
          /\ UNCHANGED <<state, readers>>
       \/ /\ type = "write"
          /\ held[t].write > 0 /\ held[t].intent < MaxCount /\ "increment" \in Calls(t)
          /\ recurse' = [intent |-> recurse.intent + 1, write |-> recurse.write + 1]
          /\ held' = [held EXCEPT ![t].intent = @ + 1, ![t].write = @ + 1]
          /\ UNCHANGED <<state, readers>>
    /\ UNCHANGED <<use, seq, owner, waitVars, pc, argVars, lent, version, saved>>

(* six_lock_downgrade(): become a reader, then release the intent lock. *)
Downgrade(t) ==
    /\ "downgrade" \in Calls(t)
    /\ pc[t] = "idle" /\ t \notin lent
    /\ held[t].intent > 0 /\ held[t].write = 0
    /\ held[t].read < MaxCount
    /\ ReadersAdd(1)
    /\ Hold(t, "read", 1)
    /\ Goto(t, "downgrade")
    /\ UNCHANGED <<use, seq, recurse, owner, waitVars, argVars, lent, version, saved>>

DowngradeUnlock(t) ==
    /\ pc[t] = "downgrade"
    /\ SixUnlock(t, "intent")

(* six_lock_tryupgrade(); failing changes nothing. *)
TryUpgrade(t) ==
    /\ "tryupgrade" \in Calls(t)
    /\ pc[t] = "idle" /\ t \notin lent
    /\ held[t].read > 0 /\ held[t].intent = 0
    /\ ~state.intent
    /\ state' = IF Percpu THEN AddVal(state, "intent", 1)
                ELSE AddVal(AddVal(state, "intent", 1), "read", -1)
    /\ owner' = t
    /\ held' = [held EXCEPT ![t].read = @ - 1, ![t].intent = 1]
    /\ Goto(t, IF Percpu THEN "upgrade_dec" ELSE "idle")
    /\ UNCHANGED <<use, readers, seq, recurse, waitVars, argVars, lent, version, saved>>

UpgradeDec(t) ==
    /\ pc[t] = "upgrade_dec"
    /\ ThisCpuAdd(-1)
    /\ Goto(t, "idle")
    /\ UNCHANGED <<use, state, seq, recurse, owner, waitVars, argVars, histVars>>

(* A task with read and intent locks takes out its read counts, with       *)
(* six_lock_readers_add(), before it asks for the write lock ...           *)
LendReaders(t) ==
    /\ "readers_add" \in Calls(t)
    /\ pc[t] = "idle" /\ t \notin lent
    /\ held[t].read > 0 /\ held[t].intent > 0 /\ held[t].write = 0
    /\ version < MaxWrites
    /\ ReadersAdd(-held[t].read)
    /\ lent' = lent \union {t}
    /\ req' = [req EXCEPT ![t] = [type |-> "write", entry |-> "lock"]]
    /\ CallTrylock(t, "write", t, TRUE, "fast")
    /\ UNCHANGED <<use, seq, recurse, owner, waitVars, wake, unl, newWf, held, version, saved>>

(* ... and puts them back once it has it or failed to get it. *)
ReturnReaders(t) ==
    /\ pc[t] = "idle" /\ t \in lent
    /\ ReadersAdd(held[t].read)
    /\ lent' = lent \ {t}
    /\ UNCHANGED <<use, seq, recurse, owner, waitVars, pc, argVars, held, version, saved>>

-----------------------------------------------------------------------------
Entries == {"trylock", "lock", "contended", "relock"}

(* What a task does in the middle of a call. *)
Step(t) ==
    \/ TryCmpxchg(t) \/ TryReadInc(t) \/ TryReadCheck(t) \/ TryReadDec(t)
    \/ TryReadWaiting(t) \/ TryWriteAdd(t) \/ TryWriteSum(t) \/ TryWriteSub(t)
    \/ WakeLock(t) \/ WakeTry(t) \/ WakeClear(t) \/ WakeEnd(t)
    \/ Recheck(t) \/ Relocked(t) \/ SlowAdd(t) \/ SlowSet(t) \/ Insert(t)
    \/ Realloc(t) \/ SpinTimeout(t) \/ LockAcquired(t)
    \/ UndoWrite(t) \/ UndoWake(t) \/ Failed(t)
    \/ UnlockFailed(t) \/ UnlockSub(t) \/ UnlockDec(t) \/ UnlockRead(t)
    \/ DowngradeUnlock(t) \/ UpgradeDec(t) \/ ReturnReaders(t)

(* The calls it may make, and the abort should_sleep_fn may ask for. *)
Call(t) ==
    \/ \E type \in Types, entry \in Entries : Lock(t, type, entry)
    \/ \E type \in Types : Increment(t, type)
    \/ Downgrade(t) \/ TryUpgrade(t) \/ LendReaders(t) \/ WakeupAll(t)
    \/ Abort(t)

Next ==
    \E t \in Threads : Step(t) \/ Call(t) \/ \E type \in Types : Unlock(t, type)

Spec == Init /\ [][Next]_vars

(* A task in the middle of a call goes on, raw_spin_lock() lets everybody  *)
(* in who waits (the kernel's spinlocks queue), and locks are released.    *)
FairSpec ==
    /\ Spec
    /\ \A t \in Threads : SF_vars(Step(t))
    /\ \A t \in Threads : SF_vars(\E type \in Types : Unlock(t, type))

-----------------------------------------------------------------------------
(* Every variable has its type; the read count in lock->state never        *)
(* becomes negative nor exceeds what the tasks can hold, which would spill *)
(* into the other bits of the word.                                        *)
TypeOK ==
    /\ state \in [read : 0 .. MaxCount * Cardinality(Threads), intent : BOOLEAN,
                  write : BOOLEAN, waiting : SUBSET Types, nospin : BOOLEAN]
    /\ readers \in [Cpus -> Int]
    /\ seq \in 0 .. SeqMod - 1
    /\ recurse \in [intent : 0 .. MaxCount - 1, write : 0 .. MaxCount - 1]
    /\ owner \in Threads \union {NoThread}
    /\ waitLock \in Threads \union {NoThread}
    /\ fifo \subseteq Threads
    /\ size \in Nat
    /\ acquired \in [Threads -> BOOLEAN]
    /\ req \in [Threads -> [type : Types, entry : Entries]]
    /\ held \in [Threads -> [Types -> 0 .. MaxCount]]
    /\ lent \subseteq Threads

(* Intent locks exclude each other, and a write lock is only held on top   *)
(* of an intent lock and excludes every read lock of other tasks: what     *)
(* __do_six_trylock() must guarantee on each of its paths.                 *)
MutualExclusion ==
    \A t \in Threads :
        /\ held[t].intent > 0 =>
             \A u \in Threads \ {t} : held[u].intent = 0
        /\ held[t].write > 0 =>
             /\ held[t].intent > 0
             /\ \A u \in Threads \ {t} : held[u].read = 0 /\ held[u].write = 0

Abstract == INSTANCE ModeLock WITH
            Owners <- Threads, Modes <- Types,
            Compatible <- ({"read", "intent"} \X {"read", "intent"}) \ {<<"intent", "intent">>},
            held <- [t \in Threads |-> {type \in Types : held[t][type] > 0}]

(* The six lock, with its fast paths, hand-offs by the waker, per-CPU      *)
(* counts, upgrades, downgrades and aborted waits, implements the lock its *)
(* name stands for: shared goes with shared and with intent, a step changes *)
(* what one task holds, and never to something that clashes with another.  *)
ImplementsLock == Abstract!Spec

(* No lost wakeup: when every task is either outside the lock or asleep on *)
(* its wait list, each sleeper really has to wait for somebody.            *)
Resting(t) == pc[t] \in {"idle", "parked", "spin"} /\ t \notin lent

NoLostWakeup ==
    (\A t \in Threads : Resting(t)) =>
        \A w \in fifo :
            CASE req[w].type = "read"   -> \E t \in Threads \ {w} : held[t].write > 0
                                              \/ (t \in fifo /\ req[t].type = "write")
              [] req[w].type = "intent" -> \E t \in Threads \ {w} : held[t].intent > 0
              [] req[w].type = "write"  -> \E t \in Threads \ {w} : held[t].read > 0

(* An operation that fails leaves the caller without the lock it asked     *)
(* for, also when the lock was handed over while the wait was aborted.     *)
FailureHoldsNothing ==
    \A t \in Threads : pc[t] = "failed" => held[t][req[t].type] = 0 /\ t \notin fifo

(* "If the relock operation succeeds, it is as if the lock was never       *)
(* unlocked": nobody held it for write since the sequence number was saved. *)
RelockSound ==
    \A t \in Threads : pc[t] = "relocked" => version = saved[t].version

(* do_six_unlock_type() reads NOSPIN and subtracts it in a second step: it *)
(* must still be set then, or the subtraction would borrow from elsewhere; *)
(* and the read count beside it stays within its bits.                     *)
NospinStillSet ==
    TypeOK /\ \A t \in Threads : pc[t] = "unlock_sub" /\ unl[t].nospin => state.nospin

(* A waiting writer gets the lock or gives up, though readers keep coming   *)
(* whose times overlap: those that come later are kept out by HELD_write,  *)
(* and the last one before it wakes it.                                    *)
WriterProgress ==
    \A t \in Threads : (t \in fifo /\ req[t].type = "write") ~> (t \notin fifo)
=============================================================================
