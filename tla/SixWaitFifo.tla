----------------------------- MODULE SixWaitFifo -----------------------------
(***************************************************************************)
(* The wait lists of six locks, struct six_lock_wait_fifo in fs/util/six.c: *)
(* an array of slots that is searched from a hint, where waiters leave      *)
(* holes, whose end is trimmed lazily, and that is replaced by one twice    *)
(* the size when it is full.  All of it happens under lock->wait_lock, one  *)
(* critical section of it is one step here.  SixLock has the lock word,     *)
(* LockGraph the transactions that wait.                                    *)
(***************************************************************************)
EXTENDS Naturals

CONSTANTS
    Locks,          \* the locks, each with its list
    Waiters,        \* the tasks that may wait
    None,           \* an empty slot
    InlineSize,     \* SIX_LOCK_INLINE_WAITERS
    MaxSize         \* bound: the largest list (1 << 15 in the code)

Types == {"read", "intent", "write"}

(* struct six_lock_wait_slot; the code has want in the low bits of start_time. *)
Entry == [w : Waiters, want : Types, start : Nat]

ASSUME FifoAssumption ==
    /\ None \notin Entry
    /\ InlineSize \in Nat \ {0} /\ MaxSize \in Nat

VARIABLES
    fifo,       \* lock->wait_fifo: [size, nr, hint, data]
    slot,       \* wait->slot_idx of each task
    on          \* the tasks that wait, for each lock

fifoVars == <<fifo, slot, on>>

Slots(f) == 0 .. f.size - 1

FifoInit ==
    /\ fifo = [l \in Locks |-> [size |-> InlineSize, nr |-> 0, hint |-> 0,
                                data |-> [i \in 0 .. InlineSize - 1 |-> None]]]
    /\ slot = [w \in Waiters |-> 0]
    /\ on = [l \in Locks |-> {}]

(* The slot six_lock_wait_fifo_insert() settles on. *)
FreeSlot(f, i) ==
    \/ f.data[f.hint] = None /\ i = f.hint
    \/ /\ f.data[f.hint] # None
       /\ i < f.nr /\ f.data[i] = None /\ \A k \in 0 .. i - 1 : f.data[k] # None
    \/ /\ f.data[f.hint] # None
       /\ (\A k \in 0 .. f.nr - 1 : f.data[k] # None) /\ f.nr < f.size /\ i = f.nr

(* The entry is written, and the hint moves on. *)
Filled(f, e, i) ==
    [size |-> f.size, nr |-> IF i + 1 > f.nr THEN i + 1 ELSE f.nr,
     hint |-> (i + 1) % f.size, data |-> [f.data EXCEPT ![i] = e]]

(* The task of entry e joins the list of l, whose slots are f. *)
Join(l, f, e) ==
    \E i \in Slots(f) :
        /\ FreeSlot(f, i)
        /\ fifo' = [fifo EXCEPT ![l] = Filled(f, e, i)]
        /\ slot' = [slot EXCEPT ![e.w] = i]
        /\ on' = [on EXCEPT ![l] = @ \cup {e.w}]

Idle(w) == \A l \in Locks : w \notin on[l]

Insert(l, e) == Idle(e.w) /\ Join(l, fifo[l], e)

(* six_lock_wait_fifo_realloc(): every slot keeps its index. *)
Grown(f) ==
    [size |-> 2 * f.size, nr |-> f.nr, hint |-> 0,
     data |-> [i \in 0 .. 2 * f.size - 1 |-> IF i < f.nr THEN f.data[i] ELSE None]]

Grow(l, e) ==
    /\ Idle(e.w)
    /\ ~ \E i \in Slots(fifo[l]) : FreeSlot(fifo[l], i)
    /\ 2 * fifo[l].size <= MaxSize
    /\ Join(l, Grown(fifo[l]), e)

(* Mutant of Trims: one slot too many is trimmed. *)
TrimsOneMore(d, nr, n) == \A i \in n + 1 .. nr - 1 : d[i] = None

(* six_lock_wait_fifo_shrink() leaves n of the nr slots of d. *)
Trims(d, nr, n) ==
    /\ n > 0 => d[n - 1] # None
    /\ \A i \in n .. nr - 1 : d[i] = None

Emptied(f, I) == [i \in Slots(f) |-> IF i \in I THEN None ELSE f.data[i]]

(* Empty the slots I, six_lock_wait_fifo_remove() for each, then trim the    *)
(* list: h is the lowest of the hint and of these slots.  Their tasks leave. *)
Remove(l, I) ==
    LET f == fifo[l]
    IN  /\ \E h \in I \cup {f.hint}, n \in 0 .. f.nr :
             /\ \A i \in I \cup {f.hint} : h <= i
             /\ Trims(Emptied(f, I), f.nr, n)
             /\ fifo' = [fifo EXCEPT ![l] =
                           [size |-> f.size, nr |-> n, hint |-> IF h > n THEN n ELSE h,
                            data |-> Emptied(f, I)]]
        /\ on' = [on EXCEPT ![l] = @ \ {f.data[i].w : i \in I}]
        /\ slot' = slot

(* The slots a scan of __six_lock_wakeup() for a lock type stops at. *)
Matches(l, type) ==
    {i \in 0 .. fifo[l].nr - 1 : fifo[l].data[i] # None /\ fifo[l].data[i].want = type}

(* Readers: all of them, up to the first one that cannot get the lock. *)
WakeReaders(l) ==
    \E m \in 0 .. fifo[l].nr :
        LET I == {i \in Matches(l, "read") : i < m}
        IN  I # {} /\ Remove(l, I)

(* The other types: the oldest. *)
Oldest(l, type) ==
    {i \in Matches(l, type) :
        \A k \in Matches(l, type) : fifo[l].data[i].start <= fifo[l].data[k].start}

WakeOldest(l, type) == \E i \in Oldest(l, type) : Remove(l, {i})

(* should_sleep_fn() failed: the task takes itself off the list. *)
Leave(l, w) == w \in on[l] /\ Remove(l, {slot[w]})

FifoNext ==
    \E l \in Locks :
        \/ \E e \in Entry : Insert(l, e) \/ Grow(l, e)
        \/ \E w \in Waiters : Leave(l, w)
        \/ WakeReaders(l)
        \/ \E type \in {"intent", "write"} : WakeOldest(l, type)

FifoSpec == FifoInit /\ [][FifoNext]_fifoVars
-----------------------------------------------------------------------------
WellFormed(f) ==
    /\ f \in [size : Nat \ {0}, nr : Nat, hint : Nat, data : [Slots(f) -> Entry \cup {None}]]
    /\ f.nr <= f.size /\ f.hint \in Slots(f)

(* The lists are well formed: the hint can be used as an index.              *)
FifoTypeOK ==
    /\ DOMAIN fifo = Locks /\ \A l \in Locks : WellFormed(fifo[l])
    /\ slot \in [Waiters -> Nat]
    /\ on \in [Locks -> SUBSET Waiters]

(* Every waiter is in the slot it remembers and in no other, so that it takes  *)
(* itself off the list and nobody else, also after the list was replaced; and  *)
(* it is among the first nr slots, the ones a wakeup or the cycle detector     *)
(* looks at, whatever was trimmed and filled before.                           *)
OwnSlot ==
    \A l \in Locks :
        /\ \A w \in on[l] : /\ slot[w] \in 0 .. fifo[l].nr - 1
                            /\ fifo[l].data[slot[w]] # None
                            /\ fifo[l].data[slot[w]].w = w
        /\ \A i \in Slots(fifo[l]) :
              fifo[l].data[i] # None => /\ fifo[l].data[i].w \in on[l]
                                        /\ slot[fifo[l].data[i].w] = i
=============================================================================
