---------------------------- MODULE TwoStateLock ----------------------------
(***************************************************************************)
(* The two-state shared lock of fs/util/two_state_shared_lock.[ch]: a lock *)
(* with two sides ("add", s = 0, and "block", s = 1), each shared among    *)
(* its own holders and excluding the other side.  bcachefs uses one per    *)
(* inode to keep page cache additions and operations that need the page    *)
(* cache empty apart.                                                      *)
(*                                                                         *)
(* The lock word v is positive while "block" is held, negative while "add" *)
(* is held, and its magnitude is the number of holders.  Waiting goes      *)
(* through the kernel's wait_event(); that part is modelled step by step,  *)
(* because the last unlock and a waiter that is about to sleep race there. *)
(***************************************************************************)
EXTENDS Integers, FiniteSets

CONSTANT Threads        \* the tasks that use the lock

ASSUME ThreadsAssumption == IsFiniteSet(Threads)

VARIABLES
    v,          \* two_state_lock_t.v
    queue,      \* tasks linked into two_state_lock_t.wait, not yet woken
    pc,         \* where each task is
    side        \* the s the task's current or last call was made with

vars == <<v, queue, pc, side>>

Sides == {0, 1}

(* What the lock word moves by when side s is taken: i = s ? 1 : -1. *)
LockVal(s) == IF s = 1 THEN 1 ELSE -1

(* Mutant of Conflicts: only the other side's first holder is noticed. *)
ConflictsFirstHolderOnly(s) == IF LockVal(s) > 0 THEN v = -1 ELSE v = 1

(* The condition under which bch2_two_state_trylock() gives up. *)
Conflicts(s) == IF LockVal(s) > 0 THEN v < 0 ELSE v > 0

Init ==
    /\ v = 0
    /\ queue = {}
    /\ pc = [t \in Threads |-> "idle"]
    /\ side = [t \in Threads |-> 0]

(* A successful bch2_two_state_trylock(): the cmpxchg that adds i. *)
Acquire(t, s) ==
    /\ ~Conflicts(s)
    /\ v' = v + LockVal(s)
    /\ pc' = [pc EXCEPT ![t] = "held"]

(* bch2_two_state_trylock() called on its own; failing changes nothing. *)
TryLock(t, s) ==
    /\ pc[t] = "idle"
    /\ Acquire(t, s)
    /\ side' = [side EXCEPT ![t] = s]
    /\ UNCHANGED queue

(* bch2_two_state_lock() whose trylock failed: enter the slow path. *)
LockContended(t, s) ==
    /\ pc[t] = "idle"
    /\ Conflicts(s)
    /\ pc' = [pc EXCEPT ![t] = "prepare"]
    /\ side' = [side EXCEPT ![t] = s]
    /\ UNCHANGED <<v, queue>>

(* prepare_to_wait(): link into the queue and mark the task sleeping. *)
PrepareToWait(t) ==
    /\ pc[t] = "prepare"
    /\ queue' = queue \cup {t}
    /\ pc' = [pc EXCEPT ![t] = "recheck"]
    /\ UNCHANGED <<v, side>>

(* The condition of __wait_event() holds: finish_wait() unlinks the task. *)
RecheckAcquires(t) ==
    /\ pc[t] = "recheck"
    /\ Acquire(t, side[t])
    /\ queue' = queue \ {t}
    /\ UNCHANGED side

(* It does not hold: on to schedule(). *)
RecheckFails(t) ==
    /\ pc[t] = "recheck"
    /\ Conflicts(side[t])
    /\ pc' = [pc EXCEPT ![t] = "schedule"]
    /\ UNCHANGED <<v, queue, side>>

(* schedule() returns once a wakeup has made the task runnable again. *)
Schedule(t) ==
    /\ pc[t] = "schedule"
    /\ t \notin queue
    /\ pc' = [pc EXCEPT ![t] = "prepare"]
    /\ UNCHANGED <<v, queue, side>>

(* Mutant of Unlock: the wakeup is issued with one holder still inside. *)
UnlockWakesEarly(t) ==
    /\ pc[t] = "held"
    /\ v' = v - LockVal(side[t])
    /\ pc' = [pc EXCEPT ![t] = IF v' = LockVal(side[t]) THEN "wake" ELSE "idle"]
    /\ UNCHANGED <<queue, side>>

(* bch2_two_state_unlock(): drop the count; the last one out must wake. *)
Unlock(t) ==
    /\ pc[t] = "held"
    /\ v' = v - LockVal(side[t])
    /\ pc' = [pc EXCEPT ![t] = IF v' = 0 THEN "wake" ELSE "idle"]
    /\ UNCHANGED <<queue, side>>

(* Mutant of WakeUpAll: wake_up() in place of wake_up_all(). *)
WakeUpOne(t) ==
    /\ pc[t] = "wake"
    /\ queue' = IF queue = {} THEN {} ELSE queue \ {CHOOSE u \in queue : TRUE}
    /\ pc' = [pc EXCEPT ![t] = "idle"]
    /\ UNCHANGED <<v, side>>

(* wake_up_all(), under the wait queue's spinlock. *)
WakeUpAll(t) ==
    /\ pc[t] = "wake"
    /\ queue' = {}
    /\ pc' = [pc EXCEPT ![t] = "idle"]
    /\ UNCHANGED <<v, side>>

Next ==
    \E t \in Threads :
        \/ \E s \in Sides : TryLock(t, s) \/ LockContended(t, s)
        \/ PrepareToWait(t)
        \/ RecheckAcquires(t)
        \/ RecheckFails(t)
        \/ Schedule(t)
        \/ Unlock(t)
        \/ WakeUpAll(t)

Spec == Init /\ [][Next]_vars

(***************************************************************************)
(* A task inside the lock code is always scheduled again, and the callers  *)
(* bracket their critical sections (DEFINE_GUARD in fs/vfs/fs.h), so a     *)
(* holder unlocks.  Nothing obliges an idle task to take the lock.         *)
(***************************************************************************)
Fairness ==
    \A t \in Threads :
        /\ WF_vars(PrepareToWait(t))
        /\ WF_vars(RecheckAcquires(t) \/ RecheckFails(t))
        /\ WF_vars(Schedule(t))
        /\ WF_vars(Unlock(t))
        /\ WF_vars(WakeUpAll(t))

FairSpec == Spec /\ Fairness

-----------------------------------------------------------------------------

(* The tasks inside side s. *)
Holders(s) == {t \in Threads : pc[t] = "held" /\ side[t] = s}

(* A task that wants the lock and is parked until somebody wakes it. *)
Parked(t) == pc[t] = "schedule" /\ t \in queue

(* Every variable has its type, and the lock word never counts more        *)
(* holders than there are tasks.                                           *)
TypeOK ==
    /\ v \in -Cardinality(Threads) .. Cardinality(Threads)
    /\ queue \subseteq Threads
    /\ pc \in [Threads -> {"idle", "prepare", "recheck", "schedule", "held", "wake"}]
    /\ side \in [Threads -> Sides]

(* The two sides exclude each other: bch2_two_state_trylock() never lets a *)
(* task in while the other side has a holder, whatever the interleaving.   *)
MutualExclusion == Holders(0) = {} \/ Holders(1) = {}

(* No lost wakeup: a task parked in schedule() is held up by a holder of   *)
(* the other side, or a task that saw the count reach zero in              *)
(* bch2_two_state_unlock() has still to call wake_up_all().                *)
NoLostWakeup ==
    \A t \in Threads :
        Parked(t) => \/ Holders(1 - side[t]) # {}
                     \/ \E u \in Threads : pc[u] = "wake"

(* What each task holds, as a user of the lock sees it. *)
Held == [t \in Threads |-> IF pc[t] = "held" THEN {side[t]} ELSE {}]

Lock == INSTANCE ModeLock WITH
            Owners <- Threads, Modes <- Sides,
            Compatible <- {<<s, s>> : s \in Sides}, held <- Held

(* The lock word, the wait queue and the races between them implement the  *)
(* lock with two shared sides that callers of bch2_two_state_lock() rely   *)
(* on: tasks enter and leave one at a time, beside their own side only.    *)
ImplementsLock == Lock!Spec

(* A task in __bch2_two_state_lock() does not wait for ever on a lock that *)
(* the other side has left for good.                                       *)
WaiterProgress ==
    \A t \in Threads :
        []<>(\/ pc[t] \notin {"prepare", "recheck", "schedule"}
             \/ Holders(1 - side[t]) # {})
=============================================================================
