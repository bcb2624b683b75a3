------------------------------ MODULE MCSixLock ------------------------------
(* Small instances of SixLock. *)
EXTENDS SixLock, TLC

CONSTANTS t1, t2, t3, none

Two   == {t1, t2}
Three == {t1, t2, t3}

(* Every task has its own age; t1 is the oldest transaction. *)
Ages == [t \in Threads |-> CASE t = t1 -> 1 [] t = t2 -> 2 [] t = t3 -> 3]

AllCalls == {"trylock", "lock", "contended", "relock", "wakeup_all", "increment",
             "increment_read", "downgrade", "tryupgrade", "readers_add"}

(* n tasks make the given calls. *)
First(n) == CASE n = 2 -> {t1, t2} [] n = 3 -> Three
CallsOf(n, calls) == [t \in Threads |-> IF t \in First(n) THEN calls ELSE {}]

(* Everyone takes every type, or t1 writes and the others read, or t1 and   *)
(* t2 write and t3 reads.                                                   *)
AnyType    == [t \in Threads |-> Types]
TwoWriters == [t \in Threads |-> IF t = t3 THEN {"read"} ELSE {"intent", "write"}]
OneWriter  == [t \in Threads |-> IF t = t1 THEN {"intent", "write"} ELSE {"read"}]

(* A lock with the reader count in its state word: two tasks make all the  *)
(* calls there are, three lock and unlock and make the wait list overflow. *)
WordUses ==
    {[calls |-> CallsOf(2, AllCalls), takes |-> AnyType, count |-> 2,
      percpu |-> FALSE, inline |-> 1, allocFails |-> TRUE],
     [calls |-> CallsOf(3, {"lock"}), takes |-> TwoWriters, count |-> 1,
      percpu |-> FALSE, inline |-> 1, allocFails |-> FALSE]}

(* The per-CPU counts are only exact as long as readers do not increment. *)
PercpuUses ==
    {[calls |-> CallsOf(3, {"lock"}), takes |-> OneWriter, count |-> 1,
      percpu |-> TRUE, inline |-> 4, allocFails |-> FALSE],
     [calls |-> CallsOf(2, {"trylock", "lock", "downgrade", "tryupgrade", "readers_add"}),
      takes |-> AnyType, count |-> 1,
      percpu |-> TRUE, inline |-> 4, allocFails |-> FALSE]}

SafeUses == WordUses \union PercpuUses

IncrementUses ==
    {[calls |-> CallsOf(2, {"lock", "increment_read"}), takes |-> OneWriter, count |-> 2,
      percpu |-> TRUE, inline |-> 4, allocFails |-> FALSE]}

(* A writer and two readers that keep coming; with per-CPU counts, one. *)
LiveUses ==
    {[calls |-> CallsOf(IF p THEN 2 ELSE 3, {"lock"}), takes |-> OneWriter,
      count |-> 1, percpu |-> p, inline |-> 4, allocFails |-> FALSE] : p \in BOOLEAN}

(* States that differ only in locals nobody will read again are the same. *)
InTry(t)  == pc[t] \in {"try", "read_check", "read_dec", "read_waiting",
                        "write_sum", "write_sub"}
InWake(t) == pc[t] \in {"wake_lock", "wake", "wake_clear", "wake_end"}
                \/ (InTry(t) /\ try[t].from = "wake")

InUnlock(t) == pc[t] \in {"unlock_sub", "unlock_read"}

(* In a call other than one that takes the lock, or on the way back from one. *)
NotLocking(t) ==
    \/ pc[t] \in {"idle", "downgrade", "upgrade_dec"}
    \/ InUnlock(t) /\ unl[t].then = "idle"
    \/ InWake(t) /\ wake[t].then = "idle"

LiveLocals(t) ==
    << IF NotLocking(t) THEN "" ELSE req[t].type,
       IF InTry(t) /\ try[t].from = "fast" THEN req[t].entry ELSE "",
       IF InTry(t) THEN try[t] ELSE <<>>,
       IF InWake(t) THEN wake[t] ELSE <<>>,
       IF InUnlock(t) THEN unl[t] ELSE <<>>,
       IF pc[t] \in {"spin", "parked"} THEN acquired[t] ELSE FALSE >>

View == <<use, lockVars, waitLock, fifo, size, pc, newWf, histVars,
          [t \in Threads |-> LiveLocals(t)]>>
=============================================================================
