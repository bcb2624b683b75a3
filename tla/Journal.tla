------------------------------ MODULE Journal ------------------------------
(***************************************************************************)
(* The journal of bcachefs: fs/journal/journal.c (reservations, opening    *)
(* and closing entries, flush requests), fs/journal/write.c (choosing,     *)
(* ordering, submitting and completing entry writes) and the pins of       *)
(* fs/journal/reclaim.c, together with what they are for: after a crash at *)
(* any moment, replaying the journal over the btree gives a consistent     *)
(* filesystem that contains everything an fsync reported as written.       *)
(*                                                                         *)
(* Sections of the code that run under j->lock are operators from journal  *)
(* states to journal states (DoWrites, Close, OpenOne, Cycle...), named    *)
(* after the functions they model, so that one step of the specification   *)
(* is one critical section; the record j is the struct journal.  Lock free *)
(* steps (taking and putting a reservation, attaching to a waitlist, the   *)
(* early wakeup of flush waiters) are actions of their own, and may run    *)
(* inside the critical sections that drop into several steps, which hold   *)
(* the variable jlock.                                                     *)
(*                                                                         *)
(* The data is abstract: an update changes an item, a btree node or a key  *)
(* of the key cache; what the model remembers of it is which journal       *)
(* entries and which btree writes carry it.                                *)
(***************************************************************************)
EXTENDS Naturals, FiniteSetsExt

CONSTANTS
    Tasks,        \* threads that commit transactions and wait for flushes
    Nodes,        \* btree nodes, each the root of its btree
    Keys,         \* keys of the key cache
    Home,         \* the node a cached key is flushed to
    MaxSeq,       \* bound: the last journal sequence number
    BufNr,        \* slots of the in_flight FIFO
    OpenNr,       \* JOURNAL_STATE_BUF_NR: entries that may hold reservations
    PinNr,        \* slots of the pin FIFO
    Uses          \* the ways the journal may be used, one of which a run takes

Seqs  == 1 .. MaxSeq
Items == Nodes \cup Keys
AllCalls  == {"commit", "meta", "flush", "noflush", "rejournal", "autocommit"}
AllEvents == {"node", "key", "full", "reclaim", "timer", "halt", "fault", "quiesce", "block"}

ASSUME JournalAssumption ==
    /\ MaxSeq \in Nat /\ BufNr \in Nat /\ BufNr > 1 /\ OpenNr \in Nat /\ OpenNr > 1
    /\ PinNr \in Nat \ {0}
    /\ Nodes \cap Keys = {} /\ Home \in [Keys -> Nodes]
    /\ Uses \subseteq [calls  : [Tasks -> SUBSET AllCalls],
                       events : SUBSET AllEvents,
                       items  : SUBSET Items,
                       limit  : 0 .. MaxSeq]
    /\ \A x \in Uses, t \in Tasks :
          "autocommit" \in x.calls[t] => x.calls[t] = {"autocommit"}

VARIABLES
    use,          \* what each task may do, what else may happen, the items that
                  \* are updated and the last sequence number (bounds)
    j,            \* struct journal
    jlock,        \* what holds j->lock between two steps: 0 nothing, a seq its
                  \* journal_write_done(), Halter bch2_journal_halt(), Cycler
                  \* and Finisher the loop of bch2_journal_cycle_locked(), the
                  \* second when journal_write_done() called it
    jset,         \* the journal entries as the device has them
    pre,          \* the completed writes an issued preflush covers
    ref,          \* the superblock replicas references of the entries
    cleanSeq,     \* the last entry whose btree roots the clean section has
    u,            \* where the update of an item made in an entry is
    cov,          \* the entry with the node pointer that makes it reachable
    pinned,       \* journal pin of an item, 0 when inactive
    wpin,         \* journal pin of the node write in flight
    pc, rs, item, target, pos, loc, ret,      \* the tasks
    acked, vouched                            \* what callers were told

diskVars == <<jset, pre, ref, cleanSeq>>
itemVars == <<u, cov, pinned, wpin>>
taskVars == <<pc, rs, item, target, pos, loc, ret>>
toldVars == <<acked, vouched>>
vars == <<use, j, jlock, diskVars, itemVars, taskVars, toldVars>>

Calls  == use.calls
Events == use.events

Halter   == MaxSeq + 1
Cycler   == MaxSeq + 2
Finisher == MaxSeq + 3
Slot(s) == s % BufNr
Ring(s) == s % OpenNr

---------------------------------------------------------------------------
(* The journal state. *)

NewBuf == [picked |-> FALSE, flush |-> FALSE, started |-> FALSE,
           allocated |-> FALSE, done |-> FALSE, last |-> 0, empty |-> FALSE]

\* A waitlist head: a sentinel or a list of closures.
NotInFlight == [mark |-> "notInFlight", who |-> {}]
Noflush     == [mark |-> "noflush",     who |-> {}]
FlushNoWait == [mark |-> "flushNoWait", who |-> {}]
Waiting(S)  == [mark |-> "none",        who |-> S]

Buf(k, s)      == k.buf[Slot(s)]
Wait(k, s)     == k.wait[Slot(s)]
IsOpen(k)      == k.off \in {"open", "blocked"}
Error(k)       == k.off = "error"
Front(k)       == k.seq_ondisk + 1
Used(k)        == k.seq - k.seq_ondisk
PinBack(k)     == k.seq + 1
MustFlush(k, s)    == Wait(k, s).mark = "flushNoWait" \/ Wait(k, s).who # {}
MustNotFlush(k, s) == Wait(k, s).mark = "noflush"

\* journal_last_unallocated_seq(): 0 when every entry in flight is allocated.
Unallocated(k) ==
    LET S == {s \in Front(k) .. k.seq : ~Buf(k, s).allocated}
    IN  IF S = {} THEN 0 ELSE Min(S)

\* journal_state_seq_count(): reservations on entry s, the open one included.
SeqCount(k, s) == IF k.seq - s < OpenNr THEN k.cnt[Ring(s)] ELSE 0

\* journal_buf_try_noflush() on a waitlist head.
TryNoflush(w) == w.mark = "noflush" \/ (w.mark = "none" /\ w.who = {})

\* Mutant: does not look at the pins.
UpdateLastSeqUnpinned(k) == [k EXCEPT !.last_seq = k.seq_ondisk + 1]

UpdateLastSeq(k) ==
    [k EXCEPT !.last_seq =
        Min({s \in @ .. PinBack(k) :
                 \/ s = PinBack(k)
                 \/ s > k.seq_ondisk
                 \/ k.pin[s] # 0})]
---------------------------------------------------------------------------
(* write.c: which entries are flushes, and when a write may start.  The    *)
(* environment e decides what the model leaves out: whether the flush      *)
(* delay has passed, whether a flush would free journal buckets, and       *)
(* whether there is journal space for a new entry.                         *)

Env == [timer : BOOLEAN, reclaim : BOOLEAN, full : BOOLEAN]

Possible(e) ==
    /\ e.timer   => "timer" \in Events
    /\ e.reclaim => "reclaim" \in Events
    /\ e.full    => "full" \in Events

\* journal_waitlist_splice(): the next entry can take the waiters over.
CanDemote(k, s) ==
    /\ Wait(k, s).who # {}
    /\ k.flushes > 1
    /\ s < k.seq
    /\ Wait(k, s + 1).mark = "none"

Splice(k, s) ==
    [k EXCEPT !.wait[Slot(s)] = Noflush,
              !.wait[Slot(s + 1)].who = @ \cup Wait(k, s).who]

\* __should_flush(), before any demotion: "yes", "no" or "demote".
FlushWanted(k, s, e) ==
    CASE Error(k)           -> "no"
      [] k.need_flush /\ ~Error(k) -> "yes"
      [] OTHER ->
         IF MustNotFlush(k, s) THEN "no"
         ELSE IF e.reclaim /\ Buf(k, s).last # k.last_seq_ondisk THEN "yes"
         ELSE IF CanDemote(k, s) THEN "demote"
         ELSE IF MustFlush(k, s) \/ e.timer THEN "yes" ELSE "no"

\* should_flush(): a write that cannot be marked noflush is a flush after all.
ShouldFlush(k, s, e) ==
    LET want == FlushWanted(k, s, e)
    IN  CASE want = "demote" -> [flush |-> FALSE, k |-> Splice(k, s)]
          [] want = "no" /\ TryNoflush(Wait(k, s)) ->
                [flush |-> FALSE, k |-> [k EXCEPT !.wait[Slot(s)] = Noflush]]
          [] OTHER -> [flush |-> TRUE, k |-> k]

\* The choice between a flush and a noflush write, made once per entry.
PickFlush(k, s, e) ==
    LET d == ShouldFlush(k, s, e)
    IN  CASE ~d.flush ->
               [d.k EXCEPT !.buf[Slot(s)].picked = TRUE,
                           !.buf[Slot(s)].last   = 0]
          [] d.flush /\ k.flushes > 1 -> k
          [] OTHER ->
               [k EXCEPT !.buf[Slot(s)].picked = TRUE,
                         !.buf[Slot(s)].flush  = TRUE,
                         !.need_flush = FALSE,
                         !.armed      = s # k.seq,
                         !.flushes    = @ + 1]

\* Mutant: a flush does not wait for the writes before it.
StartWriteNow(k, s) ==
    IF ~Buf(k, s).picked THEN k
    ELSE [k EXCEPT !.buf[Slot(s)].started = TRUE, !.io[s] = "queued"]

StartWrite(k, s) ==
    IF ~Buf(k, s).picked \/ (Buf(k, s).flush /\ k.seq_ondisk + 1 # s) THEN k
    ELSE [k EXCEPT !.buf[Slot(s)].started = TRUE, !.io[s] = "queued"]

DoWrites(k, e) ==
    LET s == Unallocated(k)
    IN  IF s = 0 \/ Buf(k, s).started \/ SeqCount(k, s) # 0 THEN k
        ELSE StartWrite(IF Buf(k, s).picked THEN k ELSE PickFlush(k, s, e), s)
---------------------------------------------------------------------------
(* journal.c: putting, closing and opening entries. *)

PinPut(k, s) ==
    LET p == [k EXCEPT !.pin[s] = @ - 1]
    IN  IF p.pin[s] = 0 THEN UpdateLastSeq(p) ELSE p

BufPutFinal(k, s, e) == DoWrites(PinPut(k, s), e)

\* The entry's last_seq is taken when it is closed, before the next one opens.
SetLast(k) ==
    [k EXCEPT !.buf[Slot(k.seq)].last = k.last_seq,
              !.bug = @ \/ k.last_seq > k.seq]

Close(k, e) ==
    LET s == k.seq
        c == [SetLast(k) EXCEPT !.off = "closed", !.cnt[Ring(s)] = @ - 1]
    IN  IF ~IsOpen(k) THEN k
        ELSE IF c.cnt[Ring(s)] = 0 THEN BufPutFinal(c, s, e) ELSE c

\* Closing into the error state keeps the pin reference of the entry.
CloseError(k, e) ==
    LET s == k.seq
        c == [SetLast(k) EXCEPT !.off = "error", !.cnt[Ring(s)] = @ - 1]
    IN  IF ~IsOpen(k) THEN [k EXCEPT !.off = "error"]
        ELSE IF c.cnt[Ring(s)] = 0 THEN DoWrites(c, e) ELSE c

\* Mutant: opens an entry of a blocked journal.
CanOpenBlocked(k, e) ==
    /\ ~e.full
    /\ ~Error(k)
    /\ PinBack(k) - k.pin_front < PinNr
    /\ Used(k) + 2 <= BufNr
    /\ k.cnt[Ring(k.seq + 1)] = 0
    /\ k.seq < use.limit

CanOpen(k, e) ==
    /\ k.blocked = "no"
    /\ ~e.full
    /\ ~Error(k)
    /\ PinBack(k) - k.pin_front < PinNr
    /\ Used(k) + 2 <= BufNr
    /\ k.cnt[Ring(k.seq + 1)] = 0
    /\ k.seq < use.limit

\* c->sb.clean: no journal entry has a replicas entry in the superblock.
SbClean == \A s \in Seqs : ref[s] = "none"

\* Mutant: the first entry after the journal was clean is like any other.
OpenOneNoTransition(k) ==
    LET s == k.seq + 1
    IN  [k EXCEPT !.seq = s,
                  !.off = "open",
                  !.pin[s] = 1,
                  !.buf[Slot(s)] = NewBuf,
                  !.need_flush = @ \/ SbClean,
                  !.wait[Slot(s)] = Waiting(k.flush_wait),
                  !.flush_wait = {},
                  !.armed = TRUE,
                  !.cnt[Ring(s)] = @ + 1]

OpenOne(k) ==
    LET s == k.seq + 1
        transition == k.last_seq_ondisk = s
    IN  [k EXCEPT !.seq = s,
                  !.off = "open",
                  !.pin[s] = 1,
                  !.buf[Slot(s)] = NewBuf,
                  !.need_flush = @ \/ SbClean,
                  !.bug = @ \/ Wait(k, s) # NotInFlight,
                  !.wait[Slot(s)] = IF transition THEN FlushNoWait
                                    ELSE Waiting(k.flush_wait),
                  !.flush_wait = IF transition THEN @ ELSE {},
                  !.armed = TRUE,
                  !.cnt[Ring(s)] = @ + 1]

ShouldCycle(k) ==
    IF IsOpen(k) THEN (k.flush_wait # {} \/ MustFlush(k, k.seq)) /\ Used(k) <= 1
    ELSE k.flush_wait # {}

ShouldClose(k, flags) ==
    /\ IsOpen(k)
    /\ \/ "must_open" \in flags
       \/ /\ "must_close" \in flags \/ MustFlush(k, k.seq)
          /\ "force_close" \in flags \/ Used(k) <= 1

ShouldOpen(k, flags) == ~IsOpen(k) /\ ("must_open" \in flags \/ k.flush_wait # {})

\* bch2_journal_cycle_locked(), up to where its loop has opened an entry.
Cycle(k, flags, e) ==
    LET c == IF ShouldClose(k, flags) THEN Close(k, e) ELSE k
    IN  IF flags = {} /\ ~ShouldCycle(k) THEN k
        ELSE IF ShouldOpen(c, flags) /\ CanOpen(c, e) THEN OpenOne(c)
        ELSE c

\* The loop goes on, with no flags left, when the entry it opened has to be
\* closed at once; until then the entry takes reservations.
GoesOn(k, c) == c.seq # k.seq /\ ShouldCycle(c)
---------------------------------------------------------------------------
(* Starting from a clean filesystem, bch2_fs_journal_start(). *)

Init ==
    /\ use \in Uses
    /\ j = [seq |-> 0, off |-> "closed", cnt |-> [r \in 0 .. OpenNr - 1 |-> 0],
            pin |-> [s \in Seqs |-> 0], pin_front |-> 1,
            last_seq |-> 1, last_seq_ondisk |-> 1,
            flushed_seq_ondisk |-> 0, seq_ondisk |-> 0, last_empty_seq |-> 0,
            flushes |-> 0, need_flush |-> TRUE, err_seq |-> 0, blocked |-> "no",
            armed |-> FALSE,
            buf |-> [b \in 0 .. BufNr - 1 |-> NewBuf],
            wait |-> [b \in 0 .. BufNr - 1 |-> NotInFlight],
            flush_wait |-> {}, io |-> [s \in Seqs |-> "no"],
            completed |-> [s \in Seqs |-> FALSE], bug |-> FALSE]
    /\ jlock = 0
    /\ jset = [s \in Seqs |-> [st |-> "none", flush |-> FALSE, last |-> 0]]
    /\ pre = [js |-> {}, up |-> {}]
    /\ ref = [s \in Seqs |-> "none"]
    /\ cleanSeq = 0
    /\ u = [i \in Items |-> [s \in Seqs |-> "none"]]
    /\ cov = [i \in Items |-> [s \in Seqs |-> 0]]
    /\ pinned = [i \in Items |-> 0]
    /\ wpin = [n \in Nodes |-> 0]
    /\ pc = [t \in Tasks |-> "idle"]
    /\ rs = [t \in Tasks |-> 0]
    /\ item \in [Tasks -> {CHOOSE i \in Items : TRUE}]
    /\ target = [t \in Tasks |-> 0]
    /\ pos = [t \in Tasks |-> 0]
    /\ loc = [t \in Tasks |-> BufNr]
    /\ ret = [t \in Tasks |-> TRUE]
    /\ acked = 0 /\ vouched = 0

Goto(t, l) == pc' = [pc EXCEPT ![t] = l]
Unlocked   == jlock = 0

\* j->lock is released, unless the cycling loop is not at its end.
HoldIfGoesOn(who) == jlock' = IF GoesOn(j, j') THEN who ELSE 0

\* The rest of the loop, and where the task that runs it goes then.
AfterCycle == [slow |-> "idle", kicking |-> "errcheck", metakicking |-> "metaput"]

CycleRest(e) ==
    LET k == Cycle(j, {}, e) IN
    /\ jlock \in {Cycler, Finisher}
    /\ Possible(e)
    /\ j' = [IF jlock = Finisher THEN DoWrites(k, e) ELSE k
               EXCEPT !.bug = @ \/ GoesOn(j, k)]
    /\ jlock' = 0
    /\ pc' = [t \in Tasks |-> IF pc[t] \in DOMAIN AfterCycle THEN AfterCycle[pc[t]] ELSE pc[t]]
    /\ UNCHANGED <<use, diskVars, itemVars, rs, item, target, pos, loc, ret, toldVars>>
---------------------------------------------------------------------------
(* Reservations: a transaction commit holds the lock of the item it updates *)
(* from before it takes its reservation until the update is made.           *)

HoldsItem == {"res", "noflush", "res2", "move", "moveput", "movefinal", "movedrop"}

Locked(i) == \E t \in Tasks :
    \/ pc[t] \in HoldsItem /\ item[t] = i
    \/ pc[t] = "move" /\ Home[item[t]] = i

TakeRes(t, l) ==
    /\ j.off = "open"
    /\ j' = [j EXCEPT !.cnt[Ring(j.seq)] = @ + 1]
    /\ rs' = [rs EXCEPT ![t] = j.seq]
    /\ Goto(t, l)
    /\ UNCHANGED <<use, jlock, diskVars, itemVars, target, pos, loc, ret, toldVars>>

\* journal_res_get_fast() for a commit that updates item i.
ResGet(t, i) ==
    /\ pc[t] = "idle"
    /\ "commit" \in Calls[t] /\ i \in use.items
    /\ ~Locked(i)
    /\ j.seq \in Seqs => u[i][j.seq] = "none"     \* bound: one update per entry
    /\ item' = [item EXCEPT ![t] = i]
    /\ TakeRes(t, "res")

\* btree_key_cache_flush_pos() when the journal is low on space: the commit
\* takes a reservation, to journal the key again.
ResGetMove(t, i) ==
    /\ pc[t] = "idle"
    /\ "rejournal" \in Calls[t]
    /\ i \in Keys \cap use.items
    /\ pinned[i] = j.last_seq
    /\ ~Locked(i) /\ ~Locked(Home[i])
    /\ u[i][j.seq] \in {"none", "cached"}
    /\ item' = [item EXCEPT ![t] = i]
    /\ TakeRes(t, "move")

\* __journal_res_get() when the fast path fails: no entry is open, or the open
\* one is full; a new one is opened.
ResGetSlow(t, e) ==
    /\ pc[t] = "idle"
    /\ {"commit", "meta"} \cap Calls[t] # {}
    /\ Unlocked
    /\ ~Error(j) /\ j.blocked = "no"
    /\ Possible(e)
    /\ j' = Cycle(j, {"must_open"}, e)
    /\ j' # j
    /\ HoldIfGoesOn(Cycler)
    /\ Goto(t, IF GoesOn(j, j') THEN "slow" ELSE "idle")
    /\ UNCHANGED <<use, diskVars, itemVars, rs, item, target, pos, loc, ret, toldVars>>

\* bch2_journal_pin_add(): a pin only ever moves to an older entry.
AddPin(k, i, s) ==
    CASE pinned[i] = 0 -> [k EXCEPT !.pin[s] = @ + 1]
      [] pinned[i] > s -> PinPut([k EXCEPT !.pin[s] = @ + 1], pinned[i])
      [] OTHER         -> k

Oldest(i, s) == IF pinned[i] = 0 \/ pinned[i] > s THEN s ELSE pinned[i]

\* ck->seq: the newest value of a cached key.
Newest(i) == CHOOSE q \in Seqs :
    u[i][q] = "cached" /\ \A r \in Seqs : u[i][r] = "cached" => r <= q

\* The cached values leave the key cache, the newest of them in state st.
Uncached(i, st) ==
    [q \in Seqs |-> IF u[i][q] # "cached" THEN u[i][q]
                    ELSE IF q = Newest(i) THEN st ELSE "old"]

\* bch2_btree_insert_key_leaf(), bch2_btree_insert_key_cached().
Update(t) ==
    LET i == item[t] IN
    /\ pc[t] \in {"res", "res2"}
    /\ j' = AddPin(j, i, rs[t])
    /\ pinned' = [pinned EXCEPT ![i] = Oldest(i, rs[t])]
    /\ u' = [u EXCEPT ![i][rs[t]] = IF i \in Keys THEN "cached" ELSE "dirty"]
    /\ cov' = [cov EXCEPT ![i][rs[t]] = 0]
    /\ Goto(t, "put")
    /\ UNCHANGED <<use, jlock, diskVars, wpin, rs, item, target, pos, loc, ret, toldVars>>

\* The key goes to its node as an update of entry rs[t].
Move(t) ==
    LET i == item[t]
        n == Home[i]
        s == rs[t]
    IN
    /\ pc[t] = "move"
    /\ Unlocked
    /\ j' = AddPin(j, n, s)
    /\ pinned' = [pinned EXCEPT ![n] = Oldest(n, s)]
    /\ u' = [u EXCEPT ![i] = [Uncached(i, "old") EXCEPT ![s] = "dirty"]]
    /\ cov' = [cov EXCEPT ![i][s] = 0]
    /\ Goto(t, "moveput")
    /\ UNCHANGED <<use, jlock, diskVars, wpin, rs, item, target, pos, loc, ret, toldVars>>

\* Only then is the key's pin dropped: entry rs[t] has what it protected.
MoveDrop(t) ==
    LET i == item[t] IN
    /\ pc[t] = "movedrop"
    /\ Unlocked
    /\ j' = PinPut(j, pinned[i])
    /\ pinned' = [pinned EXCEPT ![i] = 0]
    /\ Goto(t, "idle")
    /\ UNCHANGED <<use, jlock, diskVars, u, cov, wpin, rs, item, target, pos, loc, ret, toldVars>>

\* bch2_journal_buf_put(): the atomic subtraction, lock free, and what the
\* caller does next when it was the last reference and when it was not.
AfterPut == [put     |-> <<"final", "idle">>,
             moveput |-> <<"movefinal", "movedrop">>,
             metaput |-> <<"metafinal", "metawait">>]

ResPut(t) ==
    /\ pc[t] \in DOMAIN AfterPut
    /\ j' = [j EXCEPT !.cnt[Ring(rs[t])] = @ - 1]
    /\ Goto(t, AfterPut[pc[t]][IF j'.cnt[Ring(rs[t])] = 0 THEN 1 ELSE 2])
    /\ UNCHANGED <<use, jlock, diskVars, itemVars, rs, item, target, pos, loc, ret, toldVars>>

ResPutFinal(t, e) ==
    \E p \in DOMAIN AfterPut :
      /\ pc[t] = AfterPut[p][1]
      /\ Unlocked
      /\ Possible(e)
      /\ j' = BufPutFinal(j, rs[t], e)
      /\ Goto(t, AfterPut[p][2])
      /\ UNCHANGED <<use, jlock, diskVars, itemVars, rs, item, target, pos, loc, ret, toldVars>>
---------------------------------------------------------------------------
(* Flushing cached keys to their node without a reservation: the node takes *)
(* over the key's pin.                                                      *)

KeyFlush(i) ==
    LET n == Home[i] IN
    /\ "key" \in Events
    /\ pinned[i] # 0
    /\ ~Locked(i) /\ ~Locked(n)
    /\ Unlocked
    /\ j' = PinPut(AddPin(j, n, pinned[i]), pinned[i])
    /\ pinned' = [pinned EXCEPT ![n] = Oldest(n, pinned[i]), ![i] = 0]
    /\ u' = [u EXCEPT ![i] = Uncached(i, "dirty")]
    /\ UNCHANGED <<use, jlock, diskVars, cov, wpin, taskVars, toldVars>>

\* bch2_btree_key_cache_journal_flush() of a key updated since: move its pin.
KeyPinUpdate(i) ==
    /\ "key" \in Events
    /\ pinned[i] # 0
    /\ ~Locked(i)
    /\ Unlocked
    /\ pinned[i] # Newest(i)
    /\ j' = PinPut([j EXCEPT !.pin[Newest(i)] = @ + 1], pinned[i])
    /\ pinned' = [pinned EXCEPT ![i] = Newest(i)]
    /\ UNCHANGED <<use, jlock, diskVars, u, cov, wpin, taskVars, toldVars>>
---------------------------------------------------------------------------
(* Btree writes: a node write carries every update made since the last one; *)
(* when it has completed, a commit updates the pointer to the node, and     *)
(* after that its pin is dropped.                                           *)

InNode(n) == {n} \cup {i \in Keys : Home[i] = n}

Moved(n, from, to) ==
    [i \in Items |-> [q \in Seqs |->
        IF i \in InNode(n) /\ u[i][q] = from THEN to ELSE u[i][q]]]

\* __bch2_btree_node_write()
NodeWrite(n) ==
    /\ "node" \in Events
    /\ wpin[n] = 0 /\ pinned[n] # 0
    /\ u' = Moved(n, "dirty", "writing")
    /\ wpin' = [wpin EXCEPT ![n] = pinned[n]]
    /\ pinned' = [pinned EXCEPT ![n] = 0]
    /\ UNCHANGED <<use, j, jlock, diskVars, cov, taskVars, toldVars>>

\* btree_node_write_endio(), then btree_node_write_update_key(): the commit of
\* the new root pointer is in the open entry (in none after a journal error).
NodeWriteCommit(n) ==
    /\ wpin[n] # 0
    /\ \E i \in InNode(n), q \in Seqs : u[i][q] = "writing"
    /\ j.off \in {"open", "error"}
    /\ u' = Moved(n, "writing", "volatile")
    /\ cov' = [i \in Items |-> [q \in Seqs |->
                 IF i \in InNode(n) /\ u[i][q] = "writing" /\ ~Error(j)
                 THEN j.seq ELSE cov[i][q]]]
    /\ UNCHANGED <<use, j, jlock, diskVars, pinned, wpin, taskVars, toldVars>>

\* Mutant: the pin is dropped before the node pointer is updated.
NodeWriteDoneEarly(n) ==
    /\ wpin[n] # 0
    /\ Unlocked
    /\ j' = PinPut(j, wpin[n])
    /\ wpin' = [wpin EXCEPT ![n] = 0]
    /\ UNCHANGED <<use, jlock, diskVars, u, cov, pinned, taskVars, toldVars>>

\* __btree_node_write_done()
NodeWriteDone(n) ==
    /\ wpin[n] # 0
    /\ ~\E i \in InNode(n), q \in Seqs : u[i][q] = "writing"
    /\ Unlocked
    /\ j' = PinPut(j, wpin[n])
    /\ wpin' = [wpin EXCEPT ![n] = 0]
    /\ UNCHANGED <<use, jlock, diskVars, u, cov, pinned, taskVars, toldVars>>
---------------------------------------------------------------------------
(* Journal writes. *)

HasKeys(s) == \E i \in Items : u[i][s] # "none"

\* bch2_journal_write() up to the error check: bch2_journal_write_prep() finds
\* out whether the entry is empty and takes the btree roots from it; after an
\* error nothing is written to a journal that has no flush yet.
WritePrep(s) ==
    LET refused == Error(j) /\ j.need_flush IN
    /\ j.io[s] = "queued"
    /\ j' = [j EXCEPT !.buf[Slot(s)].empty = Buf(j, s).last = s /\ ~HasKeys(s),
                      !.io[s] = IF refused THEN "failed" ELSE "prepped"]
    /\ jset' = IF refused THEN [jset EXCEPT ![s].st = "failed"] ELSE jset
    /\ UNCHANGED <<use, jlock, pre, ref, cleanSeq, itemVars, taskVars, toldVars>>

\* The entry has its place in the journal buckets; the next write may start.
WriteAlloc(s, e) ==
    /\ j.io[s] = "prepped"
    /\ Unlocked
    /\ Possible(e)
    /\ j' = DoWrites([j EXCEPT !.buf[Slot(s)].allocated = TRUE,
                               !.io[s] = "allocated",
                               !.bug = @ \/ Unallocated(j) # s], e)
    /\ UNCHANGED <<use, jlock, diskVars, itemVars, taskVars, toldVars>>

\* The error path: there is no place for the entry, or its replicas reference
\* cannot be taken; nothing is written, the filesystem goes read only.
WriteFail(s) ==
    /\ "fault" \in Events
    /\ \/ j.io[s] = "prepped"
       \/ j.io[s] = "allocated" /\ Wait(j, s).mark # "flushNoWait"
    /\ j' = [j EXCEPT !.io[s] = "failed"]
    /\ jset' = [jset EXCEPT ![s].st = "failed"]
    /\ UNCHANGED <<use, jlock, pre, ref, cleanSeq, itemVars, taskVars, toldVars>>

\* Mark the replicas, then submit: a flush write is preceded by a preflush
\* that covers every write completed by now.
WriteSubmit(s) ==
    LET b == Buf(j, s) IN
    /\ j.io[s] = "allocated"
    /\ ref' = [ref EXCEPT ![s] = IF Wait(j, s).mark # "flushNoWait" THEN "held" ELSE @]
    /\ j' = [j EXCEPT !.io[s] = IF b.flush THEN "preflush" ELSE "submitted"]
    /\ pre' = IF b.flush
              THEN [js |-> {q \in Seqs : jset[q].st = "volatile"},
                    up |-> {p \in Items \X Seqs : u[p[1]][p[2]] = "volatile"}]
              ELSE pre
    /\ jset' = [jset EXCEPT ![s] = [st |-> IF b.flush THEN "none" ELSE "submitted",
                                    flush |-> b.flush, last |-> b.last]]
    /\ UNCHANGED <<use, jlock, cleanSeq, itemVars, taskVars, toldVars>>

WritePreflushed(s) ==
    /\ j.io[s] = "preflush"
    /\ j' = [j EXCEPT !.io[s] = "submitted"]
    /\ jset' = [q \in Seqs |->
                  IF q = s THEN [jset[q] EXCEPT !.st = "submitted"]
                  ELSE IF q \in pre.js THEN [jset[q] EXCEPT !.st = "durable"]
                  ELSE jset[q]]
    /\ u' = [i \in Items |-> [q \in Seqs |->
               IF <<i, q>> \in pre.up THEN "durable" ELSE u[i][q]]]
    /\ pre' = [js |-> {}, up |-> {}]
    /\ UNCHANGED <<use, jlock, ref, cleanSeq, cov, pinned, wpin, taskVars, toldVars>>

\* journal_write_endio() of the last bio; a flush write is FUA, and its waiters
\* are woken early, by journal_write_done_flush(), without j->lock.
WriteEndio(s) ==
    LET f == jset[s].flush IN
    /\ j.io[s] = "submitted"
    /\ j' = [j EXCEPT !.io[s] = "done",
                      !.wait[Slot(s)].who = IF f THEN {} ELSE @]
    /\ jset' = [jset EXCEPT ![s].st = IF f THEN "durable" ELSE "volatile"]
    /\ UNCHANGED <<use, jlock, pre, ref, cleanSeq, itemVars, taskVars, toldVars>>

\* The write failed on every device: journal_write_done() goes read only.
WriteEndioErr(s) ==
    /\ j.io[s] = "submitted"
    /\ "fault" \in Events
    /\ j' = [j EXCEPT !.io[s] = "ioerr"]
    /\ jset' = [jset EXCEPT ![s].st = "failed"]
    /\ UNCHANGED <<use, jlock, pre, ref, cleanSeq, itemVars, taskVars, toldVars>>

\* mark_clean(): the clean section gets the btree roots of the prepped entries.
Prepped == Max({0} \cup {q \in Seqs : j.io[q] \notin {"no", "queued"}})

\* journal_write_done(), up to the completion loop.  A reference that was put
\* off, or that could not be taken, is taken here, and this may fail.
RefTaken(s) ==
    LET missing == Buf(j, s).allocated /\ ~Buf(j, s).empty IN
    CASE j.io[s] = "ioerr"                  -> {"none"}
      [] j.io[s] = "done" /\ missing        -> {"held"}
      [] j.io[s] = "failed" /\ missing      -> {"held", "none"}
      [] OTHER                              -> {ref[s]}

DoneStart(s) ==
    \E r \in RefTaken(s) :
      LET err == j.io[s] = "ioerr" \/ (RefTaken(s) # {r} /\ r = "none") IN
      /\ j.io[s] = "done" \/ (j.io[s] \in {"failed", "ioerr"} /\ Error(j))
      /\ Unlocked
      /\ jlock' = s
      /\ ref' = [ref EXCEPT ![s] = r]
      /\ cleanSeq' = IF ~SbClean /\ (\A q \in Seqs : ref'[q] = "none")
                     THEN Prepped ELSE cleanSeq
      /\ j' = [j EXCEPT !.io[s] = "loop",
                        !.err_seq = IF err /\ (@ = 0 \/ s < @) THEN s ELSE @,
                        !.flushes = IF Buf(j, s).flush THEN @ - 1 ELSE @,
                        !.bug = @ \/ s < j.pin_front]
      /\ UNCHANGED <<use, jset, pre, itemVars, taskVars, toldVars>>

\* last_uncompleted_write_seq(): may the loop complete the oldest entry?
Completable(s) == Used(j) > 0 /\ (Buf(j, Front(j)).done \/ Front(j) = s)

\* Mutant: flushed_seq_ondisk advances after an error.
AdvancesOnError(f) == ~MustNotFlush(j, f)

Advances(f) == j.err_seq = 0 /\ ~MustNotFlush(j, f)
MovesLast(f) == Advances(f) /\ j.last_seq_ondisk < Buf(j, f).last

\* Mutant: an empty entry keeps its own reference.
RefsBelowKeepEmpty(f) ==
    {q \in Seqs : /\ j.last_seq_ondisk <= q
                  /\ q < Buf(j, f).last
                  /\ ref[q] = "held"}

\* bch2_journal_update_last_seq_ondisk(): the references of retired entries.
RefsBelow(f) ==
    {q \in Seqs : /\ j.last_seq_ondisk <= q
                  /\ q < Buf(j, f).last + (IF Buf(j, f).empty THEN 1 ELSE 0)
                  /\ ref[q] = "held"}

\* They are put outside j->lock, before anything is made visible.
DoneDropRefs(s) ==
    LET f == Front(j) IN
    /\ jlock = s
    /\ Completable(s) /\ MovesLast(f) /\ RefsBelow(f) # {}
    /\ ref' = [q \in Seqs |-> IF q \in RefsBelow(f) THEN "putting" ELSE ref[q]]
    /\ j' = [j EXCEPT !.io[s] = "refs"]
    /\ jlock' = 0
    /\ UNCHANGED <<use, jset, pre, cleanSeq, itemVars, taskVars, toldVars>>

\* replicas_refs_put(): with the last reference the superblock becomes clean.
DonePutRefs(s) ==
    /\ j.io[s] = "refs"
    /\ ref' = [q \in Seqs |-> IF ref[q] = "putting" THEN "none" ELSE ref[q]]
    /\ cleanSeq' = IF \A q \in Seqs : ref[q] # "held" THEN Prepped ELSE cleanSeq
    /\ j' = [j EXCEPT !.io[s] = "relock"]
    /\ UNCHANGED <<use, jlock, jset, pre, itemVars, taskVars, toldVars>>

DoneRelock(s) ==
    /\ j.io[s] = "relock"
    /\ Unlocked
    /\ j' = [j EXCEPT !.io[s] = "loop"]
    /\ jlock' = s
    /\ UNCHANGED <<use, diskVars, itemVars, taskVars, toldVars>>

\* One round of the loop: the oldest entry leaves the FIFO.
DoneComplete(s) ==
    LET f == Front(j)
        b == Buf(j, f)
    IN
    /\ jlock = s
    /\ Completable(s)
    /\ MovesLast(f) => RefsBelow(f) = {}
    /\ j' = [j EXCEPT
               !.last_seq_ondisk = IF MovesLast(f) THEN b.last ELSE @,
               !.flushed_seq_ondisk = IF Advances(f) THEN f ELSE @,
               !.last_empty_seq = IF b.empty THEN f ELSE @,
               !.seq_ondisk = f,
               !.wait[Slot(f)] = NotInFlight,
               !.completed[s] = TRUE,
               !.bug = @ \/ (Advances(f) /\ b.empty /\ b.last # f)
                         \/ (MovesLast(f) /\ b.last > j.last_seq)]
    /\ UNCHANGED <<use, jlock, diskVars, itemVars, taskVars, toldVars>>

\* The entry is marked done if it is still in flight, only now.
MarkDone(k, s) == IF s < Front(k) THEN k ELSE [k EXCEPT !.buf[Slot(s)].done = TRUE]

\* The pins of retired entries leave the FIFO; none may be held.
RetirePins(k) ==
    LET front == IF k.last_seq_ondisk < PinBack(k) THEN k.last_seq_ondisk ELSE PinBack(k)
    IN  [k EXCEPT !.pin_front = front,
                  !.bug = @ \/ \E q \in k.pin_front .. front - 1 : k.pin[q] # 0]

\* Mutant: the open entry is not closed when the pipeline has drained.
DoneFinishNoCycle(s, e) ==
    LET k == RetirePins(MarkDone([j EXCEPT !.io[s] = "end"], s)) IN
    /\ jlock = s
    /\ ~Completable(s)
    /\ Possible(e)
    /\ j' = [DoWrites(IF k.completed[s] THEN UpdateLastSeq(k) ELSE k, e)
               EXCEPT !.completed[s] = FALSE]
    /\ jlock' = 0
    /\ UNCHANGED <<use, diskVars, itemVars, taskVars, toldVars>>

DoneFinish(s, e) ==
    LET k == RetirePins(MarkDone([j EXCEPT !.io[s] = "end"], s)) IN
    /\ jlock = s
    /\ ~Completable(s)
    /\ Possible(e)
    /\ LET c == Cycle(IF k.completed[s] THEN UpdateLastSeq(k) ELSE k, {}, e)
       IN  j' = [IF GoesOn(j, c) THEN c ELSE DoWrites(c, e) EXCEPT !.completed[s] = FALSE]
    /\ HoldIfGoesOn(Finisher)
    /\ UNCHANGED <<use, diskVars, itemVars, taskVars, toldVars>>
---------------------------------------------------------------------------
(* bch2_journal_halt(): the error state first, err_seq after it. *)

HaltClose(e) ==
    /\ \/ "halt" \in Events
       \/ \E s \in Seqs : j.io[s] \in {"failed", "ioerr"}
    /\ Unlocked /\ ~Error(j)
    /\ Possible(e)
    /\ j' = CloseError(j, e)
    /\ jlock' = Halter
    /\ UNCHANGED <<use, diskVars, itemVars, taskVars, toldVars>>

HaltFinish ==
    /\ jlock = Halter
    /\ j' = [j EXCEPT !.err_seq = IF @ = 0 THEN j.seq ELSE @,
                      !.flush_wait = {}]
    /\ jlock' = 0
    /\ UNCHANGED <<use, diskVars, itemVars, taskVars, toldVars>>
---------------------------------------------------------------------------
(* bch2_journal_flush_seq(): wait until entry x is on disk. *)

FlushSeqAsync(t, x) ==
    /\ target' = [target EXCEPT ![t] = x]
    /\ IF x <= j.flushed_seq_ondisk \/ j.err_seq # 0
       THEN /\ Goto(t, "wait")
            /\ ret' = [ret EXCEPT ![t] = x <= j.flushed_seq_ondisk]
            /\ UNCHANGED pos
       ELSE /\ Goto(t, "walk")
            /\ pos' = [pos EXCEPT ![t] = Max({x, Front(j)})]
            /\ UNCHANGED ret
    /\ UNCHANGED <<use, jlock, diskVars, itemVars, rs, item, loc, toldVars>>

FlushCall(t, x) ==
    /\ pc[t] = "idle"
    /\ "flush" \in Calls[t]
    /\ x \in 1 .. j.seq
    /\ FlushSeqAsync(t, x)
    /\ UNCHANGED <<use, j>>

\* bch2_journal_write_work(), the auto-commit timer: it flushes the newest entry
\* and does not wait for it, so it may run again before that is done.
AutoCommit(t) ==
    /\ pc[t] = "idle"
    /\ "autocommit" \in Calls[t]
    /\ j.armed
    /\ j' = [j EXCEPT !.armed = FALSE]
    /\ FlushSeqAsync(t, j.seq)

\* bch2_journal_meta(): flush the entry the task has a reservation on.
MetaCall(t) ==
    /\ pc[t] = "idle"
    /\ "meta" \in Calls[t]
    /\ j.off = "open"
    /\ j' = [j EXCEPT !.cnt[Ring(j.seq)] = @ + 1]
    /\ rs' = [rs EXCEPT ![t] = j.seq]
    /\ pos' = [pos EXCEPT ![t] = j.seq]
    /\ target' = [target EXCEPT ![t] = j.seq]
    /\ Goto(t, "metawalk")
    /\ UNCHANGED <<use, jlock, diskVars, itemVars, item, loc, ret, toldVars>>

\* __bch2_journal_flush_seq_async(): attach to the first live entry.
Walk(t) ==
    LET w == Wait(j, pos[t])
        meta == pc[t] = "metawalk"
    IN
    /\ pc[t] \in {"walk", "metawalk"}
    /\ CASE w.mark \in {"noflush", "flushNoWait"} ->
              /\ pos' = [pos EXCEPT ![t] = @ + 1]
              /\ UNCHANGED <<j, pc, loc>>
         [] w.mark = "notInFlight" ->
              /\ j' = [j EXCEPT !.flush_wait = @ \cup {t}]
              /\ loc' = [loc EXCEPT ![t] = BufNr]
              /\ Goto(t, IF meta THEN "metakick" ELSE "kick")
              /\ UNCHANGED pos
         [] OTHER ->
              /\ j' = [j EXCEPT !.wait[Slot(pos[t])].who = @ \cup {t}]
              /\ loc' = [loc EXCEPT ![t] = Slot(pos[t])]
              /\ Goto(t, CASE w.who = {} -> (IF meta THEN "metakick" ELSE "kick")
                           [] w.who # {} -> (IF meta THEN "metaput" ELSE "errcheck"))
              /\ UNCHANGED pos
    /\ UNCHANGED <<use, jlock, diskVars, itemVars, rs, item, target, ret, toldVars>>

\* Close the entry right away if nothing older is in flight.
Kick(t, e) ==
    LET now == IF IsOpen(j) THEN Used(j) = 1 ELSE j.flush_wait # {} IN
    /\ pc[t] \in {"kick", "metakick"}
    /\ Possible(e)
    /\ IF now
       THEN Unlocked /\ j' = Cycle(j, {}, e) /\ HoldIfGoesOn(Cycler)
       ELSE UNCHANGED <<j, jlock>>
    /\ LET l == IF pc[t] = "kick" THEN "kicking" ELSE "metakicking"
       IN  Goto(t, IF GoesOn(j, j') THEN l ELSE AfterCycle[l])
    /\ UNCHANGED <<use, diskVars, itemVars, rs, item, target, pos, loc, ret, toldVars>>

\* After attaching, a journal error wakes the whole list: journal_flush_seq_err_wake().
ErrCheck(t) ==
    /\ pc[t] = "errcheck"
    /\ ret' = [ret EXCEPT ![t] = ~Error(j)]
    /\ j' = IF ~Error(j) THEN j
            ELSE IF loc[t] = BufNr THEN [j EXCEPT !.flush_wait = {}]
            ELSE [j EXCEPT !.wait[loc[t]] = Waiting({})]
    /\ Goto(t, "wait")
    /\ UNCHANGED <<use, jlock, diskVars, itemVars, rs, item, target, pos, loc, toldVars>>

OnList(t) == t \in j.flush_wait \/ \E b \in 0 .. BufNr - 1 : t \in j.wait[b].who

\* closure_sync(), then the return value from err_seq and flushed_seq_ondisk.
FlushReturn(t) ==
    LET ok == j.err_seq = 0 \/ target[t] <= j.flushed_seq_ondisk IN
    /\ pc[t] = "wait"
    /\ ~OnList(t) /\ "autocommit" \notin Calls[t]
    /\ acked' = IF ok THEN Max({acked, target[t]}) ELSE acked
    /\ vouched' = IF ok /\ ret[t] THEN Max({vouched, target[t]}) ELSE vouched
    /\ Goto(t, "idle")
    /\ UNCHANGED <<use, j, jlock, diskVars, itemVars, rs, item, target, pos, loc, ret>>

AutoCommitReturn(t) ==
    /\ pc[t] = "wait"
    /\ "autocommit" \in Calls[t]
    /\ Goto(t, "idle")
    /\ UNCHANGED <<use, j, jlock, diskVars, itemVars, rs, item, target, pos, loc, ret, toldVars>>

\* __bch2_journal_meta() reports bch2_journal_error().
MetaReturn(t) ==
    /\ pc[t] = "metawait"
    /\ ~OnList(t)
    /\ acked' = IF ~Error(j) THEN Max({acked, target[t]}) ELSE acked
    /\ vouched' = IF ~Error(j) THEN Max({vouched, target[t]}) ELSE vouched
    /\ Goto(t, "idle")
    /\ UNCHANGED <<use, j, jlock, diskVars, itemVars, rs, item, target, pos, loc, ret>>
---------------------------------------------------------------------------
(* bch2_journal_noflush_seq(): the trigger of a commit that empties a       *)
(* bucket asks that the entries since it was used, x to rs[t] - 1, not be   *)
(* flushes, so that the bucket can be reused without waiting for one.       *)

NoflushCall(t, x) ==
    /\ pc[t] = "res"
    /\ "noflush" \in Calls[t]
    /\ x < rs[t]
    /\ j.flushed_seq_ondisk < x
    /\ target' = [target EXCEPT ![t] = x]
    /\ pos' = [pos EXCEPT ![t] = x]
    /\ Goto(t, "noflush")
    /\ UNCHANGED <<use, j, jlock, diskVars, itemVars, rs, item, loc, ret, toldVars>>

NoflushStep(t) ==
    LET ok == TryNoflush(Wait(j, pos[t])) IN
    /\ pc[t] = "noflush"
    /\ pos' = [pos EXCEPT ![t] = @ + 1]
    /\ j' = IF ok THEN [j EXCEPT !.wait[Slot(pos[t])] = Noflush] ELSE j
    /\ IF ok /\ pos[t] + 1 < rs[t] THEN UNCHANGED pc ELSE Goto(t, "res2")
    /\ UNCHANGED <<use, jlock, diskVars, itemVars, rs, item, target, loc, ret, toldVars>>
---------------------------------------------------------------------------
(* Quiescing and blocking. *)

\* journal_quiesced(): close the open entry so that everything gets written.
Quiesce(e) ==
    /\ "quiesce" \in Events
    /\ Unlocked
    /\ j.seq # j.seq_ondisk
    /\ Possible(e)
    /\ j' = Cycle(j, {"must_close"}, e)
    /\ j' # j
    /\ HoldIfGoesOn(Cycler)
    /\ UNCHANGED <<use, diskVars, itemVars, taskVars, toldVars>>

\* bch2_journal_block(): no new reservations, then wait until all is written.
Block ==
    /\ "block" \in Events
    /\ j.blocked = "no"
    /\ Unlocked
    /\ j' = [j EXCEPT !.blocked = "waiting",
                      !.off = IF @ = "open" THEN "blocked" ELSE @]
    /\ UNCHANGED <<use, jlock, diskVars, itemVars, taskVars, toldVars>>

BlockQuiesce(e) ==
    /\ j.blocked = "waiting"
    /\ Unlocked
    /\ Possible(e)
    /\ j' = IF j.seq = j.seq_ondisk THEN [j EXCEPT !.blocked = "quiet"]
            ELSE Cycle(j, {"must_close"}, e)
    /\ j' # j
    /\ UNCHANGED <<use, jlock, diskVars, itemVars, taskVars, toldVars>>

Unblock ==
    /\ j.blocked = "quiet"
    /\ Unlocked
    /\ j' = [j EXCEPT !.blocked = "no",
                      !.off = IF @ = "blocked" THEN "open" ELSE @]
    /\ UNCHANGED <<use, jlock, diskVars, itemVars, taskVars, toldVars>>
---------------------------------------------------------------------------
TaskStep(t) ==
    \/ Update(t) \/ Move(t) \/ MoveDrop(t) \/ NoflushStep(t)
    \/ ResPut(t) \/ \E e \in Env : ResPutFinal(t, e)
    \/ Walk(t) \/ \E e \in Env : Kick(t, e)
    \/ ErrCheck(t) \/ FlushReturn(t) \/ AutoCommitReturn(t) \/ MetaReturn(t)

WriteStep(s) ==
    \/ WritePrep(s) \/ \E e \in Env : WriteAlloc(s, e)
    \/ WriteSubmit(s) \/ WritePreflushed(s) \/ WriteEndio(s)
    \/ DoneStart(s) \/ DoneDropRefs(s)
    \/ DonePutRefs(s) \/ DoneRelock(s) \/ DoneComplete(s)
    \/ \E e \in Env : DoneFinish(s, e)

Next ==
    \/ \E t \in Tasks :
          \/ \E i \in Items : ResGet(t, i) \/ ResGetMove(t, i)
          \/ \E e \in Env : ResGetSlow(t, e)
          \/ \E x \in Seqs : FlushCall(t, x) \/ NoflushCall(t, x)
          \/ MetaCall(t) \/ AutoCommit(t)
          \/ TaskStep(t)
    \/ \E i \in Keys : KeyFlush(i) \/ KeyPinUpdate(i)
    \/ \E n \in Nodes : NodeWrite(n) \/ NodeWriteCommit(n) \/ NodeWriteDone(n)
    \/ \E s \in Seqs : WriteStep(s) \/ WriteFail(s) \/ WriteEndioErr(s)
    \/ \E e \in Env : HaltClose(e) \/ Quiesce(e) \/ BlockQuiesce(e)
    \/ \E e \in Env : CycleRest(e)
    \/ HaltFinish \/ Block \/ Unblock

Spec == Init /\ [][Next]_vars

\* The steps of work items and completions, and when one can be taken.
WorkStep ==
    \/ \E s \in Seqs : WriteStep(s) \/ WriteFail(s)
    \/ (\E s \in Seqs : j.io[s] \in {"failed", "ioerr"}) /\ \E e \in Env : HaltClose(e)
    \/ HaltFinish \/ \E e \in Env : CycleRest(e)

WorkPending ==
    \/ jlock # 0
    \/ \E s \in Seqs : j.io[s] \notin {"no", "end"}

TaskPending(t) ==
    \/ pc[t] \in {"res", "res2", "noflush", "walk", "metawalk", "errcheck"} \cup DOMAIN AfterPut
    \/ pc[t] \in {"move", "movedrop", "kick", "metakick"} /\ Unlocked
    \/ \E p \in DOMAIN AfterPut : pc[t] = AfterPut[p][1] /\ Unlocked
    \/ pc[t] \in {"wait", "metawait"} /\ (~OnList(t) \/ "autocommit" \in Calls[t])

\* Work runs as long as there is some, a task takes its next step, the timer
\* expires; new reservations, calls and btree writes need not happen.  (Weak
\* fairness with the enabling conditions written out; a task that waits for
\* j->lock is pending only while the lock is free.)
FairSpec ==
    /\ Spec
    /\ []<>(~WorkPending) \/ []<><<WorkStep>>_vars
    /\ \A t \in Tasks :
          /\ []<>(~TaskPending(t)) \/ []<><<TaskStep(t)>>_vars
          /\ WF_vars(AutoCommit(t))
---------------------------------------------------------------------------
(* What a crash leaves behind. *)

\* Recovery replays up to n, the newest flush it finds: one that is durable, or
\* one submitted since whose write happened to reach the disk.
RecoversTo(n) ==
    /\ jset[n].flush
    /\ jset[n].st \in {"submitted", "durable"}
    /\ \A m \in n + 1 .. MaxSeq : jset[m].flush => jset[m].st # "durable"

NoWriteError == \A s \in Seqs : jset[s].st # "failed"

\* The updates recovery to n must bring back: of a cached key, the newest one.
Needed(n) ==
    {p \in Items \X (1 .. n) :
        /\ u[p[1]][p[2]] # "none"
        /\ p[1] \in Keys => \A q \in p[2] + 1 .. n : u[p[1]][q] = "none"}

InBtree(p, n) == u[p[1]][p[2]] = "durable" /\ cov[p[1]][p[2]] \in 1 .. n

(* Types. *)
TypeOK ==
    /\ j.seq \in 0 .. MaxSeq /\ j.seq_ondisk \in 0 .. j.seq
    /\ j.off \in {"open", "blocked", "closed", "error"}
    /\ j.cnt \in [0 .. OpenNr - 1 -> 0 .. Cardinality(Tasks) + 1]
    /\ j.pin \in [Seqs -> 0 .. Cardinality(Items) + Cardinality(Nodes) + 1]
    /\ j.last_seq \in 1 .. j.seq + 1
    /\ j.flushes \in 0 .. 2
    /\ j.flush_wait \subseteq Tasks
    /\ \A b \in 0 .. BufNr - 1 :
          /\ j.wait[b].who \subseteq Tasks
          /\ j.wait[b].mark # "none" => j.wait[b].who = {}
    /\ jlock \in 0 .. Finisher
    /\ cov \in [Items -> [Seqs -> 0 .. MaxSeq]]
    /\ pinned \in [Items -> 0 .. MaxSeq] /\ wpin \in [Nodes -> 0 .. MaxSeq]

(* Every variable has its type, and in particular nobody waits on a sentinel; *)
(* no BUG_ON() or WARN_ON() of the modelled functions triggers: an entry's   *)
(* last_seq never passes it, no pin is held on a retired entry, a new entry  *)
(* finds its slot free, and the cycling loop ends with its second opening.   *)
NoBug == TypeOK /\ ~j.bug

(* Every entry that recovery to n replays is on stable storage: a noflush    *)
(* entry is never missing below a flush that may be found.                   *)
JournalIntact ==
    NoWriteError =>
    \A n \in Seqs : RecoversTo(n) =>
        \A q \in jset[n].last .. n - 1 : jset[q].st = "durable"

(* Nothing committed is lost: an update of an entry up to n is replayed from *)
(* the journal, or the btree on disk has it; and a node pointer that         *)
(* recovery to n sees never covers a node write that may be missing.         *)
Recoverable ==
    NoWriteError =>
    \A n \in Seqs : RecoversTo(n) =>
        /\ \A p \in Needed(n) : p[2] >= jset[n].last \/ InBtree(p, n)
        /\ \A i \in Items, q \in Seqs :
              cov[i][q] \in 1 .. n => q <= n /\ u[i][q] = "durable"

\* The clean to dirty transition entry was picked as a flush when a reservation
\* taken while it was open came to its end; the entry opened before that is then
\* no flush, does not wait for it, and is marked before it is on disk.
Overtaken ==
    \E f \in Front(j) .. j.seq :
        /\ Wait(j, f).mark = "flushNoWait" /\ Buf(j, f).flush /\ jset[f].st # "durable"
        /\ \A s \in Seqs : ref[s] # "none" => s > f /\ ~Buf(j, s).flush

(* Once the superblock says that there is a journal to read, the journal has *)
(* a flush entry to recover from, which is why journal_write_done() and not  *)
(* bch2_journal_write() marks the transition entry; except while a noflush   *)
(* entry overtakes that entry, which bch2_journal_do_writes_locked() allows. *)
DirtyHasFlush ==
    (NoWriteError /\ ~SbClean /\ ~Overtaken) =>
        \E n \in Seqs : jset[n].flush /\ jset[n].st = "durable"

(* What a flush vouched for survives a crash: from the journal if the        *)
(* superblock may say there is one, from the btree if it may say clean.      *)
AckDurable ==
    vouched > 0 =>
    /\ ~SbClean => \E n \in vouched .. MaxSeq : jset[n].flush /\ jset[n].st = "durable"
    /\ SbClean => \A p \in Needed(vouched) : InBtree(p, cleanSeq)

(* The same of what bch2_journal_flush_seq() itself reported as flushed.     *)
FlushSeqDurable ==
    acked > 0 =>
    /\ ~SbClean => \E n \in acked .. MaxSeq : jset[n].flush /\ jset[n].st = "durable"
    /\ SbClean => \A p \in Needed(acked) : InBtree(p, cleanSeq)

(* The replicas references of an entry are put before last_seq_ondisk passes *)
(* it, and when everything is flushed and empty, the superblock is clean.    *)
RefsPutFirst ==
    /\ \A q \in Seqs : q < j.last_seq_ondisk => ref[q] = "none"
    /\ (j.seq > 0 /\ j.seq = j.flushed_seq_ondisk /\ j.last_empty_seq = j.seq) => SbClean

(* While the journal is blocked and quiet nothing is in flight.              *)
BlockedQuiet ==
    j.blocked = "quiet" => j.seq = j.seq_ondisk /\ \A r \in 0 .. OpenNr - 1 : j.cnt[r] = 0

(* Every flush request is answered: no task is in a call for ever, except in *)
(* a run that is out of sequence numbers before an entry for its request     *)
(* could be opened.                                                          *)
FlushReturns ==
    \A t \in Tasks :
        []<>(pc[t] = "idle" \/ (j.seq = use.limit /\ ~Error(j) /\ t \in j.flush_wait))
=============================================================================
