----------------------------- MODULE WriteBuffer -----------------------------
(***************************************************************************)
(* The btree write buffer, fs/btree/write_buffer.c, for one btree: keys    *)
(* that transactions put in the journal are taken out of the journal       *)
(* entries in memory into the buffers inc and flushing, sorted, coalesced  *)
(* and applied to the btree in bulk.  The journal pins of the two buffers  *)
(* must keep every journal entry whose keys are not in the btree yet.      *)
(*                                                                         *)
(* Keys are taken out by the journal write path, and by callers of         *)
(* bch2_btree_write_buffer_flush_sync(), who even look into the open entry *)
(* and then wait for the pins to go; both hold j->buf_lock.  The buffers   *)
(* are flushed by the work item of the btree and by                        *)
(* bch2_btree_write_buffer_tryflush().  wb_pin_le() reads the two pins     *)
(* without any lock.                                                       *)
(*                                                                         *)
(* An update is a number: updates are numbered in journal order.  A plain  *)
(* key replaces the key at its position; the key of an accounting btree is *)
(* a delta, and what the model keeps of it is the set of updates it        *)
(* stands for.                                                             *)
(***************************************************************************)
EXTENDS Naturals, Sequences, FiniteSets, FiniteSetsExt

CONSTANTS
    Pos,         \* positions in the btree
    MaxSeq,      \* bound: the last journal entry
    MaxKeys,     \* bound: updates
    Uses         \* the ways the buffer may be used, one of which a run takes

Seqs == 1 .. MaxSeq

ASSUME WriteBufferAssumption ==
    /\ MaxSeq \in Nat /\ MaxKeys \in Nat
    /\ Uses \subseteq [accounting : BOOLEAN,      \* is this the accounting btree?
                       replayed   : BOOLEAN,      \* BCH_FS_accounting_replay_done at first
                       pos        : SUBSET Pos,   \* where updates go
                       updates    : 0 .. MaxKeys, \* bound: updates
                       seqs       : 0 .. MaxSeq,  \* bound: journal entries
                       cap        : Nat \ {0},    \* keys flushing has room for if it cannot grow
                       events     : SUBSET {"try", "sync", "resync", "reclaim", "deadlock",
                                            "noop", "nomem", "ioerr", "node"}]

VARIABLES
    use,         \* what may happen
    upd,         \* the updates: [pos, seq, st]; reserved, filled, or taken
    cur,         \* journal_cur_seq()
    st,          \* the journal entries: none, open, closed, prep, prepped, written
    need,        \* buf->need_flush_to_write_buffer
    last,        \* jset->last_seq of the entries
    ondisk,      \* j->seq_ondisk
    last_seq,    \* j->last_seq
    blocked,     \* is the open entry blocked?
    buf_lock,    \* is j->buf_lock held?
    inc, fl,     \* wb->inc and wb->flushing: [keys, pin, lock]
    acc,         \* wb->accounting
    it,          \* journal_keys_to_wb: the intake in progress
    fk,          \* bch2_btree_write_buffer_flush_locked() in progress
    queued,      \* is flush_work queued?
    replayed,    \* BCH_FS_accounting_replay_done
    btree,       \* the updates the btree has, per position
    nodepin,     \* the journal pin of the btree node
    durable,     \* the updates written with the btree node, per position
    sf,          \* bch2_btree_write_buffer_flush_sync() in progress
    lost         \* were keys thrown away, and is the journal halted?

journalVars == <<upd, cur, st, need, last, ondisk, blocked>>
bufVars     == <<inc, fl, acc>>
treeVars    == <<btree, nodepin, durable>>
restVars    == <<use, replayed, lost>>
vars == <<restVars, journalVars, last_seq, buf_lock, bufVars, it, fk, queued, treeVars, sf>>

Idle == "none"
Event(e) == e \in use.events
Ids == 1 .. Len(upd)
Reserved(s) == {n \in Ids : upd[n].seq = s /\ upd[n].st = "reserved"}

PinAdd(pin, s)    == IF pin = 0 \/ pin > s THEN s ELSE pin
PinUpdate(pin, s) == IF pin = 0 \/ pin < s THEN s ELSE pin

(* journal_last_seq: what is neither on disk nor pinned keeps its entry. *)
Retire(disk, pins) ==
    last_seq' = Max({last_seq, Min({disk + 1} \union (pins \ {0}))})

Init ==
    /\ use \in Uses
    /\ upd = <<>> /\ cur = 0
    /\ st = [s \in Seqs |-> "none"]
    /\ need = [s \in Seqs |-> FALSE]
    /\ last = [s \in Seqs |-> 0]
    /\ ondisk = 0 /\ last_seq = 1 /\ blocked = FALSE
    /\ buf_lock = FALSE
    /\ inc = [keys |-> <<>>, pin |-> 0, lock |-> Idle]
    /\ fl  = [keys |-> <<>>, pin |-> 0, lock |-> Idle]
    /\ acc = [p \in Pos |-> {}]
    /\ it = [who |-> Idle, pc |-> Idle, dst |-> "inc", seq |-> 0,
             blocked |-> FALSE, err |-> FALSE, bare |-> FALSE]
    /\ fk = [who |-> Idle, pc |-> Idle, todo |-> {}, slow |-> FALSE,
             cni |-> FALSE, replayed |-> FALSE]
    /\ queued = FALSE /\ replayed = use.replayed
    /\ btree = [p \in Pos |-> {}] /\ nodepin = 0 /\ durable = [p \in Pos |-> {}]
    /\ sf = [pc |-> Idle, max |-> 0, inc |-> 0, woken |-> FALSE,
             err |-> FALSE, want |-> {}]
    /\ lost = "no"
-----------------------------------------------------------------------------
(* The journal, as far as the write buffer deals with it. *)

(* A transaction commit gets its place in the open entry... *)
Reserve(p) ==
    /\ cur > 0 /\ st[cur] = "open" /\ ~blocked
    /\ p \in use.pos /\ Len(upd) < use.updates
    /\ upd' = Append(upd, [pos |-> p, seq |-> cur, st |-> "reserved"])
    /\ UNCHANGED <<restVars, cur, st, need, last, ondisk, blocked, last_seq,
                   buf_lock, bufVars, it, fk, queued, treeVars, sf>>

(* ...writes its key there and puts the reservation. *)
Fill(n) ==
    /\ n \in Ids /\ upd[n].st = "reserved"
    /\ upd' = [upd EXCEPT ![n].st = "filled"]
    /\ UNCHANGED <<restVars, cur, st, need, last, ondisk, blocked, last_seq,
                   buf_lock, bufVars, it, fk, queued, treeVars, sf>>

OpenEntry ==
    /\ cur < use.seqs /\ ~blocked /\ lost # "halted"
    /\ cur > 0 => st[cur] # "open"
    /\ cur' = cur + 1
    /\ st' = [st EXCEPT ![cur + 1] = "open"]
    /\ need' = [need EXCEPT ![cur + 1] = TRUE]
    /\ UNCHANGED <<restVars, upd, last, ondisk, blocked, last_seq,
                   buf_lock, bufVars, it, fk, queued, treeVars, sf>>

CloseEntry ==
    /\ cur > 0 /\ st[cur] = "open"
    /\ st' = [st EXCEPT ![cur] = "closed"]
    /\ last' = [last EXCEPT ![cur] = last_seq]
    /\ UNCHANGED <<restVars, upd, cur, need, ondisk, blocked, last_seq,
                   buf_lock, bufVars, it, fk, queued, treeVars, sf>>

(* bch2_journal_write(): buf_lock, then bch2_journal_write_prep(). *)
WriteStart(s) ==
    /\ st[s] = "closed" /\ Reserved(s) = {}
    /\ \A q \in 1 .. s - 1 : st[q] \in {"prepped", "written"}
    /\ ~buf_lock /\ lost # "halted"
    /\ IF need[s]
       THEN /\ buf_lock' = TRUE
            /\ st' = [st EXCEPT ![s] = "prep"]
            /\ it' = [it EXCEPT !.who = "write", !.pc = "lock", !.seq = s]
       ELSE /\ st' = [st EXCEPT ![s] = "prepped"]
            /\ UNCHANGED <<buf_lock, it>>
    /\ UNCHANGED <<restVars, upd, cur, need, last, ondisk, blocked, last_seq,
                   bufVars, fk, queued, treeVars, sf>>

(* The entry is on disk; journal_write_done() takes buf_lock as well. *)
WriteDone ==
    /\ ondisk < cur /\ st[ondisk + 1] = "prepped"
    /\ ~buf_lock /\ lost # "halted"
    /\ ondisk' = ondisk + 1
    /\ st' = [st EXCEPT ![ondisk + 1] = "written"]
    /\ Retire(ondisk + 1, {inc.pin, fl.pin, nodepin})
    /\ UNCHANGED <<restVars, upd, cur, need, last, blocked, buf_lock, bufVars,
                   it, fk, queued, treeVars, sf>>

(* The btree node is written, and drops its pin; Journal has the steps. *)
NodeWrite ==
    /\ Event("node") /\ nodepin # 0
    /\ durable' = [p \in Pos |-> durable[p] \union btree[p]]
    /\ nodepin' = 0
    /\ Retire(ondisk, {inc.pin, fl.pin})
    /\ UNCHANGED <<restVars, journalVars, buf_lock, bufVars, it, fk, queued, btree, sf>>
-----------------------------------------------------------------------------
(* closure_wake_up(&c->btree.write_buffer_flush_wait) *)
WakeUpNobody == sf

WakeUp == IF sf.pc \in {"check", "check_fl", "sleep"} THEN [sf EXCEPT !.woken = TRUE] ELSE sf

(* move_keys_from_inc_to_flushing(): flushing gets its pin first, and inc  *)
(* loses or advances its own once the keys have moved: all of them, or as  *)
(* many as fit if the buffers cannot be grown.                             *)
FlushingUnpinned == fl

FlushingPinned == [fl EXCEPT !.pin = PinAdd(@, inc.keys[1].seq)]

Movable ==
    LET all  == Len(inc.keys)
        room == IF use.cap > Len(fl.keys) THEN use.cap - Len(fl.keys) ELSE 0
    IN  {all} \union (IF room < all THEN {room} ELSE {})

FlushingWith(n) == [fl EXCEPT !.keys = @ \o SubSeq(inc.keys, 1, n)]

IncWithout(n) ==
    [inc EXCEPT !.keys = SubSeq(@, n + 1, Len(@)),
                !.pin  = IF n = Len(inc.keys) THEN 0
                         ELSE PinUpdate(@, inc.keys[n + 1].seq)]
-----------------------------------------------------------------------------
(* Taking the keys of journal entries: the caller holds buf_lock. *)
intakeFrame == <<use, replayed, st, last, cur, ondisk, treeVars, fk>>

(* With both locks held: bch2_journal_write_prep() clears the flag of its  *)
(* entry, fetch_wb_keys_from_journal() looks for entries.                  *)
Locked(dst) ==
    /\ it' = [it EXCEPT !.dst = dst, !.pc = IF it.who = "write" THEN "keys" ELSE "next"]
    /\ need' = IF it.who = "write" THEN [need EXCEPT ![it.seq] = FALSE] ELSE need

(* bch2_journal_keys_to_write_buffer_lock(): trylock flushing... *)
TryFlushing ==
    /\ it.pc = "lock"
    /\ it' = [it EXCEPT !.pc = "inc", !.dst = IF fl.lock = Idle THEN "flushing" ELSE "inc"]
    /\ fl' = IF fl.lock = Idle THEN [fl EXCEPT !.lock = "intake"] ELSE fl
    /\ UNCHANGED <<intakeFrame, lost, upd, need, blocked, last_seq, buf_lock,
                   inc, acc, queued, sf>>

(* ...lock inc, and move its keys over if flushing is ours. *)
LockInc ==
    /\ it.pc = "inc" /\ inc.lock = Idle
    /\ inc' = [inc EXCEPT !.lock = "intake"]
    /\ IF it.dst = "flushing" /\ inc.keys # <<>>
       THEN /\ fl' = FlushingPinned
            /\ it' = [it EXCEPT !.pc = "moving"]
            /\ UNCHANGED need
       ELSE Locked(it.dst) /\ UNCHANGED fl
    /\ UNCHANGED <<intakeFrame, lost, upd, blocked, last_seq, buf_lock, acc,
                   queued, sf>>

IntakeMoveAhead ==
    /\ it.pc = "moving"
    /\ \E n \in Movable :
         inc' = IncWithout(n) /\ fl' = FlushingWith(n) /\ Locked("flushing")
    /\ Retire(ondisk, {inc'.pin, fl.pin, nodepin})
    /\ UNCHANGED <<intakeFrame, lost, upd, blocked, buf_lock, acc, queued, sf>>

(* New keys go to flushing only if no older ones are left in inc. *)
IntakeMove ==
    /\ it.pc = "moving"
    /\ \E n \in Movable :
         /\ inc' = IncWithout(n)
         /\ IF n = Len(inc.keys)
            THEN fl' = FlushingWith(n) /\ Locked("flushing")
            ELSE fl' = [FlushingWith(n) EXCEPT !.lock = Idle] /\ Locked("inc")
    /\ Retire(ondisk, {inc'.pin, fl.pin, nodepin})
    /\ UNCHANGED <<intakeFrame, lost, upd, blocked, buf_lock, acc, queued, sf>>

(* bch2_next_write_buffer_flush_journal_buf(): the oldest entry that still *)
(* has keys for us.  The open entry is blocked, and reservations that are  *)
(* held are waited for.                                                    *)
Wanted == {s \in ondisk + 1 .. Min({sf.max, cur}) : need[s]}

FetchBlock ==
    /\ it.pc = "next" /\ Wanted # {} /\ ~it.blocked
    /\ Min(Wanted) = cur /\ st[cur] = "open"
    /\ blocked' = TRUE
    /\ it' = [it EXCEPT !.blocked = TRUE]
    /\ UNCHANGED <<intakeFrame, lost, upd, need, last_seq, buf_lock, bufVars,
                   queued, sf>>

FetchNext ==
    /\ it.pc = "next" /\ Wanted # {}
    /\ LET s == Min(Wanted) IN
       /\ st[s] = "open" => it.blocked
       /\ Reserved(s) = {}
       /\ it' = [it EXCEPT !.seq = s, !.pc = "keys"]
    /\ UNCHANGED <<intakeFrame, lost, journalVars, last_seq, buf_lock, bufVars,
                   queued, sf>>

FetchNone ==
    /\ it.pc = "next" /\ Wanted = {}
    /\ it' = [it EXCEPT !.pc = "unlock", !.blocked = FALSE]
    /\ blocked' = (blocked /\ ~it.blocked)
    /\ UNCHANGED <<intakeFrame, lost, upd, need, last_seq, buf_lock, bufVars,
                   queued, sf>>

(* __bch2_journal_key_to_wb(): a key goes to the end of the buffer chosen. *)
Stage(k) ==
    /\ it.dst = "inc"      => /\ inc' = [inc EXCEPT !.keys = Append(@, k)]
                              /\ it' = [it EXCEPT !.bare = FALSE]
                              /\ UNCHANGED fl
    /\ it.dst = "flushing" => /\ fl' = [fl EXCEPT !.keys = Append(@, k)]
                              /\ UNCHANGED <<inc, it>>

Pending == {n \in Ids : upd[n].seq = it.seq /\ upd[n].st = "filled"}

(* bch2_journal_key_to_wb() for the next key of the entry: deltas are      *)
(* added up per position until the whole entry has been seen.              *)
TakeKey ==
    /\ it.pc = "keys" /\ Pending # {}
    /\ LET n == Min(Pending)
           p == upd[n].pos
       IN  /\ upd' = [upd EXCEPT ![n].st = "taken"]
           /\ IF use.accounting
              THEN acc' = [acc EXCEPT ![p] = @ \union {n}] /\ UNCHANGED <<inc, fl, it>>
              ELSE Stage([pos |-> p, ups |-> {n}, seq |-> it.seq]) /\ UNCHANGED acc
    /\ UNCHANGED <<intakeFrame, lost, need, blocked, last_seq, buf_lock, queued, sf>>

(* __bch2_journal_keys_to_write_buffer_end(): the sums become keys. *)
Inject(p) ==
    /\ it.pc = "keys" /\ Pending = {} /\ acc[p] # {}
    /\ Stage([pos |-> p, ups |-> acc[p], seq |-> it.seq])
    /\ acc' = [acc EXCEPT ![p] = {}]
    /\ UNCHANGED <<intakeFrame, lost, journalVars, last_seq, buf_lock, queued, sf>>

(* bch2_journal_key_to_wb_slowpath(): flushing cannot be grown, so it is   *)
(* pinned and let go, and the rest of the keys goes to inc.                *)
FallBackUnpinned ==
    /\ it.pc = "keys" /\ it.dst = "flushing" /\ Len(fl.keys) >= use.cap
    /\ Pending # {} \/ \E p \in Pos : acc[p] # {}
    /\ fl' = [fl EXCEPT !.lock = Idle]
    /\ it' = [it EXCEPT !.dst = "inc", !.pc = "repin"]
    /\ UNCHANGED <<intakeFrame, lost, journalVars, last_seq, buf_lock, inc, acc, queued, sf>>

FallBack ==
    /\ it.pc = "keys" /\ it.dst = "flushing" /\ Len(fl.keys) >= use.cap
    /\ Pending # {} \/ \E p \in Pos : acc[p] # {}
    /\ fl' = [fl EXCEPT !.pin = PinAdd(@, it.seq), !.lock = Idle]
    /\ it' = [it EXCEPT !.dst = "inc", !.pc = "repin"]
    /\ UNCHANGED <<intakeFrame, lost, journalVars, last_seq, buf_lock, inc, acc,
                   queued, sf>>

Repin ==
    /\ it.pc = "repin"
    /\ inc' = [inc EXCEPT !.pin = PinAdd(@, it.seq)]
    /\ it' = [it EXCEPT !.pc = "keys"]
    /\ UNCHANGED <<intakeFrame, lost, journalVars, last_seq, buf_lock, fl, acc,
                   queued, sf>>

(* inc cannot be grown either: the journal write is a fatal error, a flush *)
(* tries again.  If inc was empty, the pin it has got stays ("bare").      *)
NoMem ==
    /\ Event("nomem") /\ it.pc = "keys" /\ it.dst = "inc" /\ ~it.err
    /\ Pending # {}
    /\ it' = [it EXCEPT !.pc = "end", !.err = TRUE, !.bare = inc.pin # 0 /\ inc.keys = <<>>]
    /\ lost' = IF it.who = "write" THEN "halted" ELSE lost
    /\ UNCHANGED <<intakeFrame, journalVars, last_seq, buf_lock, bufVars,
                   queued, sf>>

(* What was staged is pinned, and the entry has been dealt with unless it  *)
(* was open.                                                               *)
PinsAdded(w) == [w EXCEPT !.pin = IF w.keys = <<>> THEN @ ELSE PinAdd(@, it.seq)]

TakenAll ==
    /\ \/ it.pc = "keys" /\ Pending = {} /\ \A p \in Pos : acc[p] = {}
       \/ it.pc = "end"
    /\ inc' = IF it.dst = "inc" THEN PinsAdded(inc) ELSE inc
    /\ fl'  = IF it.dst = "flushing" THEN PinsAdded(fl) ELSE fl
    /\ IF it.who = "fetch"
       THEN /\ need' = IF it.blocked \/ it.err THEN need
                       ELSE [need EXCEPT ![it.seq] = FALSE]
            /\ blocked' = (blocked /\ ~it.blocked)
       ELSE UNCHANGED <<need, blocked>>
    /\ it' = [it EXCEPT !.blocked = FALSE,
                        !.pc = IF it.who = "write" \/ it.blocked \/ it.err
                               THEN "unlock" ELSE "next"]
    /\ UNCHANGED <<intakeFrame, lost, upd, last_seq, buf_lock, acc, queued, sf>>

(* bch2_journal_keys_to_write_buffer_unlock(): the work item is queued     *)
(* when the buffers fill up, and waiting flushers look again.              *)
Unlock(q) ==
    /\ it.pc = "unlock"
    /\ q => inc.keys # <<>> \/ fl.keys # <<>>
    /\ queued' = (queued \/ q)
    /\ inc' = [inc EXCEPT !.lock = Idle]
    /\ fl' = IF it.dst = "flushing" THEN [fl EXCEPT !.lock = Idle] ELSE fl
    /\ buf_lock' = FALSE
    /\ st' = IF it.who = "write" THEN [st EXCEPT ![it.seq] = "prepped"] ELSE st
    /\ sf' = IF it.who = "fetch"
             THEN [sf EXCEPT !.pc = "check", !.err = it.err]
             ELSE WakeUp
    /\ it' = [it EXCEPT !.who = Idle, !.pc = Idle, !.dst = "inc", !.seq = 0, !.err = FALSE]
    /\ UNCHANGED <<restVars, upd, cur, need, last, ondisk, blocked, last_seq, acc, fk,
                   treeVars>>
-----------------------------------------------------------------------------
(* bch2_btree_write_buffer_flush_locked(), with flushing.lock held. *)
flushFrame == <<use, replayed, journalVars, buf_lock, acc, it>>

Callers == {"worker", "try"}

(* The work item waits for the lock, tryflush does not. *)
FlushLock(w) ==
    /\ fl.lock = Idle
    /\ \/ w = "worker" /\ queued
       \/ w = "try" /\ Event("try") /\ (inc.keys # <<>> \/ fl.keys # <<>>)
    /\ queued' = (queued /\ w # "worker")
    /\ fl' = [fl EXCEPT !.lock = w]
    /\ fk' = [fk EXCEPT !.who = w, !.pc = "move"]
    /\ UNCHANGED <<flushFrame, lost, last_seq, inc, treeVars, sf>>

(* inc.lock is waited for only if there is nothing to flush without it. *)
FlushMoveStart ==
    /\ fk.pc = "move"
    /\ \/ /\ lost = "halted"
          /\ fk' = [fk EXCEPT !.pc = "failed"]
          /\ UNCHANGED <<inc, fl>>
       \/ /\ lost # "halted" /\ inc.lock = Idle
          /\ IF inc.keys = <<>>
             THEN fk' = [fk EXCEPT !.pc = "sort", !.replayed = replayed] /\ UNCHANGED <<inc, fl>>
             ELSE /\ fk' = [fk EXCEPT !.pc = "moving", !.replayed = replayed]
                  /\ inc' = [inc EXCEPT !.lock = "flush"]
                  /\ fl' = FlushingPinned
       \/ /\ lost # "halted" /\ inc.lock # Idle /\ fl.keys # <<>>
          /\ fk' = [fk EXCEPT !.pc = "sort", !.replayed = replayed]
          /\ UNCHANGED <<inc, fl>>
    /\ UNCHANGED <<flushFrame, lost, last_seq, queued, treeVars, sf>>

FlushMove ==
    /\ fk.pc = "moving"
    /\ \E n \in Movable :
         /\ inc' = [IncWithout(n) EXCEPT !.lock = Idle]
         /\ fl' = FlushingWith(n)
    /\ fk' = [fk EXCEPT !.pc = "sort"]
    /\ Retire(ondisk, {inc'.pin, fl.pin, nodepin})
    /\ UNCHANGED <<flushFrame, lost, queued, treeVars, sf>>

(* Of the keys at one position only the newest is left alive, with the sum *)
(* of their deltas, and with the oldest sequence number of them.           *)
Alive(keys) == {i \in DOMAIN keys : keys[i].seq # 0}

Same(keys, i) == {j \in Alive(keys) : keys[j].pos = keys[i].pos}

DedupNewestSeq(keys) ==
    [i \in DOMAIN keys |->
        IF keys[i].seq = 0 \/ i # Max(Same(keys, i))
        THEN [keys[i] EXCEPT !.seq = 0]
        ELSE IF use.accounting
             THEN [keys[i] EXCEPT !.ups = UNION {keys[j].ups : j \in Same(keys, i)}]
             ELSE keys[i]]

DedupKeepsSeq(keys) ==
    [i \in DOMAIN keys |->
        IF use.accounting /\ i = Max(Same(keys, i))
        THEN [keys[i] EXCEPT
                 !.ups = UNION {keys[j].ups : j \in Same(keys, i)},
                 !.seq = Min({keys[j].seq : j \in Same(keys, i)})]
        ELSE keys[i]]

Dedup(keys) ==
    [i \in DOMAIN keys |->
        IF keys[i].seq = 0 \/ i # Max(Same(keys, i))
        THEN [keys[i] EXCEPT !.seq = 0]
        ELSE IF use.accounting
             THEN [keys[i] EXCEPT
                      !.ups = UNION {keys[j].ups : j \in Same(keys, i)},
                      !.seq = Min({keys[j].seq : j \in Same(keys, i)})]
             ELSE keys[i]]

Sort ==
    /\ fk.pc = "sort"
    /\ IF fl.keys = <<>>
       THEN fk' = [fk EXCEPT !.pc = "flushed"] /\ UNCHANGED fl
       ELSE /\ fl' = [fl EXCEPT !.keys = Dedup(@)]
            /\ fk' = [fk EXCEPT !.pc = "fast", !.todo = Alive(Dedup(fl.keys)),
                                !.slow = FALSE, !.cni = FALSE]
    /\ UNCHANGED <<flushFrame, lost, last_seq, inc, queued, treeVars, sf>>

(* The key goes to the btree node, which pins its journal entry. *)
Insert(k) ==
    /\ btree' = [btree EXCEPT ![k.pos] = IF use.accounting THEN @ \union k.ups ELSE k.ups]
    /\ nodepin' = PinAdd(nodepin, k.seq)
    /\ UNCHANGED durable

(* wb_flush_one(): the btree has an equal key already, in the node and so  *)
(* on disk if the node has been written since; nothing is inserted.        *)
Noop(k) ==
    /\ Event("noop") /\ ~use.accounting /\ btree[k.pos] # {}
    /\ btree' = [btree EXCEPT ![k.pos] = k.ups]
    /\ durable' = [durable EXCEPT ![k.pos] =
                       IF btree[k.pos] \subseteq @ THEN @ \union k.ups ELSE @]
    /\ UNCHANGED nodepin

(* A key of the fast path, in any order: the shards run side by side. *)
FastOne(i) ==
    /\ fk.pc = "fast" /\ i \in fk.todo
    /\ ~use.accounting \/ fk.replayed
    /\ Insert(fl.keys[i]) \/ Noop(fl.keys[i])
    /\ fl' = [fl EXCEPT !.keys[i].seq = 0]
    /\ fk' = [fk EXCEPT !.todo = @ \ {i}]
    /\ UNCHANGED <<flushFrame, lost, last_seq, inc, queued, sf>>

(* It would block on the journal, or is a delta before the accounting has  *)
(* been replayed.                                                          *)
FastSkip(i) ==
    /\ fk.pc = "fast" /\ i \in fk.todo
    /\ Event("deadlock") \/ (use.accounting /\ ~fk.replayed)
    /\ fk' = [fk EXCEPT !.todo = @ \ {i}, !.slow = TRUE]
    /\ UNCHANGED <<flushFrame, lost, last_seq, inc, fl, queued, treeVars, sf>>

FastDone ==
    /\ fk.pc = "fast" /\ fk.todo = {}
    /\ fk' = [fk EXCEPT !.pc = IF fk.slow THEN "slow" ELSE "finish",
                        !.todo = Alive(fl.keys)]
    /\ UNCHANGED <<flushFrame, lost, last_seq, inc, fl, queued, treeVars, sf>>

(* The slow path goes in journal order, and the pin follows. *)
Oldest(i) == \A j \in fk.todo : fl.keys[i].seq <= fl.keys[j].seq

SlowSkip(i) ==
    /\ fk.pc = "slow" /\ i \in fk.todo /\ Oldest(i)
    /\ use.accounting /\ ~fk.replayed
    /\ fk' = [fk EXCEPT !.todo = @ \ {i}, !.cni = TRUE]
    /\ UNCHANGED <<flushFrame, lost, last_seq, inc, fl, queued, treeVars, sf>>

SlowOne(i) ==
    /\ fk.pc = "slow" /\ i \in fk.todo /\ Oldest(i)
    /\ ~use.accounting \/ fk.replayed
    /\ Insert(fl.keys[i])
    /\ fl' = [fl EXCEPT !.pin = IF fk.cni THEN @ ELSE PinUpdate(@, fl.keys[i].seq),
                        !.keys[i].seq = 0]
    /\ fk' = [fk EXCEPT !.todo = @ \ {i}]
    /\ Retire(ondisk, {inc.pin, fl'.pin, nodepin'})
    /\ UNCHANGED <<flushFrame, lost, inc, queued, sf>>

(* A commit fails for good. *)
FlushError ==
    /\ Event("ioerr") /\ fk.pc \in {"fast", "slow"} /\ fk.todo # {}
    /\ fk' = [fk EXCEPT !.pc = "finish", !.cni = FALSE, !.todo = {}]
    /\ lost' = IF lost = "no" THEN "keys" ELSE lost
    /\ UNCHANGED <<flushFrame, last_seq, inc, fl, queued, treeVars, sf>>

(* All is flushed and unpinned, but for deltas that have to wait. *)
Finish ==
    /\ fk.pc = "finish" \/ (fk.pc = "slow" /\ fk.todo = {})
    /\ fl' = IF fk.cni
             THEN [fl EXCEPT !.keys = SelectSeq(@, LAMBDA k : k.seq # 0)]
             ELSE [fl EXCEPT !.keys = <<>>, !.pin = 0]
    /\ fk' = [fk EXCEPT !.pc = IF lost = "keys" THEN "failed" ELSE "flushed", !.todo = {}]
    /\ Retire(ondisk, {inc.pin, fl'.pin, nodepin})
    /\ UNCHANGED <<flushFrame, lost, inc, queued, treeVars, sf>>

(* bch2_fs_fatal_err_on(): the journal is halted. *)
Fatal ==
    /\ fk.pc = "failed" /\ lost = "keys"
    /\ lost' = "halted"
    /\ UNCHANGED <<flushFrame, last_seq, inc, fl, fk, queued, treeVars, sf>>

(* bch2_btree_write_buffer_flush_work_fn() goes on until nothing is left,  *)
(* and wakes up those who wait; tryflush flushes once.                     *)
Again ==
    /\ fk.pc = "flushed" /\ fk.who = "worker"
    /\ inc.keys # <<>> \/ fl.keys # <<>>
    /\ replayed

FlushAgain ==
    /\ Again
    /\ fk' = [fk EXCEPT !.pc = "move"]
    /\ UNCHANGED <<flushFrame, lost, last_seq, inc, fl, queued, treeVars, sf>>

FlushUnlock ==
    /\ \/ fk.pc = "flushed" /\ ~Again
       \/ fk.pc = "failed" /\ lost = "halted"
    /\ fl' = [fl EXCEPT !.lock = Idle]
    /\ sf' = IF fk.who = "worker" THEN WakeUp ELSE sf
    /\ fk' = [fk EXCEPT !.who = Idle, !.pc = Idle, !.slow = FALSE, !.cni = FALSE,
                        !.replayed = FALSE]
    /\ UNCHANGED <<flushFrame, lost, last_seq, inc, queued, treeVars>>

(* Journal reclaim wants a pin gone: the work item is queued. *)
JournalFlush ==
    /\ Event("reclaim") /\ ~queued /\ (inc.pin # 0 \/ fl.pin # 0)
    /\ queued' = TRUE
    /\ UNCHANGED <<flushFrame, lost, last_seq, inc, fl, fk, treeVars, sf>>

(* Journal replay has put all accounting keys into the btree. *)
ReplayDone ==
    /\ ~replayed /\ replayed' = TRUE
    /\ UNCHANGED <<use, lost, journalVars, last_seq, buf_lock, bufVars, it, fk, queued,
                   treeVars, sf>>
-----------------------------------------------------------------------------
(* bch2_btree_write_buffer_flush_sync() *)
syncFrame == <<restVars, journalVars, last_seq, bufVars, fk, treeVars>>

SyncCall ==
    /\ Event("sync") /\ cur > 0 /\ (sf.pc = Idle \/ (sf.pc = "done" /\ Event("resync")))
    /\ sf' = [sf EXCEPT !.pc = "fetch", !.max = cur, !.err = FALSE,
                        !.want = {n \in Ids : upd[n].st # "reserved"}]
    /\ UNCHANGED <<syncFrame, buf_lock, it, queued>>

(* fetch_wb_keys_from_journal(sf.max) begins. *)
SyncFetch ==
    /\ sf.pc = "fetch" /\ ~buf_lock
    /\ buf_lock' = TRUE
    /\ it' = [it EXCEPT !.who = "fetch", !.pc = "lock"]
    /\ sf' = [sf EXCEPT !.pc = "fetching"]
    /\ UNCHANGED <<syncFrame, queued>>

(* wb_pin_le(): inc.pin is read before flushing.pin; the caller is on the  *)
(* list of those to be woken up by then.                                   *)
SyncReadInc ==
    /\ sf.pc = "check"
    /\ sf' = [sf EXCEPT !.pc = "check_fl", !.inc = inc.pin, !.woken = FALSE]
    /\ UNCHANGED <<syncFrame, buf_lock, it, queued>>

LeBefore(pin) == pin # 0 /\ pin < sf.max

Le(pin) == pin # 0 /\ pin <= sf.max

SyncReadFlushing ==
    /\ sf.pc = "check_fl"
    /\ LET wait == Le(sf.inc) \/ Le(fl.pin) IN
       /\ queued' = (queued \/ wait)
       /\ sf' = [sf EXCEPT !.inc = 0,
                           !.pc = CASE wait /\ lost = "halted"  -> "failed"
                                    [] wait /\ lost # "halted"  -> "sleep"
                                    [] ~wait /\ sf.err          -> "fetch"
                                    [] ~wait /\ ~sf.err         -> "done"]
    /\ UNCHANGED <<syncFrame, buf_lock, it>>

SyncWoken ==
    /\ sf.pc = "sleep" /\ sf.woken
    /\ sf' = [sf EXCEPT !.pc = "check"]
    /\ UNCHANGED <<syncFrame, buf_lock, it, queued>>
-----------------------------------------------------------------------------
Intake ==
    \/ TryFlushing \/ LockInc \/ IntakeMove
    \/ FetchBlock \/ FetchNext \/ FetchNone
    \/ TakeKey \/ (\E p \in Pos : Inject(p))
    \/ FallBack \/ Repin \/ NoMem \/ TakenAll
    \/ \E q \in BOOLEAN : Unlock(q)

KeyIndex == 1 .. MaxKeys

Flush ==
    \/ FlushMoveStart \/ FlushMove \/ Sort
    \/ \E i \in KeyIndex : FastOne(i) \/ FastSkip(i) \/ SlowSkip(i) \/ SlowOne(i)
    \/ FastDone \/ FlushError \/ Finish \/ Fatal \/ FlushAgain \/ FlushUnlock

Sync == SyncFetch \/ SyncReadInc \/ SyncReadFlushing \/ SyncWoken

Next ==
    \/ \E p \in Pos : Reserve(p)
    \/ \E n \in KeyIndex : Fill(n)
    \/ OpenEntry \/ CloseEntry \/ WriteDone \/ NodeWrite
    \/ \E s \in Seqs : WriteStart(s)
    \/ Intake
    \/ \E w \in Callers : FlushLock(w)
    \/ Flush \/ JournalFlush \/ ReplayDone
    \/ SyncCall \/ Sync

Spec == Init /\ [][Next]_vars

(* Commits finish, the threads that hold the locks get on, the work item   *)
(* runs, journal replay comes to an end, and a buffer that cannot be grown *)
(* now can be sooner or later.                                             *)
FairSpec ==
    /\ Spec
    /\ \A n \in KeyIndex : WF_vars(Fill(n))
    /\ WF_vars(Intake) /\ WF_vars(Flush) /\ WF_vars(Sync) /\ SF_vars(TakeKey)
    /\ WF_vars(FlushLock("worker")) /\ WF_vars(ReplayDone)
-----------------------------------------------------------------------------
Key == [pos : Pos, ups : SUBSET (1 .. MaxKeys), seq : 0 .. MaxSeq]
Buffer(locks) == [keys : Seq(Key), pin : 0 .. MaxSeq, lock : locks \union {Idle}]

(* The journal's view and the buffers' are well formed: keys come from     *)
(* entries that exist, a lock held has its holder, and the open entry is   *)
(* blocked only while a fetch has it blocked.                              *)
TypeOK ==
    /\ use \in Uses /\ cur \in 0 .. MaxSeq /\ ondisk \in 0 .. cur
    /\ \A n \in Ids : upd[n] \in [pos : Pos, seq : 1 .. cur,
                                   st : {"reserved", "filled", "taken"}]
    /\ inc \in Buffer({"intake", "flush"})
    /\ fl  \in Buffer({"intake", "worker", "try"})
    /\ \A w \in {inc, fl} : \A i \in DOMAIN w.keys : w.keys[i].seq <= cur
    /\ fl.lock \in Callers <=> fk.who # Idle
    /\ fk.who # Idle => fl.lock = fk.who
    /\ buf_lock <=> it.who # Idle
    /\ blocked = it.blocked
    /\ last_seq \in 1 .. cur + 1

(* An intake fell back to an empty inc, pinned it, could not grow it, and  *)
(* no key has been staged there since.                                     *)
PinnedBare == it.bare /\ inc.pin # 0 /\ inc.keys = <<>>

(* Whenever the lock of a buffer can be taken its pin covers its keys,     *)
(* which are from entries no older (bch2_journal_key_to_wb_slowpath(),     *)
(* move_keys_from_inc_to_flushing()); and a pin that is set stands for     *)
(* keys that are staged, and goes when they are flushed: "Pin firing means *)
(* keys are already staged in this btree's wb"                             *)
(* (bch2_btree_write_buffer_journal_flush()).  The one exception is an     *)
(* empty inc that was pinned and then could not be grown.                  *)
KeysPinned ==
    TypeOK /\ \A w \in {inc, fl} : w.lock = Idle =>
        /\ \A i \in Alive(w.keys) : w.pin # 0 /\ w.pin <= w.keys[i].seq
        /\ w.pin # 0 /\ lost = "no" => Alive(w.keys) # {} \/ (w = inc /\ PinnedBare)

(* No pin is set for an entry the journal has given up already             *)
(* (bch2_journal_pin_set_locked() warns of it).                            *)
PinsLive ==
    \A pin \in {inc.pin, fl.pin, nodepin} \ {0} : pin >= last_seq

(* What a crash leaves: the newest update of every position that made it   *)
(* to disk in the journal is in an entry recovery replays or in the btree  *)
(* node on disk; of the deltas, every one is.                              *)
Recoverable ==
    lost = "no" /\ ondisk > 0 =>
        \A p \in Pos :
            LET logged == {n \in Ids : upd[n].pos = p /\ upd[n].seq <= ondisk}
                mine   == IF use.accounting \/ logged = {} THEN logged ELSE {Max(logged)}
            IN  \A n \in mine : upd[n].seq >= last[ondisk] \/ n \in durable[p]

(* An update taken from the journal is in one place, the accumulators, the *)
(* buffers or the btree, until a newer one at its position takes over; a   *)
(* delta is in exactly one place for ever.                                 *)
Places(n) ==
    {<<"inc", i>> : i \in {i \in Alive(inc.keys) : n \in inc.keys[i].ups}}
    \union {<<"fl", i>> : i \in {i \in Alive(fl.keys) : n \in fl.keys[i].ups}}
    \union {<<"acc", p>> : p \in {p \in Pos : n \in acc[p]}}
    \union {<<"btree", p>> : p \in {p \in Pos : n \in btree[p]}}

TakenOnce ==
    lost = "no" =>
        \A n \in {n \in Ids : upd[n].st = "taken"} :
            IF use.accounting
            THEN Cardinality(Places(n)) = 1
            ELSE \E m \in Ids : m >= n /\ upd[m].pos = upd[n].pos /\ Places(m) # {}

(* When a synchronous flush returns, every update committed before it was  *)
(* called is in the btree, or a newer one at its position, if no error has *)
(* thrown keys away (then the pins go as well, and the flush returns).     *)
SyncFlushed ==
    sf.pc = "done" /\ lost = "no" =>
        \A n \in sf.want :
            \E m \in btree[upd[n].pos] : m = n \/ (m > n /\ ~use.accounting)

(* The btree never goes back to an older update (the dedup before the      *)
(* sharded fast path), and never forgets a delta.                          *)
NeverBack ==
    [][\A p \in Pos :
         /\ use.accounting => btree[p] \subseteq btree'[p]
         /\ ~use.accounting => \A m \in btree[p] : \A n \in btree'[p] : m <= n]_vars

(* A synchronous flush returns (trans_wait_event() in                      *)
(* btree_write_buffer_flush_seq() is not left waiting), unless inc is left *)
(* empty with its pin: the work item has nothing to flush then and leaves  *)
(* the pin, and the flush has it queued again for as long as the pin is    *)
(* there.                                                                  *)
SyncReturns == sf.pc = "fetch" ~> sf.pc \in {"done", "failed"} \/ PinnedBare
=============================================================================
