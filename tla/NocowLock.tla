------------------------------ MODULE NocowLock ------------------------------
(***************************************************************************)
(* Writes in place and moves of the same data: the table of nocow locks,   *)
(* fs/data/nocow_locking.c, with the nocow write path                      *)
(* (bch2_nocow_write() in fs/data/write.c), the data update path           *)
(* (bch2_data_update_init() and what follows in fs/data/update.c) and the  *)
(* reuse of buckets by the allocator.                                      *)
(*                                                                         *)
(* The table is hashed by bucket.  A chain has a few slots, each with a    *)
(* bucket and a count, positive for writers in place and negative for      *)
(* copies.  A lock of all the buckets of a key is tried first; then they   *)
(* are taken one after the other in the order of their chains.             *)
(*                                                                         *)
(* An extent is a sequence of pointers [b, gen, cached], one per replica.  *)
(* What is in a bucket of an extent is the number of the write that put it *)
(* there.                                                                  *)
(***************************************************************************)
EXTENDS Integers, Sequences, FiniteSets, SequencesExt

CONSTANTS
    Writers,     \* tasks that write in place
    Movers,      \* tasks that move extents
    Extents,
    Buckets,
    Chains,      \* the table, t->l: numbers, in the order of their addresses
    Size,        \* NOCOW_LOCK_BUCKET_SIZE
    None,        \* no bucket
    Uses         \* the ways it may be used, one of which a run takes

Threads == Writers \union Movers
Slots == 1 .. Size
Kinds == {"copygc", "promote", "reconcile"}

ASSUME NocowLockAssumption ==
    /\ Chains \subseteq Nat /\ Size \in Nat \ {0} /\ None \notin Buckets
    /\ \A u \in Uses :
         /\ u.hash \in [Buckets -> Chains]     \* bucket_nocow_lock()
         /\ DOMAIN u.ptrs = Extents            \* the buckets of the extents at first
         /\ \A e \in Extents : \A i \in DOMAIN u.ptrs[e] : u.ptrs[e][i] \in Buckets
         /\ u.taken \subseteq Buckets          \* the buckets of others at first
         /\ u.open \subseteq Buckets           \* the buckets that are open at first
         /\ u.limit \in Nat \ {0}              \* the largest count of a slot
         /\ u.tasks \subseteq Threads          \* the tasks there are
         /\ u.writes \subseteq Extents         \* extents written in place
         /\ u.moves \subseteq Extents          \* extents moved
         /\ u.cow \subseteq Extents            \* extents written elsewhere
         /\ u.maxWrites \in Nat                \* bound: writes
         /\ u.maxMoves \in Nat                 \* bound: moves
         /\ u.kinds \subseteq Kinds            \* what moves there are
         /\ u.reuse \in BOOLEAN                \* do others allocate buckets?
         /\ u.invalidate \in BOOLEAN           \* are cached copies dropped?
         /\ u.noMem \in BOOLEAN                \* may memory run short?

VARIABLES
    use,         \* what may happen
    tab,         \* the slots of the table: [b, l]
    waiters,     \* l->wait of the chains
    held,        \* the buckets the tasks have locked
    th,          \* the tasks
    ext,         \* the extents btree
    gen,         \* the generations of the buckets
    open,        \* buckets more may be written to
    owing,       \* empty buckets that need a new generation
    data,        \* what is in the buckets of the extents
    acked,       \* the last write of each extent that is done
    version,     \* writes so far
    moved,       \* moves so far
    taken,       \* buckets others have allocated
    cand,        \* a bucket the allocator is about to take
    lost         \* extents the last write of which went astray unnoticed

lockVars == <<tab, waiters, held>>
freeVars == <<open, taken, cand>>
writeVars == <<data, acked, version, lost>>
diskVars == <<ext, gen, owing, freeVars, writeVars, moved>>
vars == <<use, lockVars, th, diskVars>>

Ptrs(bs) == [i \in DOMAIN bs |-> [b |-> bs[i], gen |-> 0, cached |-> FALSE]]

(* A task: the key it has copied, where it is in it, whether it still has the
   btree locked, whether it waits for a whole chain, what it writes and whether
   to where the extent no longer is, and of a move what it is for, whether others
   find it, the bucket it moves out of and the one it moves to. *)
Quiet == [pc |-> "idle", e |-> None, ptrs |-> <<>>, i |-> 1, btree |-> FALSE,
          full |-> FALSE, ver |-> 0, astray |-> FALSE,
          kind |-> "none", listed |-> FALSE, kill |-> None, dst |-> None]

Init ==
    /\ use \in Uses
    /\ tab = [c \in Chains |-> [s \in Slots |-> [b |-> None, l |-> 0]]]
    /\ waiters = [c \in Chains |-> {}]
    /\ held = [t \in Threads |-> {}]
    /\ th = [t \in Threads |-> Quiet]
    /\ ext = [e \in Extents |-> Ptrs(use.ptrs[e])]
    /\ gen = [b \in Buckets |-> 0]
    /\ data = [e \in Extents |-> [b \in Buckets |-> 0]]
    /\ acked = [e \in Extents |-> 0]
    /\ version = 0 /\ moved = 0 /\ taken = use.taken /\ cand = None
    /\ open = use.open /\ owing = {} /\ lost = {}
-----------------------------------------------------------------------------
(* The table. *)
Hash(b) == use.hash[b]

Val(t) == IF t \in Writers THEN 1 ELSE -1

SlotsOf(b) == {s \in Slots : tab[Hash(b)][s].b = b}
FreeSlots(c) == {s \in Slots : tab[c][s].l = 0}
First(S) == CHOOSE s \in S : \A r \in S : s <= r

(* bch2_bucket_nocow_is_locked() and nocow_bucket_empty() *)
IsLocked(b) == \E s \in SlotsOf(b) : tab[Hash(b)][s].l # 0
Empty(c) == FreeSlots(c) = Slots

(* Mutant of Try: the mode of the holders is overlooked. *)
TryAnyMode(t, b) ==
    IF SlotsOf(b) # {} \/ FreeSlots(Hash(b)) # {} THEN "ok" ELSE "full"

(* __bch2_bucket_nocow_trylock(): what it returns... *)
Try(t, b) ==
    IF SlotsOf(b) # {}
    THEN LET v == tab[Hash(b)][First(SlotsOf(b))].l IN
         IF v * Val(t) < 0 \/ v * Val(t) = use.limit THEN "contended" ELSE "ok"
    ELSE IF FreeSlots(Hash(b)) # {} THEN "ok" ELSE "full"

(* ...and the slot it takes when that is ok. *)
Take(t, b) ==
    LET c == Hash(b)
        s == First(IF SlotsOf(b) # {} THEN SlotsOf(b) ELSE FreeSlots(c))
    IN  /\ tab' = [tab EXCEPT ![c][s] = [b |-> b, l |-> @.l + Val(t)]]
        /\ held' = [held EXCEPT ![t] = @ \union {b}]

(* Mutant: only a writer in place wakes. *)
ReleaseWriterWakes(t, b) ==
    LET c == Hash(b)
        s == First(SlotsOf(b))
        v == tab[c][s].l - Val(t)
    IN  /\ tab' = [tab EXCEPT ![c][s].l = v]
        /\ waiters' = [waiters EXCEPT ![c] = IF v = 0 /\ t \in Writers THEN {} ELSE @]
        /\ held' = [held EXCEPT ![t] = @ \ {b}]

(* __bch2_bucket_nocow_unlock(): the last holder wakes all who wait. *)
Release(t, b) ==
    LET c == Hash(b)
        s == First(SlotsOf(b))
        v == tab[c][s].l - Val(t)
    IN  /\ tab' = [tab EXCEPT ![c][s].l = v]
        /\ waiters' = [waiters EXCEPT ![c] = IF v = 0 THEN {} ELSE @]
        /\ held' = [held EXCEPT ![t] = @ \ {b}]
-----------------------------------------------------------------------------
(* The locks of a key. *)
At(t, p) == th[t].pc = p
Step(t, r) == th' = [th EXCEPT ![t] = r]

(* bch2_bkey_nocow_lock() sorts by chain; pointers in one chain stay in the
   order of the key. *)
Sorted(ptrs) ==
    LET Before(i, j) == \/ Hash(ptrs[i].b) < Hash(ptrs[j].b)
                        \/ Hash(ptrs[i].b) = Hash(ptrs[j].b) /\ i < j
        order == SetToSortSeq(DOMAIN ptrs, Before)
    IN  [i \in DOMAIN ptrs |-> ptrs[order[i]]]

InOrder(t) == IF th[t].pc \in {"lock", "check", "sleep", "drop"} THEN Sorted(th[t].ptrs) ELSE th[t].ptrs
Cur(t) == InOrder(t)[th[t].i].b
Through(t) == th[t].i > Len(th[t].ptrs)

(* A task is given its locks: the fast path writes at once, the slow path looks
   at the generations first, and a move reads. *)
Locked(t) ==
    [th[t] EXCEPT !.btree = FALSE,
                  !.pc = IF t \in Movers THEN "read"
                         ELSE IF th[t].btree THEN "io" ELSE "gens"]

(* bch2_bkey_nocow_trylock(): one bucket after the other... *)
TryOne(t) ==
    /\ At(t, "try") /\ ~Through(t) /\ Try(t, Cur(t)) = "ok"
    /\ Take(t, Cur(t))
    /\ Step(t, [th[t] EXCEPT !.i = @ + 1])
    /\ UNCHANGED <<use, waiters, diskVars>>

TryFails(t) ==
    /\ At(t, "try") /\ ~Through(t) /\ Try(t, Cur(t)) # "ok"
    /\ Step(t, [th[t] EXCEPT !.pc = "undo"])
    /\ UNCHANGED <<use, lockVars, diskVars>>

TryDone(t) ==
    /\ At(t, "try") /\ Through(t)
    /\ Step(t, Locked(t))
    /\ UNCHANGED <<use, lockVars, diskVars>>

(* ...and what was taken is let go, here, before a task waits for a chain that
   is full, when a pointer is stale and when a move is over. *)
LetGo(t) ==
    /\ th[t].pc \in {"undo", "drop", "stale", "exit"} /\ held[t] # {}
    /\ LET i == First({j \in DOMAIN th[t].ptrs : InOrder(t)[j].b \in held[t]}) IN
       Release(t, InOrder(t)[i].b)
    /\ UNCHANGED <<use, th, diskVars>>

(* Both paths unlock the btree and call bch2_bkey_nocow_lock(), which tries
   once more; what a move tries while it waits for its other moves is no
   different.  A promote gives up. *)
TryAgain(t) ==
    /\ At(t, "undo") /\ held[t] = {}
    /\ Step(t, IF th[t].kind = "promote" THEN Quiet
               ELSE IF th[t].btree THEN [th[t] EXCEPT !.pc = "try", !.i = 1, !.btree = FALSE]
               ELSE [th[t] EXCEPT !.pc = "lock", !.i = 1])
    /\ UNCHANGED <<use, lockVars, diskVars>>

(* Who has waited wakes the others of the chain when it is through. *)
Waited(t) == [waiters EXCEPT ![Hash(Cur(t))] = IF At(t, "check") THEN {} ELSE @]

LockOne(t) ==
    /\ th[t].pc \in {"lock", "check"} /\ ~Through(t) /\ ~th[t].full
    /\ Try(t, Cur(t)) = "ok"
    /\ Take(t, Cur(t))
    /\ waiters' = Waited(t)
    /\ Step(t, [th[t] EXCEPT !.pc = "lock", !.i = @ + 1])
    /\ UNCHANGED <<use, diskVars>>

(* Contended: wait, with the buckets before it locked. *)
LockContended(t) ==
    /\ th[t].pc \in {"lock", "check"} /\ ~Through(t) /\ ~th[t].full
    /\ Try(t, Cur(t)) = "contended"
    /\ waiters' = [waiters EXCEPT ![Hash(Cur(t))] = @ \union (IF At(t, "lock") THEN {t} ELSE {})]
    /\ Step(t, [th[t] EXCEPT !.pc = IF At(t, "lock") THEN "check" ELSE "sleep"])
    /\ UNCHANGED <<use, tab, held, diskVars>>

(* Mutant: the buckets before it stay locked when the chain is full. *)
LockFullKeeps(t) ==
    /\ th[t].pc \in {"lock", "check"} /\ ~Through(t) /\ ~th[t].full
    /\ Try(t, Cur(t)) = "full"
    /\ waiters' = Waited(t)
    /\ Step(t, [th[t] EXCEPT !.pc = "lock", !.i = 1])
    /\ UNCHANGED <<use, tab, held, diskVars>>

(* The chain is full: all are let go... *)
LockFull(t) ==
    /\ th[t].pc \in {"lock", "check"} /\ ~Through(t) /\ ~th[t].full
    /\ Try(t, Cur(t)) = "full"
    /\ waiters' = Waited(t)
    /\ Step(t, [th[t] EXCEPT !.pc = "drop", !.full = TRUE])
    /\ UNCHANGED <<use, tab, held, diskVars>>

(* ...and taken again once the chain is empty. *)
LockEmpty(t) ==
    /\ th[t].full /\ held[t] = {} /\ th[t].pc \in {"drop", "check"}
    /\ Empty(Hash(Cur(t)))
    /\ waiters' = Waited(t)
    /\ Step(t, [th[t] EXCEPT !.pc = "lock", !.i = 1, !.full = FALSE])
    /\ UNCHANGED <<use, tab, held, diskVars>>

LockNotEmpty(t) ==
    /\ th[t].full /\ held[t] = {} /\ th[t].pc \in {"drop", "check"}
    /\ ~Empty(Hash(Cur(t)))
    /\ waiters' = [waiters EXCEPT ![Hash(Cur(t))] = @ \union (IF At(t, "drop") THEN {t} ELSE {})]
    /\ Step(t, [th[t] EXCEPT !.pc = IF At(t, "drop") THEN "check" ELSE "sleep"])
    /\ UNCHANGED <<use, tab, held, diskVars>>

(* A task that is woken is on the list again before it looks. *)
Woken(t) ==
    /\ At(t, "sleep") /\ t \notin waiters[Hash(Cur(t))]
    /\ waiters' = [waiters EXCEPT ![Hash(Cur(t))] = @ \union {t}]
    /\ Step(t, [th[t] EXCEPT !.pc = "check"])
    /\ UNCHANGED <<use, tab, held, diskVars>>

LockDone(t) ==
    /\ At(t, "lock") /\ Through(t)
    /\ Step(t, Locked(t))
    /\ UNCHANGED <<use, lockVars, diskVars>>
-----------------------------------------------------------------------------
(* The extents and their buckets. *)
Of(ptrs) == {ptrs[i] : i \in DOMAIN ptrs}
InUse(x) == UNION {{p.b : p \in Of(x[e])} : e \in Extents}
Point(b, c) == [b |-> b, gen |-> gen[b], cached |-> c]

(* Open: there is more to be written to it, be it by a move. *)
Open(b) == b \in open \/ \E t \in Movers : th[t].dst = b

(* The extents become x.  A bucket the last pointer to which goes gets a new
   generation, or is owed one as long as it is open.  The first pointer to a
   bucket takes it out of the freespace btree, not while the allocator has it
   locked there. *)
ExtentsBecome(x) ==
    LET emptied == InUse(ext) \ InUse(x) IN
    /\ cand \notin InUse(x) \ InUse(ext)
    /\ ext' = x
    /\ gen' = [b \in Buckets |-> IF b \in emptied /\ ~Open(b) THEN gen[b] + 1 ELSE gen[b]]
    /\ owing' = owing \union {b \in emptied : Open(b)}

(* What more there was is written, by others. *)
CloseBucket(b) ==
    /\ b \in open
    /\ open' = open \ {b}
    /\ UNCHANGED <<use, lockVars, th, ext, gen, owing, taken, cand, writeVars, moved>>

(* The next update of its alloc key, the one after its discard at the latest. *)
LaterGen(b) ==
    /\ b \in owing /\ ~Open(b)
    /\ gen' = [gen EXCEPT ![b] = @ + 1]
    /\ owing' = owing \ {b}
    /\ UNCHANGED <<use, lockVars, th, ext, freeVars, writeVars, moved>>

(* may_alloc_bucket(): what is free and neither open nor locked. *)
Free(b) == b \notin InUse(ext) \union taken \union owing
MayAlloc(b) == Free(b) /\ ~Open(b) /\ ~IsLocked(b)

(* A leaf of the extents btree cannot be changed under a lookup. *)
Leaf(e) == \A t \in Threads : ~(th[t].btree /\ th[t].e = e)

Looked(t, e) == [th[t] EXCEPT !.pc = "try", !.e = e, !.ptrs = ext[e], !.i = 1, !.btree = TRUE]

(* bch2_nocow_write(), until the btree is locked.  The writes of one extent are
   kept apart by the page cache or by who issues them. *)
StartWrite(t, e) ==
    /\ At(t, "idle") /\ t \in use.tasks /\ e \in use.writes /\ version < use.maxWrites
    /\ \A u \in Writers : th[u].e # e
    /\ version' = version + 1
    /\ Step(t, [Looked(t, e) EXCEPT !.ver = version + 1])
    /\ UNCHANGED <<use, lockVars, ext, gen, owing, freeVars, data, acked, lost, moved>>

(* The extent is no longer what the task has looked up, and no generation says
   so: a bucket it has left holds others or is open, or it has a further copy. *)
Unnoticed(t) ==
    LET old == Of(th[t].ptrs)
        new == Of(ext[th[t].e])
    IN  old # new /\ \A p \in old \ new : p.b \in InUse(ext) \union owing

Stale(p) == gen[p.b] > p.gen

(* Mutant: the generations are not looked at. *)
CheckGensNone(t) ==
    /\ At(t, "gens")
    /\ Step(t, [th[t] EXCEPT !.pc = "io", !.astray = Unnoticed(t)])
    /\ UNCHANGED <<use, lockVars, diskVars>>

CheckGens(t) ==
    /\ At(t, "gens")
    /\ Step(t, IF \E p \in Of(th[t].ptrs) : Stale(p)
               THEN [th[t] EXCEPT !.pc = "stale"]
               ELSE [th[t] EXCEPT !.pc = "io", !.astray = Unnoticed(t)])
    /\ UNCHANGED <<use, lockVars, diskVars>>

(* A stale pointer: from the lookup again. *)
Restart(t) ==
    /\ At(t, "stale") /\ held[t] = {}
    /\ Step(t, Looked(t, th[t].e))
    /\ UNCHANGED <<use, lockVars, diskVars>>

(* bch2_write_endio(): a replica is written, and its bucket unlocked. *)
Endio(t, b) ==
    /\ At(t, "io") /\ b \in held[t]
    /\ data' = [data EXCEPT ![th[t].e][b] = th[t].ver]
    /\ Release(t, b)
    /\ UNCHANGED <<use, th, ext, gen, owing, freeVars, acked, version, lost, moved>>

(* bch2_nocow_write_done() *)
WriteDone(t) ==
    LET e == th[t].e IN
    /\ At(t, "io") /\ held[t] = {}
    /\ acked' = [acked EXCEPT ![e] = th[t].ver]
    /\ lost' = IF th[t].astray THEN lost \union {e} ELSE lost \ {e}
    /\ Step(t, Quiet)
    /\ UNCHANGED <<use, lockVars, ext, gen, owing, freeVars, data, version, moved>>

(* A write that goes elsewhere, of an extent nobody writes in place. *)
CowWrite(e, b) ==
    /\ e \in use.cow /\ version < use.maxWrites /\ MayAlloc(b)
    /\ \A u \in Writers : th[u].e # e
    /\ Leaf(e)
    /\ ExtentsBecome([ext EXCEPT ![e] = <<Point(b, FALSE)>>])
    /\ data' = [data EXCEPT ![e][b] = version + 1]
    /\ acked' = [acked EXCEPT ![e] = version + 1]
    /\ version' = version + 1
    /\ lost' = lost \ {e}
    /\ UNCHANGED <<use, lockVars, th, freeVars, moved>>

(* invalidate_one_bp(): a cached copy is dropped, from a bucket that holds
   nothing else.  The locks are not looked at. *)
Invalidate(e, b) ==
    /\ use.invalidate /\ ~Open(b) /\ Leaf(e)
    /\ \E p \in Of(ext[e]) : p.b = b
    /\ \A x \in Extents : \A p \in Of(ext[x]) : p.b = b => p.cached
    /\ ExtentsBecome([ext EXCEPT ![e] = SelectSeq(@, LAMBDA p : p.b # b)])
    /\ UNCHANGED <<use, lockVars, th, freeVars, writeVars, moved>>
-----------------------------------------------------------------------------
(* Moves. *)
(* bch2_data_update_in_flight(): one at a time for an extent, but copygc goes
   beside what is not copygc. *)
InFlight(e, kind) ==
    \E u \in Movers : /\ th[u].e = e /\ th[u].listed
                      /\ kind = "copygc" => th[u].kind = "copygc"

(* bch2_data_update_init(): the others are looked for... *)
StartMove(t, e, kind) ==
    /\ At(t, "idle") /\ t \in use.tasks /\ e \in use.moves /\ moved < use.maxMoves
    /\ kind \in use.kinds /\ ~InFlight(e, kind)
    /\ moved' = moved + 1
    /\ \E p \in {q \in Of(ext[e]) : ~q.cached} :
         Step(t, [Looked(t, e) EXCEPT !.pc = "begin", !.kind = kind,
                                      !.kill = IF kind = "promote" THEN None ELSE p.b])
    /\ UNCHANGED <<use, lockVars, ext, gen, owing, freeVars, writeVars>>

(* ...and the move is listed for others to find; if there is no memory for that
   it goes on all the same. *)
EnterMove(t) ==
    /\ At(t, "begin")
    /\ \E l \in {TRUE, ~use.noMem} : Step(t, [th[t] EXCEPT !.pc = "try", !.listed = l])
    /\ UNCHANGED <<use, lockVars, diskVars>>

(* A replica that is not stale is read; if all are the move is given up. *)
Read(t) ==
    /\ At(t, "read")
    /\ LET fresh == {p \in Of(th[t].ptrs) : ~Stale(p)} IN
       \/ \E p \in fresh : Step(t, [th[t] EXCEPT !.pc = "write", !.ver = data[th[t].e][p.b]])
       \/ fresh = {} /\ Step(t, [th[t] EXCEPT !.pc = "exit"])
    /\ UNCHANGED <<use, lockVars, diskVars>>

(* What was read is written to a bucket of its own, if there is one. *)
MoveWrite(t) ==
    /\ At(t, "write")
    /\ \/ \E b \in Buckets :
            /\ MayAlloc(b)
            /\ data' = [data EXCEPT ![th[t].e][b] = th[t].ver]
            /\ Step(t, [th[t] EXCEPT !.pc = "index", !.dst = b])
       \/ /\ \A b \in Buckets : ~MayAlloc(b)
          /\ Step(t, [th[t] EXCEPT !.pc = "exit"])
          /\ UNCHANGED data
    /\ UNCHANGED <<use, lockVars, ext, gen, owing, freeVars, acked, version, lost, moved>>

(* bch2_extents_match() *)
Match(t) ==
    \E p \in Of(ext[th[t].e]), q \in Of(th[t].ptrs) : p.b = q.b /\ p.gen = q.gen

(* The new pointer goes in, the one to be moved goes; a promote adds a cached
   one. *)
Replaced(t) ==
    Append(SelectSeq(ext[th[t].e], LAMBDA p : p.b # th[t].kill),
           Point(th[t].dst, th[t].kind = "promote"))

(* Mutant: what is there now is not compared with what was read. *)
IndexUpdateBlind(t) ==
    /\ At(t, "index") /\ Leaf(th[t].e)
    /\ ExtentsBecome([ext EXCEPT ![th[t].e] = <<Point(th[t].dst, FALSE)>>])
    /\ Step(t, [th[t] EXCEPT !.pc = "exit"])
    /\ UNCHANGED <<use, lockVars, freeVars, writeVars, moved>>

(* data_update_index_update_key(): an extent that matches may still be left as
   it is, when what was to be moved is gone or there are replicas enough. *)
IndexUpdate(t) ==
    /\ At(t, "index") /\ Leaf(th[t].e)
    /\ \/ Match(t) /\ ExtentsBecome([ext EXCEPT ![th[t].e] = Replaced(t)])
       \/ ExtentsBecome(ext)
    /\ Step(t, [th[t] EXCEPT !.pc = "exit"])
    /\ UNCHANGED <<use, lockVars, freeVars, writeVars, moved>>

(* bch2_data_update_exit() *)
MoveDone(t) ==
    /\ At(t, "exit") /\ held[t] = {}
    /\ Step(t, Quiet)
    /\ UNCHANGED <<use, lockVars, diskVars>>

(* Others allocate: they find a bucket in the freespace btree, look at the locks,
   and then take it if it is not open by then. *)
AllocCheck(b) ==
    /\ use.reuse /\ cand = None /\ MayAlloc(b)
    /\ cand' = b
    /\ UNCHANGED <<use, lockVars, th, ext, gen, owing, open, taken, writeVars, moved>>

AllocTake ==
    /\ cand # None
    /\ taken' = taken \union {b \in {cand} : Free(b) /\ ~Open(b)}
    /\ cand' = None
    /\ UNCHANGED <<use, lockVars, th, ext, gen, owing, open, writeVars, moved>>
-----------------------------------------------------------------------------
LockKey(t) ==
    \/ TryOne(t) \/ TryFails(t) \/ TryDone(t) \/ LetGo(t) \/ TryAgain(t)
    \/ LockOne(t) \/ LockContended(t) \/ LockFull(t) \/ LockEmpty(t)
    \/ LockNotEmpty(t) \/ Woken(t) \/ LockDone(t)

WriteInPlace(t) ==
    \/ CheckGens(t) \/ Restart(t) \/ WriteDone(t) \/ \E b \in Buckets : Endio(t, b)

Move(t) == EnterMove(t) \/ Read(t) \/ MoveWrite(t) \/ IndexUpdate(t) \/ MoveDone(t)

Next ==
    \/ \E t \in Threads : LockKey(t)
    \/ \E t \in Writers : WriteInPlace(t) \/ \E e \in Extents : StartWrite(t, e)
    \/ \E t \in Movers : Move(t) \/ \E e \in Extents, k \in Kinds : StartMove(t, e, k)
    \/ \E e \in Extents, b \in Buckets : CowWrite(e, b) \/ Invalidate(e, b)
    \/ \E b \in Buckets : CloseBucket(b) \/ LaterGen(b) \/ AllocCheck(b)
    \/ AllocTake

Spec == Init /\ [][Next]_vars

(* A task that can go on does, the allocator does not stop with the freespace
   btree locked, and submitted writes end. *)
FairSpec ==
    /\ Spec
    /\ \A t \in Threads : WF_vars(LockKey(t))
    /\ \A t \in Writers : WF_vars(WriteInPlace(t))
    /\ \A t \in Movers : WF_vars(Move(t))
    /\ WF_vars(AllocTake)
-----------------------------------------------------------------------------
(* The tasks, their slots and the extents are what they should be: in
   particular no count of a slot passes the largest it can hold, which
   __bch2_bucket_nocow_trylock() looks out for. *)
TypeOK ==
    /\ use \in Uses
    /\ \A c \in Chains, s \in Slots :
         tab[c][s].b \in Buckets \union {None} /\ tab[c][s].l \in -use.limit .. use.limit
    /\ waiters \in [Chains -> SUBSET Threads]
    /\ held \in [Threads -> SUBSET Buckets]
    /\ gen \in [Buckets -> Nat]
    /\ \A t \in Threads : th[t].i \in 1 .. Len(th[t].ptrs) + 1
    /\ \A e \in Extents : ext[e] # <<>> /\ acked[e] \in 0 .. version
    /\ taken \subseteq Buckets /\ cand \in Buckets \union {None}
    /\ open \subseteq Buckets /\ owing \subseteq Buckets \ InUse(ext)
    /\ lost \subseteq Extents

(* Every variable has its type, no count passes the largest it can hold, and
   the table says who has what: a bucket has one slot at most that counts, and
   it counts the tasks that have it locked.  So __bch2_bucket_nocow_unlock()
   finds the slot, with a count of the right sign: it meets neither BUG(). *)
SlotsAccount ==
    TypeOK /\ \A b \in Buckets :
       LET holders == {t \in Threads : b \in held[t]}
           counting == {s \in SlotsOf(b) : tab[Hash(b)][s].l # 0}
       IN  /\ Cardinality(SlotsOf(b)) <= 1
           /\ (counting # {}) <=> (holders # {})
           /\ \A s \in counting : \A t \in holders :
                tab[Hash(b)][s].l = Cardinality(holders) * Val(t)

(* A write in place never lands in a bucket that others have allocated, and
   while it is under way the bucket keeps its generation: bch2_nocow_write()
   says "pointers are guaranteed fresh" of the fast path and looks at the
   generations on the slow one, and may_alloc_bucket() looks at the locks.  Two
   generations may change under a write: that of a cached copy, which is
   invalidated whoever has it locked, and that of a bucket the extent has left
   unnoticed before the generations were looked at. *)
WriteLandsHome ==
    \A t \in Writers : At(t, "io") =>
       \A p \in Of(th[t].ptrs) : p.b \in held[t] =>
          p.b \notin taken /\ (gen[p.b] = p.gen \/ p.cached \/ th[t].astray)

Kept(e) ==
    (\A t \in Writers : th[t].e = e => ~At(t, "io")) =>
    \A p \in Of(ext[e]) : data[e][p.b] = acked[e] /\ gen[p.b] = p.gen /\ p.b \notin taken

(* What the last finished write of an extent wrote is what all pointers of the
   extent lead to: bch2_nocow_write() takes the locks of its buckets so that
   no move undoes it. *)
WriteKept == \A e \in Extents : Kept(e)

(* What the last finished write of an extent wrote is what all pointers of the
   extent lead to, unless that write waited in bch2_bkey_nocow_lock() while the
   extent changed in a way no generation shows: moved out of a bucket that
   holds other extents or is still open, or given a further copy.  Neither a
   write in place nor one elsewhere is undone in any other way by moves,
   promotes, copygc beside them, invalidation or the allocator. *)
KeptUnlessUnnoticed == \A e \in Extents \ lost : Kept(e)

(* The table is a lock for each bucket, whatever else is in its chain: shared
   by writers in place or by copies, each lock implements the abstract one. *)
Lock(b) == INSTANCE ModeLock WITH
    Owners <- Threads,
    Modes <- {1, -1},
    Compatible <- {<<1, 1>>, <<-1, -1>>},
    held <- [t \in Threads |-> IF b \in held[t] THEN {Val(t)} ELSE {}]

Same(b) == \A t \in Threads : (b \in held'[t]) = (b \in held[t])

ImplementsLock ==
    /\ \A b \in Buckets : Lock(b)!Init
    /\ [][\A b \in Buckets : Lock(b)!Next \/ Same(b)]_held

(* Two tasks in bch2_bkey_nocow_lock() each wait for a bucket the other has
   locked.  The buckets of a key are sorted by their chain only, so that this
   takes two buckets of one chain in opposite orders in two keys. *)
InCircle(t) ==
    /\ At(t, "sleep") /\ ~th[t].full
    /\ \E u \in Threads : /\ At(u, "sleep") /\ ~th[u].full
                          /\ Hash(Cur(t)) = Hash(Cur(u))
                          /\ Cur(t) \in held[u] /\ Cur(u) \in held[t]

(* Every write and every move ends, unless two tasks wait for each other in one
   chain: no wake-up is lost, and nobody waits in a circle across chains or
   between a chain that is full and a bucket that is locked. *)
TasksEnd == \A t \in Threads : []<>(At(t, "idle") \/ \E u \in Threads : InCircle(u))
=============================================================================
