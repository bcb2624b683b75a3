------------------------------ MODULE LockGraph ------------------------------
(***************************************************************************)
(* Transactions that lock btree nodes, and the cycle detector that decides  *)
(* whether one of them may sleep: fs/btree/locking.c, with the slow path of *)
(* fs/util/six.c that calls it, the restart of a transaction (fs/btree/     *)
(* iter.c) and the reclaim of nodes (fs/btree/cache.c).                     *)
(*                                                                          *)
(* The lock word is one step per operation here, an unlock includes its     *)
(* wakeups: SixLock has what happens inside.  The wait lists are those of   *)
(* SixWaitFifo.  The detector takes a step for every lock it looks at,      *)
(* every slot of its wait list and every transaction it descends into,      *)
(* without holding anything.                                                *)
(***************************************************************************)
EXTENDS SixWaitFifo, Sequences, FiniteSetsExt

CONSTANTS
    Reclaim,        \* the thread that reclaims a node
    Uses            \* what the transactions lock, see UseType

Trans == Waiters

(* A path is a node and the lock a transaction wants there; a transaction     *)
(* takes its paths in the order given and then write locks those in writes,   *)
(* the ones in nofail with bch2_btree_node_lock_write_nofail().               *)
UseType ==
    [paths : [Trans -> Seq([node : Locks, want : {"read", "intent"}])],
     writes : [Trans -> Seq(Nat)],      \* indices of paths
     nofail : SUBSET Trans,
     begins : [Trans -> Nat],           \* bound: transactions of each task
     after : [Trans -> SUBSET Trans],   \* bound: tasks that have begun before
     depth : Nat \ {0},                 \* ARRAY_SIZE(g->g)
     reclaim : SUBSET Locks,            \* nodes that may be reclaimed
     nomem : BOOLEAN]                   \* GFP_NOWAIT allocations may fail

ASSUME GraphAssumption ==
    /\ Locks \subseteq Nat /\ Waiters \cap {None, Reclaim} = {} /\ None # Reclaim
    /\ Uses \subseteq UseType
    /\ \A u \in Uses, t \in Trans : u.writes[t] \in Seq(1 .. Len(u.paths[t]))

VARIABLES
    use,        \* one of Uses
    lock,       \* [read, intent, write]: who holds what; write: or waits for it
    tr,         \* struct btree_trans, and where its task is
    graph,      \* struct lock_graph: the frames of each detector
    gone,       \* nodes whose identity (hash_val) is gone
    rc,         \* the reclaim thread
    clock,      \* local_clock()
    bug         \* break_cycle_fail() or a BUG_ON()

vars == <<fifo, slot, on, use, lock, tr, graph, gone, rc, clock, bug>>

-----------------------------------------------------------------------------
(* What a transaction does next *)

Nr(t) == Len(use.paths[t])
Node(t, i) == use.paths[t][i].node

(* bch2_btree_path_traverse_all() takes the paths in the order of their       *)
(* positions, a transaction that was not restarted in its own.                *)
Op(t) ==
    IF tr[t].again # {}
    THEN CHOOSE i \in tr[t].again : \A k \in tr[t].again : Node(t, i) <= Node(t, k)
    ELSE IF tr[t].at <= Nr(t) THEN tr[t].at
    ELSE IF tr[t].at - Nr(t) <= Len(use.writes[t]) THEN use.writes[t][tr[t].at - Nr(t)]
    ELSE 0

Writes(t) == tr[t].again = {} /\ tr[t].at > Nr(t)

Want(t) == IF Writes(t) THEN "write" ELSE use.paths[t][Op(t)].want

Advanced(t) ==
    IF tr[t].again # {} THEN [tr[t] EXCEPT !.again = @ \ {Op(t)}, !.pc = "run"]
                        ELSE [tr[t] EXCEPT !.at = @ + 1, !.pc = "run"]

(* The lock is had: the path is marked (mark_btree_node_locked). *)
Got(t) ==
    [Advanced(t) EXCEPT !.held[Op(t)] = Want(t), !.locking = None]

-----------------------------------------------------------------------------
(* Six locks: a lock h is [read, intent, write], write also set while waiting. *)

(* __do_six_trylock(): whether the lock can be had. *)
Free(h, type) ==
    CASE type = "read"   -> h.write = None
      [] type = "intent" -> h.intent = None
      [] type = "write"  -> h.read = {}

Take(h, type, t) ==
    CASE type = "read"   -> [h EXCEPT !.read = @ \cup {t}]
      [] type = "intent" -> [h EXCEPT !.intent = t]
      [] type = "write"  -> [h EXCEPT !.write = t]

Drop(h, type, t) ==
    CASE type = "read"   -> [h EXCEPT !.read = @ \ {t}]
      [] type = "intent" -> [h EXCEPT !.intent = None]
      [] type = "write"  -> [h EXCEPT !.write = None]

(* Mutant of Served: one reader is woken, as for the other types. *)
ServedOneReader(n, type, t) ==
    LET of == CASE type = "write" -> "read" [] type = "intent" -> "intent" [] type = "read" -> "write"
    IN  IF Matches(n, of) = {} \/ (type = "read" /\ lock[n].read # {t}) THEN {{}}
        ELSE {{i} : i \in Oldest(n, of)}

(* six_lock_wakeup() after t drops a lock: the slots that are served.  Readers *)
(* wait for the writer, intent for intent, the writer for the last reader.     *)
Served(n, type, t) ==
    CASE type = "write"  -> {Matches(n, "read")}
      [] type = "intent" -> IF Matches(n, "intent") = {} THEN {{}}
                            ELSE {{i} : i \in Oldest(n, "intent")}
      [] type = "read"   -> IF lock[n].read # {t} \/ Matches(n, "write") = {} THEN {{}}
                            ELSE {{i} : i \in Oldest(n, "write")}

(* The lock is handed to the tasks W; a writer has HELD_write since it waits. *)
Handed(h, type, W) ==
    CASE type = "write"  -> [h EXCEPT !.read = @ \cup W]
      [] type = "intent" -> IF W = {} THEN h ELSE [h EXCEPT !.intent = CHOOSE w \in W : TRUE]
      [] type = "read"   -> h

(* do_six_unlock_type() by t, which goes on as me. *)
Release(n, type, t, me) ==
    \E I \in Served(n, type, t) :
        LET W == {fifo[n].data[i].w : i \in I}
        IN  /\ lock' = [lock EXCEPT ![n] = Handed(Drop(@, type, t), type, W)]
            /\ tr' = [u \in Trans |->
                        IF u = t THEN me
                        ELSE IF u \in W THEN [tr[u] EXCEPT !.acquired = TRUE, !.woken = TRUE]
                        ELSE tr[u]]
            /\ IF I = {} THEN UNCHANGED fifoVars ELSE Remove(n, I)

-----------------------------------------------------------------------------
(* Locking a node *)

Rest == UNCHANGED <<use, gone, rc, clock, bug>>

(* bch2_trans_begin(), not after a restart. *)
Begin(t) ==
    /\ tr[t].pc = "idle" /\ tr[t].begun < use.begins[t]
    /\ \A u \in use.after[t] : tr[u].begun > 0
    /\ clock' = clock + 1
    /\ tr' = [tr EXCEPT ![t].pc = "run", ![t].at = 1, ![t].begun = @ + 1, ![t].start = clock + 1]
    /\ UNCHANGED <<fifoVars, use, lock, graph, gone, rc, bug>>

(* The node is not in the cache any more: there is another one to lock. *)
Skip(t) ==
    /\ tr[t].pc = "run" /\ Op(t) # 0
    /\ IF Writes(t) THEN tr[t].held[Op(t)] = "none" ELSE Node(t, Op(t)) \in gone
    /\ tr' = [tr EXCEPT ![t] = Advanced(t)]
    /\ UNCHANGED <<fifoVars, lock, graph>> /\ Rest

Lockable(t) == tr[t].pc = "run" /\ Op(t) # 0 /\ (Writes(t) => tr[t].held[Op(t)] = "intent")

(* btree_node_lock(), __btree_node_lock_write(): the trylock succeeds. *)
TryLock(t) ==
    LET n == Node(t, Op(t))
    IN  /\ Lockable(t) /\ n \notin gone
        /\ Free(lock[n], Want(t))
        /\ lock' = [lock EXCEPT ![n] = Take(@, Want(t), t)]
        /\ tr' = [tr EXCEPT ![t] = Got(t)]
        /\ UNCHANGED <<fifoVars, graph>> /\ Rest

(* Mutant of Contend: the path says write only when the lock is held. *)
ContendUnmarked(t) ==
    LET n == Node(t, Op(t))
    IN  /\ Lockable(t)
        /\ ~Free(lock[n], Want(t))
        /\ tr' = [tr EXCEPT ![t].pc = "slow", ![t].locking = n, ![t].must_abort = FALSE,
                            ![t].nofail = Writes(t) /\ t \in use.nofail,
                            ![t].acquired = FALSE]
        /\ lock' = IF Writes(t) THEN [lock EXCEPT ![n].write = t] ELSE lock
        /\ UNCHANGED <<fifoVars, graph>> /\ Rest

(* It fails: btree_node_lock_nopath().  A writer is marked on its path before, *)
(* and sets HELD_write, which holds up readers, before it waits.               *)
Contend(t) ==
    LET n == Node(t, Op(t))
    IN  /\ Lockable(t)
        /\ ~Free(lock[n], Want(t))
        /\ tr' = [tr EXCEPT ![t].pc = "slow", ![t].locking = n, ![t].must_abort = FALSE,
                            ![t].nofail = Writes(t) /\ t \in use.nofail,
                            ![t].acquired = FALSE,
                            ![t].held[Op(t)] = IF Writes(t) THEN "write" ELSE @]
        /\ lock' = IF Writes(t) THEN [lock EXCEPT ![n].write = t] ELSE lock
        /\ UNCHANGED <<fifoVars, graph>> /\ Rest

(* A walk goes on in the array that is replaced (which is freed by RCU). *)
StaysOn(f, n) == IF f.have = n /\ f.next # None /\ f.old = None THEN [f EXCEPT !.old = fifo[n]] ELSE f

(* __six_lock_slowpath(), under wait_lock: try again, then join the list. *)
SlowGet(t) ==
    LET n == tr[t].locking
    IN  /\ tr[t].pc = "slow" /\ Free(lock[n], Want(t))
        /\ lock' = [lock EXCEPT ![n] = Take(@, Want(t), t)]
        /\ tr' = [tr EXCEPT ![t] = Got(t)]
        /\ UNCHANGED <<fifoVars, graph>> /\ Rest

Wait(t) ==
    LET n == tr[t].locking
        e == [w |-> t, want |-> Want(t), start |-> tr[t].start]
    IN  /\ tr[t].pc = "slow" /\ ~Free(lock[n], Want(t))
        /\ \/ Insert(n, e) /\ UNCHANGED graph
           \/ Grow(n, e) /\ graph' = [u \in Trans |-> [i \in DOMAIN graph[u] |-> StaysOn(graph[u][i], n)]]
        /\ tr' = [tr EXCEPT ![t].pc = "loop"]
        /\ UNCHANGED lock /\ Rest

(* schedule() returns. *)
Wakes(t) ==
    /\ tr[t].pc \in {"sleep", "unsure"} /\ tr[t].woken
    /\ tr' = [tr EXCEPT ![t].pc = "loop"]
    /\ UNCHANGED <<fifoVars, lock, graph>> /\ Rest

(* should_sleep_fn() returned an error: off the list, *)
Abort(t) ==
    LET n == tr[t].locking
    IN  /\ tr[t].pc = "abort"
        /\ IF tr[t].acquired THEN UNCHANGED fifoVars ELSE Leave(n, t)
        /\ tr' = [tr EXCEPT ![t].pc = "undo"]
        /\ UNCHANGED <<lock, graph>> /\ Rest

(* and back with the lock if it was handed over meanwhile, or with HELD_write. *)
(* The BUG_ON() in btree_node_lock_nopath() is met if the lock may not fail.   *)
Undo(t) ==
    LET n  == tr[t].locking
        i  == Op(t)
        to == [tr[t] EXCEPT !.locking = None, !.held[i] = IF Writes(t) THEN "intent" ELSE @]
        me == IF to.reused THEN [Advanced(t) EXCEPT !.locking = None, !.reused = FALSE]
              ELSE [to EXCEPT !.pc = IF to.nofail THEN "bug" ELSE "unlock", !.restarted = TRUE]
    IN  /\ tr[t].pc = "undo"
        /\ IF tr[t].acquired \/ Writes(t)
           THEN Release(n, Want(t), t, me)
           ELSE tr' = [tr EXCEPT ![t] = me] /\ UNCHANGED <<fifoVars, lock>>
        /\ graph' = [graph EXCEPT ![t] = <<>>]
        /\ Rest

-----------------------------------------------------------------------------
(* Unlocking: bch2_trans_unlock(), a lock at a time *)

HeldPaths(t) == {i \in 1 .. Nr(t) : tr[t].held[i] # "none"}

(* All has been locked, and the transaction has committed. *)
Finish(t) ==
    /\ tr[t].pc = "run" /\ Op(t) = 0
    /\ tr' = [tr EXCEPT ![t].pc = "unlock"]
    /\ UNCHANGED <<fifoVars, lock, graph>> /\ Rest

Unlock(t) ==
    LET i    == Min(HeldPaths(t))
        type == tr[t].held[i]
    IN  /\ tr[t].pc = "unlock" /\ HeldPaths(t) # {}
        /\ Release(Node(t, i), type, t,
                   [tr[t] EXCEPT !.held[i] = IF type = "write" THEN "intent" ELSE "none"])
        /\ UNCHANGED graph /\ Rest

(* bch2_btree_path_traverse_all() retakes the paths there are, also the one    *)
(* that could not be locked; write locks are taken again at the commit.        *)
Reached(t) == IF tr[t].again # {} THEN tr[t].at - 1 ELSE Min({tr[t].at, Nr(t)})

Unlocked(t) ==
    /\ tr[t].pc = "unlock" /\ HeldPaths(t) = {}
    /\ tr' = [tr EXCEPT ![t] =
                IF tr[t].restarted
                THEN [@ EXCEPT !.pc = "run", !.restarted = FALSE,
                               !.again = 1 .. Reached(t), !.at = Reached(t) + 1]
                ELSE [@ EXCEPT !.pc = "idle"]]
    /\ UNCHANGED <<fifoVars, lock, graph>> /\ Rest

-----------------------------------------------------------------------------
(* The cycle detector *)

Walks(t) == tr[t].pc = "walk"
Top(g)   == g[Len(g)]

(* lock_type_conflicts() *)
LockTypeConflicts(t1, t2) ==
    LET nr == [read |-> 0, intent |-> 1, write |-> 2] IN nr[t1] + nr[t2] > 1

Frame(t) == [trans |-> t, want |-> tr[t].locking, have |-> None, held |-> None, at |-> 0,
             next |-> None, old |-> None, list |-> <<>>]

(* An iteration of the loop in __six_lock_slowpath(): the lock is ours by now, *)
LoopGot(t) ==
    /\ tr[t].pc = "loop" /\ tr[t].acquired
    /\ tr' = [tr EXCEPT ![t] = [Got(t) EXCEPT !.woken = FALSE]]
    /\ UNCHANGED <<fifoVars, lock, graph>> /\ Rest

(* or bch2_six_check_for_deadlock() is called.  The identity of a node is not  *)
(* checked for write locks (locking_hash_val is 0).                            *)
LoopCheck(t) ==
    /\ tr[t].pc = "loop" /\ ~tr[t].acquired
    /\ LET reused == ~Writes(t) /\ tr[t].locking \in gone
           abort  == tr[t].must_abort /\ ~tr[t].nofail
       IN  /\ tr' = [tr EXCEPT ![t].pc = IF reused \/ abort THEN "abort" ELSE "walk",
                               ![t].reused = reused, ![t].woken = FALSE]
           /\ graph' = [graph EXCEPT ![t] = IF reused \/ abort THEN <<>> ELSE <<Frame(t)>>]
    /\ UNCHANGED <<fifoVars, lock>> /\ Rest

(* lock_graph_remove_non_waiters(): the transaction of a frame waits for       *)
(* another node by now.  (The code also compares the frame with the next one;  *)
(* the node of a frame does not change while there is another above it.)       *)
NonWaiter(g, from) == tr[g[from].trans].locking # g[from].want

(* Mutant of Prefer: only the age counts. *)
PreferYoungest(l, r) == tr[l].start > tr[r].start

(* btree_trans_abort_preference(): the youngest, but none that may not fail. *)
Prefer(l, r) ==
    IF tr[l].nofail # tr[r].nofail THEN ~tr[l].nofail ELSE tr[l].start > tr[r].start

Victim(g, from) ==
    CHOOSE i \in from .. Len(g) : \A k \in (from .. Len(g)) \ {i} : Prefer(g[i].trans, g[k].trans)

(* break_cycle() of the frames g from `from' on. *)
BreakCycle(t, g, from) ==
    LET v == Victim(g, from)
        u == g[v].trans
    IN  IF NonWaiter(g, from)
        THEN /\ graph' = [graph EXCEPT ![t] = SubSeq(g, 1, from - 1)]
             /\ UNCHANGED <<tr, bug>>
        ELSE /\ tr' = IF u = t THEN [tr EXCEPT ![t].pc = "abort"]
                      ELSE [tr EXCEPT ![u].must_abort = TRUE, ![u].woken = TRUE]
             /\ graph' = [graph EXCEPT ![t] = SubSeq(g, 1, v - 1)]
             /\ bug' = tr[u].nofail

(* lock_graph_recursion_limit() *)
RecursionLimit(t, g) ==
    IF tr[t].nofail
    THEN /\ tr' = [u \in Trans |-> IF \E i \in 2 .. Len(g) : g[i].trans = u
                                   THEN [tr[u] EXCEPT !.woken = TRUE] ELSE tr[u]]
         /\ graph' = [graph EXCEPT ![t] = g]
         /\ UNCHANGED bug
    ELSE BreakCycle(t, g, 1)

(* lock_graph_down() from the top frame, unless u waits for another node now. *)
Down(t, g, u) ==
    /\ graph' = [graph EXCEPT ![t] = IF tr[u].locking = Top(g).have THEN Append(g, Frame(u)) ELSE g]
    /\ UNCHANGED <<tr, bug>>

(* The top frame is between the slots of a wait list, or past them. *)
InList(t)   == Walks(t) /\ Top(graph[t]).next # None
PastList(t) == Walks(t) /\ Top(graph[t]).next = None

(* lock_graph_descend() into the next of the waiters that were noted. *)
Descend(t) ==
    /\ PastList(t) /\ Top(graph[t]).list # <<>>
    /\ LET u  == Head(Top(graph[t]).list)
           g  == [graph[t] EXCEPT ![Len(graph[t])].list = Tail(@)]
           in == {i \in DOMAIN g : g[i].trans = u}
       IN  \/ in # {} /\ BreakCycle(t, g, Min(in))
           \/ in = {} /\ Len(g) = use.depth /\ RecursionLimit(t, g)
           \/ in = {} /\ Len(g) < use.depth /\ Down(t, g, u)
    /\ UNCHANGED <<fifoVars, use, lock, gone, rc, clock>>

(* The next lock that the transaction of the top frame holds. *)
Ahead(g) == {i \in HeldPaths(Top(g).trans) : i > Top(g).at}

(* bch2_check_for_deadlock() goes to the next lock of the top frame: it reads  *)
(* what type it is, and then which node,                                       *)
Scan(t) ==
    /\ PastList(t) /\ Top(graph[t]).list = <<>> /\ Ahead(graph[t]) # {}
    /\ LET u == Top(graph[t]).trans
           i == Min(Ahead(graph[t]))
       IN  graph' = [graph EXCEPT ![t][Len(graph[t])] =
                        [@ EXCEPT !.have = Node(u, i), !.held = tr[u].held[i], !.at = i, !.next = 0]]
    /\ UNCHANGED <<fifoVars, lock, tr>> /\ Rest

(* which is none any more if the path has been unlocked between the two: the   *)
(* root of the graph still waits, so the walk is given up.                     *)
ScanRaced(t) ==
    LET f == Top(graph[t])
    IN  /\ InList(t) /\ f.next = 0 /\ tr[f.trans].held[f.at] = "none"
        /\ tr' = [tr EXCEPT ![t].pc = "unsure"]
        /\ graph' = [graph EXCEPT ![t] = <<>>]
        /\ UNCHANGED <<fifoVars, lock>> /\ Rest

(* The array that frame f walks. *)
Array(f) == IF f.old = None THEN fifo[f.have] ELSE f.old

(* The next slot has a waiter that the lock may hold up. *)
Conflicting(f) ==
    LET e == Array(f).data[f.next]
    IN  e # None /\ e.w # f.trans /\ LockTypeConflicts(f.held, e.want)

(* notes the waiters in its list, a slot at a time, *)
ScanSlot(t) ==
    LET f == Top(graph[t])
    IN  /\ InList(t) /\ f.next < Array(f).nr
        /\ graph' = [graph EXCEPT ![t][Len(graph[t])] =
                        [@ EXCEPT !.next = f.next + 1,
                                  !.list = IF Conflicting(f) THEN Append(@, Array(f).data[f.next].w) ELSE @]]
        /\ UNCHANGED <<fifoVars, lock, tr>> /\ Rest

(* which may fail (waitlist_alloc_failed), *)
ScanFails(t) ==
    LET f == Top(graph[t])
    IN  /\ use.nomem
        /\ InList(t) /\ f.next < Array(f).nr /\ Conflicting(f)
        /\ tr' = [tr EXCEPT ![t].pc = "abort"]
        /\ UNCHANGED <<fifoVars, lock, graph>> /\ Rest

(* up to the end of the list, *)
ScanEnd(t) ==
    LET f == Top(graph[t])
    IN  /\ InList(t) /\ f.next >= Array(f).nr
        /\ graph' = [graph EXCEPT ![t][Len(graph[t])] = [@ EXCEPT !.next = None, !.old = None]]
        /\ UNCHANGED <<fifoVars, lock, tr>> /\ Rest

(* or there is none: up, and when no frame is left there is no cycle, or       *)
(* somebody else breaks it.                                                    *)
Up(t) ==
    /\ PastList(t) /\ Top(graph[t]).list = <<>> /\ Ahead(graph[t]) = {}
    /\ graph' = [graph EXCEPT ![t] = SubSeq(@, 1, Len(@) - 1)]
    /\ tr' = [tr EXCEPT ![t].pc = IF Len(graph[t]) = 1 THEN "sleep" ELSE @]
    /\ UNCHANGED <<fifoVars, lock>> /\ Rest

-----------------------------------------------------------------------------
(* Reclaim of a node: btree_node_reclaim() locks it without a path, it loses   *)
(* its identity, and its waiters are woken.  The lock may stay taken for long. *)

ReclaimLock(n) ==
    /\ rc.pc = "idle" /\ n \in use.reclaim
    /\ lock[n] = [read |-> {}, intent |-> None, write |-> None]
    /\ lock' = [lock EXCEPT ![n].intent = Reclaim, ![n].write = Reclaim]
    /\ rc' = [pc |-> "locked", node |-> n]
    /\ UNCHANGED <<fifoVars, use, tr, graph, gone, clock, bug>>

(* bch2_btree_node_transition_state_locked() *)
ReclaimClear ==
    /\ rc.pc = "locked"
    /\ gone' = gone \cup {rc.node}
    /\ rc' = [rc EXCEPT !.pc = "cleared"]
    /\ UNCHANGED <<fifoVars, use, lock, tr, graph, clock, bug>>

(* six_lock_wakeup_all(); nobody can have the lock, which is held. *)
ReclaimWake ==
    /\ rc.pc = "cleared"
    /\ tr' = [t \in Trans |-> IF t \in on[rc.node] THEN [tr[t] EXCEPT !.woken = TRUE] ELSE tr[t]]
    /\ rc' = [rc EXCEPT !.pc = "done"]
    /\ UNCHANGED <<fifoVars, use, lock, graph, gone, clock, bug>>

-----------------------------------------------------------------------------
Init ==
    /\ FifoInit
    /\ use \in Uses
    /\ lock = [n \in Locks |-> [read |-> {}, intent |-> None, write |-> None]]
    /\ tr = [t \in Trans |->
               [pc |-> "idle", at |-> 1, again |-> {}, held |-> [i \in 1 .. Len(use.paths[t]) |-> "none"],
                locking |-> None, nofail |-> FALSE, must_abort |-> FALSE, restarted |-> FALSE,
                reused |-> FALSE, acquired |-> FALSE, woken |-> FALSE, start |-> 0, begun |-> 0]]
    /\ graph = [t \in Trans |-> <<>>]
    /\ gone = {} /\ rc = [pc |-> "idle", node |-> 0]
    /\ clock = 0 /\ bug = FALSE

Step(t) ==
    \/ Skip(t) \/ TryLock(t) \/ Contend(t) \/ SlowGet(t) \/ Wait(t) \/ LoopGot(t) \/ LoopCheck(t) \/ Wakes(t)
    \/ Abort(t) \/ Undo(t) \/ Finish(t) \/ Unlock(t) \/ Unlocked(t)
    \/ Descend(t) \/ Scan(t) \/ ScanRaced(t) \/ ScanSlot(t) \/ ScanFails(t) \/ ScanEnd(t) \/ Up(t)

Reclaims == ReclaimClear \/ ReclaimWake

Next ==
    \/ \E t \in Trans : Begin(t) \/ Step(t)
    \/ \E n \in Locks : ReclaimLock(n)
    \/ Reclaims

Spec == Init /\ [][Next]_vars

(* A task that is awake runs, a node that is being reclaimed is reclaimed. *)
FairSpec == Spec /\ (\A t \in Trans : WF_vars(Step(t))) /\ WF_vars(Reclaims)

-----------------------------------------------------------------------------
(* Properties *)

(* t sleeps, and nobody has called wake_up_process() since it looked. *)
Asleep(t) == tr[t].pc \in {"sleep", "unsure"} /\ ~tr[t].woken

(* The lock of u is in the way of the one t wants. *)
Blocks(u, t) ==
    LET h == lock[tr[t].locking]
    IN  CASE Want(t) = "read"   -> h.write = u
          [] Want(t) = "intent" -> h.intent = u
          [] Want(t) = "write"  -> u \in h.read

(* Nobody sleeps for good: no transactions wait for each other in a circle     *)
(* with all of them asleep, though each may look while the others move on      *)
(* (bch2_six_check_for_deadlock: "The cycle must be caught on the spot").      *)
(* The exception is a walk that bch2_check_for_deadlock() gives up because it  *)
(* meets a path that is just being changed: a circle that goes through the one *)
(* who made it may be missed.  And nobody is parked on a node that has become  *)
(* another one, whose lock may be held by a thread the detector cannot see.    *)
NoOneStuck ==
    /\ \A S \in SUBSET {t \in Trans : Asleep(t) /\ tr[t].pc # "unsure"} :
          S # {} => \E t \in S : \A u \in S : ~Blocks(u, t)
    /\ \A t \in Trans :
          Asleep(t) /\ ~Writes(t) /\ tr[t].locking \in gone => rc.pc = "cleared"

(* A lock that may not fail is had in the end, if not all in a circle are such *)
(* (break_cycle_fail): its transaction is not picked as the one to abort, and  *)
(* nothing else makes it give up (BUG_ON in btree_node_lock_nopath) but a walk *)
(* that stops in the middle as there is no memory for it                       *)
(* (waitlist_alloc_failed does not ask whether the lock may fail).             *)
NofailHolds ==
    /\ ~bug
    /\ \A t \in Trans : tr[t].nofail /\ tr[t].pc \in {"abort", "undo"} => graph[t] # <<>>

(* Every transaction ends, however often it is restarted: the oldest is never  *)
(* aborted for younger ones (btree_trans_abort_preference, trans_start_time),  *)
(* so that of the transactions that begin none is left in the end.  The        *)
(* exceptions are those of NoOneStuck and NofailHolds: somebody sleeps after a *)
(* walk that was given up, or has met the BUG_ON().                            *)
TransactionsEnd ==
    <>[](\/ \A t \in Trans : tr[t].pc = "idle"
         \/ \E u \in Trans : tr[u].pc \in {"unsure", "bug"})
=============================================================================
