----------------------------- MODULE MCJournal -----------------------------
(***************************************************************************)
(* Small instances of the journal.  View hides the locals of a task that    *)
(* its control state no longer reads, and the buffers of the FIFO slots     *)
(* that no entry occupies (they are cleared when an entry opens in them).   *)
(***************************************************************************)
EXTENDS Journal, TLC

CONSTANTS t1, t2, n1, k1

TwoTasks == {t1, t2}
OneNode  == {n1}
OneKey   == {k1}
HomeOf   == [k \in Keys |-> n1]

(* What t1 and t2 call, what else happens, and how many entries there are. *)
Use(c1, c2, events, limit) ==
    [calls |-> t1 :> c1 @@ t2 :> c2, events |-> events, items |-> {n1}, limit |-> limit]

Commits  == Use({"commit"}, {"flush"}, {"node"}, 3)
Cached   == [Use({"commit", "rejournal"}, {}, {"node", "key"}, 3) EXCEPT !.items = {n1, k1}]
Promises == Use({"commit", "noflush"}, {"flush"}, {"reclaim"}, 3)
Blocks   == Use({"meta"}, {"flush"}, {"block", "quiesce"}, 3)
Flushes  == Use({"meta"}, {"flush"}, {"timer", "full"}, 3)
Metas    == Use({"meta"}, {"meta"}, {"timer", "full"}, 4)
Faults   == Use({"meta"}, {"meta"}, {"fault"}, 3)
Failures == Use({"meta"}, {"flush"}, {"fault"}, 2)
Losses   == Use({"commit"}, {"flush"}, {"fault", "halt"}, 2)
Pairs    == Use({"commit"}, {"commit"}, {}, 3)
Timer    == Use({"autocommit"}, {"flush", "meta"}, {}, 3)

SafeUses == {Commits, Cached, Promises, Blocks, Flushes, Metas, Faults, Failures, Losses, Pairs}
LiveUses == {Timer, [Timer EXCEPT !.events = {"fault"}, !.limit = 2]}
HaltUses == {[Losses EXCEPT !.events = {"halt"}]}

InFlight(b) == \E s \in Front(j) .. j.seq : Slot(s) = b

Live(x, labels) == [t \in Tasks |-> IF pc[t] \in labels THEN x[t] ELSE 0]

View ==
    LET walking == {"walk", "metawalk", "noflush"} IN
    <<use, [j EXCEPT !.buf = [b \in DOMAIN @ |-> IF InFlight(b) THEN @[b] ELSE NewBuf]],
      jlock, jset, pre, ref, cleanSeq, u, cov, pinned, wpin, pc,
      Live(rs, HoldsItem \cup {"put", "final", "metawalk", "metakick",
                               "metakicking", "metaput", "metafinal"}),
      [t \in Tasks |-> pc[t] \in HoldsItem /\ item[t] \in Nodes],
      Live(target, walking \cup {"kick", "kicking", "errcheck", "wait", "metakick",
                                 "metakicking", "metaput", "metafinal", "metawait"}),
      Live(pos, walking),
      Live(loc, {"kick", "kicking", "errcheck"}),
      [t \in Tasks |-> pc[t] = "wait" /\ ret[t]],
      acked, vouched>>
=============================================================================
