----------------------------- MODULE MCNocowLock -----------------------------
(* Instances of NocowLock for model checking. *)
EXTENDS NocowLock, TLC

CONSTANTS b1, b2, b3, b4, b5, e1, e2, e3, w1, w2, m1, m2

(* The buckets in two chains: b1 and b5 in one, the others in the other. *)
Chained == (b1 :> 0) @@ (b2 :> 1) @@ (b3 :> 1) @@ (b4 :> 1) @@ (b5 :> 0)

(* ts: the tasks; p: the buckets of e1, e2 and e3; x: those of others; w, m and
   c: the extents written in place, moved and written elsewhere; nw and nm: how
   many writes and moves; o: what else is so. *)
Use(ts, p, x, w, m, c, nw, nm, o) ==
    [tasks |-> ts, taken |-> x, open |-> {}, hash |-> Chained,
     ptrs |-> (e1 :> p[1]) @@ (e2 :> p[2]) @@ (e3 :> p[3]),
     limit |-> IF "limit" \in o THEN 1 ELSE 3, writes |-> w, moves |-> m, cow |-> c,
     maxWrites |-> nw, maxMoves |-> nm, kinds |-> Kinds \intersect o,
     reuse |-> "reuse" \in o, invalidate |-> "invalidate" \in o,
     noMem |-> "noMem" \in o]

(* an extent that is written and moved out of a bucket that holds another *)
SharedUses ==
    { Use({w1, m1}, << <<b1>>, <<b1>>, <<b2>> >>, {}, {e1}, {e1}, {}, 1, 1, {"copygc"}) }

SafeUses ==
    SharedUses \union
    { (* a bucket shared by an extent that is written and ones that are moved *)
      Use({w1, m1, m2}, << <<b1>>, <<b1>>, <<b1>> >>, {b2, b3}, {e1}, {e2, e3}, {}, 1, 2, {"reconcile"}),
      Use({w1, w2}, << <<b1>>, <<b1>>, <<b2>> >>, {}, {e1, e2}, {}, {}, 3, 0, {"limit"}),
      (* an extent that is written and moved, alone in its buckets *)
      Use({w1, m1}, << <<b1>>, <<b2>>, <<b2>> >>, {b3, b4}, {e1}, {e1}, {}, 2, 2, {"copygc", "reuse"}),
      Use({w1, m1}, << <<b1, b2>>, <<b3>>, <<b3>> >>, {b4}, {e1}, {e1}, {}, 2, 1, {"copygc", "reuse"}),
      (* the same, and its bucket is open at first *)
      [Use({w1, m1}, << <<b1>>, <<b2>>, <<b2>> >>, {b3, b4}, {e1}, {e1}, {}, 2, 1, {"copygc", "reuse"})
          EXCEPT !.open = {b1}],
      (* promotes of other extents and of the one that is written *)
      Use({w1, m1}, << <<b1>>, <<b1>>, <<b2>> >>, {b4}, {e1}, {e2, e3}, {}, 2, 2, {"promote"}),
      Use({w1, m1}, << <<b1>>, <<b2>>, <<b2>> >>, {b3, b4}, {e1}, {e1}, {}, 3, 1,
          {"promote", "reuse", "invalidate"}),
      (* moves of one extent beside each other *)
      Use({w1, m1, m2}, << <<b1>>, <<b2>>, <<b2>> >>, {b4}, {e1}, {e1}, {}, 1, 2, {"copygc", "promote"}),
      Use({m1, m2}, << <<b1>>, <<b2>>, <<b2>> >>, {b4}, {}, {e1}, {e1}, 1, 2, {"reconcile", "reuse", "noMem"}),
      (* replicas in two buckets, in one order and in the other *)
      Use({w1, w2, m1}, << <<b1, b2>>, <<b2, b1>>, <<b1>> >>, {b3, b5}, {e1, e3}, {e2}, {}, 2, 1, {"copygc"}),
      (* the same, and the two are in one chain *)
      Use({w1, m1}, << <<b2, b3>>, <<b3, b2>>, <<b1>> >>, {b5}, {e1}, {e2}, {}, 1, 1, {"copygc"}),
      (* a chain without a free slot *)
      Use({w1, w2, m1}, << <<b1, b2>>, <<b3>>, <<b4>> >>, {}, {e1, e2}, {e3}, {}, 2, 1, {"reconcile"}),
      (* an extent that is moved and written elsewhere *)
      Use({m1}, << <<b1>>, <<b1>>, <<b2>> >>, {b5}, {}, {e1}, {e1}, 2, 2, {"copygc", "reuse"}),
      Use({w1, m1}, << <<b1>>, <<b2>>, <<b1>> >>, {b5}, {e3}, {e1}, {e1, e3}, 3, 1, {"copygc"}) }
=============================================================================
