---------------------------- MODULE MCWriteBuffer ----------------------------
(* Instances of WriteBuffer for model checking. *)
EXTENDS WriteBuffer, TLC

CONSTANTS p1, p2

Use(a, p, n, s, c, ev) ==
    [accounting |-> a, replayed |-> ~a, pos |-> p, updates |-> n, seqs |-> s,
     cap |-> c, events |-> ev]

SafeUses ==
    { (* a flush waits while entries are written; it is called again *)
      Use(FALSE, {p1}, 2, 2, 1, {"sync"}),
      Use(FALSE, {p1}, 2, 1, 1, {"sync", "resync", "try", "deadlock"}),
      (* keys of one position in several entries, and of two positions *)
      Use(FALSE, {p1}, 2, 3, 1, {"reclaim", "node", "deadlock"}),
      Use(FALSE, {p1}, 3, 2, 1, {"reclaim", "node", "deadlock", "noop"}),
      Use(FALSE, Pos, 2, 2, 1, {"try", "node", "deadlock"}),
      (* deltas, some before accounting has been replayed *)
      Use(TRUE, {p1}, 2, 1, 1, {"sync", "node"}),
      Use(TRUE, {p1}, 2, 3, 1, {"reclaim", "node"}),
      Use(TRUE, Pos, 3, 1, 1, {"reclaim", "node", "deadlock"}),
      (* errors of the btree; no memory for inc, after a fall back to it as well *)
      Use(FALSE, {p1}, 3, 2, 1, {"reclaim", "node", "ioerr"}),
      Use(FALSE, {p1}, 2, 1, 1, {"sync", "ioerr"}),
      Use(FALSE, {p1}, 2, 1, 2, {"sync", "nomem"}),
      Use(FALSE, {p1}, 2, 1, 1, {"sync", "nomem"}) }

=============================================================================
