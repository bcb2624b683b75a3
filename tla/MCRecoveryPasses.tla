------------------------- MODULE MCRecoveryPasses -------------------------
(***************************************************************************)
(* RecoveryPasses for TLC, on nine passes of the table in                  *)
(* fs/init/passes_format.rs with their flags and dependencies:             *)
(*   1 scan_for_btree_nodes   2 check_topology         3 check_allocations *)
(*   4 set_may_go_rw          5 check_alloc_info                           *)
(*   6 check_snapshot_trees   7 check_snapshots                            *)
(*   8 delete_dead_snapshots  9 check_inodes                               *)
(***************************************************************************)
EXTENDS RecoveryPasses

MCTable ==
  << [when |-> {"ephemeral"}, depends |-> {}],
     [when |-> {}, depends |-> {1}],
     [when |-> {"fsck", "alloc"}, depends |-> {2}],
     [when |-> {"always"}, depends |-> {3}],
     [when |-> {"online", "fsck", "alloc"}, depends |-> {3}],
     [when |-> {"online", "fsck"}, depends |-> {}],
     [when |-> {"always", "online", "fsck", "nodefer"}, depends |-> {6}],
     [when |-> {"online", "fsck"}, depends |-> {7}],
     [when |-> {"fsck"}, depends |-> {7, 8}] >>

Ask(p) == [pass |-> p, ephemeral |-> FALSE, ratelimit |-> FALSE, limited |-> FALSE]

AskEphemeral(p) == [Ask(p) EXCEPT !.ephemeral = TRUE]

AskPaced(p) == {[Ask(p) EXCEPT !.ratelimit = TRUE, !.limited = b] : b \in BOOLEAN}

Plain == [fsck |-> FALSE, clean |-> TRUE, skip |-> FALSE, nochanges |-> FALSE,
          noalloc |-> FALSE, last |-> 0, explicit |-> {}, exclude |-> {}, required |-> {},
          requests |-> {}, fails |-> {}, events |-> {"remount"}]

\* Damage found early in a mount: rewinds across set_may_go_rw.
Early == [Plain EXCEPT !.requests = {Ask(1), Ask(2)}, !.fails = {2}]

\* Damage found by online runs and while they run, in online passes ...
Live == {[Plain EXCEPT !.requests = {Ask(5), Ask(8)}, !.fails = {8}, !.events = {e}] :
           e \in {"fsck", "remount"}}

\* ... and in a pass that only a mount may run.
LiveOffline == [Plain EXCEPT !.requests = {Ask(8), Ask(9)}, !.required = {8, 9},
                             !.events = {"fsck", "sysfs"}]

\* A trigger schedules delete_dead_snapshots from a transaction commit, also while
\* the mount records what it puts off.
Trigger == [Plain EXCEPT !.requests = {AskEphemeral(8), Ask(9)}, !.explicit = {8},
                         !.required = {6}]

\* Self healing, rate limited.
Paced == [Plain EXCEPT !.requests = AskPaced(5) \cup {Ask(5)}, !.fails = {5},
                       !.events = {"error", "remount"}]

\* Fsck at mount, with failing passes and journal errors.
FsckMount == [Plain EXCEPT !.fsck = TRUE, !.noalloc = TRUE, !.requests = {Ask(8), Ask(9)},
                           !.required = {3, 5, 9}, !.fails = {9},
                           !.events = {"remount", "flush_error", "fsck"}]

\* Mounts that run less than is asked for.
Inspect == {[Plain EXCEPT !.skip = TRUE, !.requests = {Ask(8), Ask(9)}, !.required = {9}],
            [Plain EXCEPT !.last = 8, !.requests = {Ask(9), Ask(8)}, !.nochanges = TRUE],
            [Plain EXCEPT !.exclude = {4, 8}, !.requests = {Ask(9), Ask(8)}, !.clean = FALSE]}

MCUses == {Early, LiveOffline, Trigger, Paced, FsckMount} \cup Live \cup Inspect
=============================================================================
