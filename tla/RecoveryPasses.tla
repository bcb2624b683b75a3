--------------------------- MODULE RecoveryPasses ---------------------------
(***************************************************************************)
(* The recovery pass runner of fs/init/passes.c: repair passes are run in  *)
(* table order at mount, by the asynchronous worker and by online fsck, at *)
(* most one run at a time (run_lock).  Any code that finds damage requests *)
(* a pass, at any moment: the request is recorded in the superblock or in  *)
(* memory, joins the run in progress, rewinds it, or kicks the worker.     *)
(*                                                                         *)
(* The clock is abstracted: whether the superblock's rate limit applies to *)
(* a request is the caller's "limited", and a failing pass's backoff ends  *)
(* at any moment (BackoffExpires).                                         *)
(***************************************************************************)
EXTENDS Naturals, FiniteSets, FiniteSetsExt

CONSTANTS Table,        \* the pass table: [when, depends] for pass 1..n
          SetMayGoRw,   \* the pass set_may_go_rw
          Uses          \* the mounts considered, see UseType

Pass == DOMAIN Table

PassFlags == {"online", "always", "unclean", "fsck", "alloc", "nodefer", "ephemeral"}

ASSUME TableAssumption ==
  /\ IsFiniteSet(Pass) /\ Pass = 1 .. Cardinality(Pass)
  /\ \A p \in Pass : /\ Table[p].when \subseteq PassFlags
                     /\ Table[p].depends \subseteq Pass
                     /\ \A d \in Table[p].depends : d < p
  /\ SetMayGoRw \in Pass

\* A call of run_explicit_recovery_pass: the pass, its flags, and whether the
\* superblock's rate limit applies at that time.
Request == [pass : Pass, ephemeral : BOOLEAN, ratelimit : BOOLEAN, limited : BOOLEAN]

\* Mount options, the superblock found, and what may happen to this mount.
UseType == [fsck : BOOLEAN, clean : BOOLEAN, skip : BOOLEAN, nochanges : BOOLEAN,
            noalloc : BOOLEAN, last : Pass \cup {0}, explicit : SUBSET Pass,
            exclude : SUBSET Pass, required : SUBSET Pass,
            requests : SUBSET Request, fails : SUBSET Pass,
            events : SUBSET {"fsck", "sysfs", "remount", "error", "flush_error"}]

ASSUME UsesAssumption == Uses \subseteq UseType

VARIABLES use,      \* the mount being considered
          sb,       \* c->sb.recovery_passes_required
          r,        \* struct bch_fs_recovery
          flags,    \* c->flags
          run,      \* the holder of run_lock and where its pass loop is
          queued,   \* recovery.work is pending
          mount,    \* where bch2_fs_start() is
          hist      \* what the properties remember

vars == <<use, sb, r, flags, run, queued, mount, hist>>

-----------------------------------------------------------------------------
(* The pass table *)

Match(flag) == {p \in Pass : flag \in Table[p].when}

Online == Match("online")

\* Never recorded in the superblock: scan_for_btree_nodes.
Persistent == Pass \ Match("ephemeral")

Closed(S) == \A p \in Pass : Table[p].depends \cap S # {} => p \in S

\* The passes that depend on p, transitively, and p.
PassDependents ==
  [p \in Pass |-> {q \in Pass : \A S \in SUBSET Pass : p \in S /\ Closed(S) => q \in S}]

ShouldDefer(p, passes) == (passes \cap PassDependents[p]) \cup {p} \subseteq Online

-----------------------------------------------------------------------------
(* bch2_run_explicit_recovery_pass() *)

\* Mutant of MayRunNow: a request made mid-run is run whatever it is.
MayRunAlways(p) == p \in Pass

MayRunNow(p) == ~flags.started \/ p \in Online

NeedsRewind(p) == flags.running /\ r.current > p /\ p \notin r.attempted

Limited(q) == q.ratelimit /\ q.limited

NeedsSet(q) ==
  LET already == IF ~flags.in_recovery \/ q.pass \in Persistent THEN sb ELSE r.passes
  IN  \/ q.pass \notin already
      \/ ~Limited(q) /\ q.pass \in r.limiting
      \/ NeedsRewind(q.pass)

Recorded(q) == ~q.ephemeral /\ q.pass \in Persistent

RunNow(q) ==
  /\ flags.running
  /\ ~Limited(q)
  /\ MayRunNow(q.pass)
  /\ IF NeedsRewind(q.pass)
     THEN ~q.ephemeral
     ELSE ~ShouldDefer(q.pass, r.passes) /\ q.pass \notin r.attempted

\* Recorded, but not run: the mount skips scheduled passes, or it is too late.
Refused(q) == use.skip \/ (q.pass < SetMayGoRw /\ flags.may_go_rw)

\* The part of bch_fs_recovery a request leaves behind once it is recorded.
Scheduled(q) ==
  LET p == q.pass
      noted == IF Recorded(q) THEN r ELSE [r EXCEPT !.ephemeral = @ \cup {p}]
      paced == IF Limited(q)
               THEN [noted EXCEPT !.limiting = @ \cup {p}]
               ELSE [noted EXCEPT !.limiting = @ \ {p}, !.backoff = @ \ {p}]
  IN  IF Refused(q) THEN noted
      ELSE IF ~RunNow(q) THEN paced
      ELSE [paced EXCEPT !.passes = @ \cup {p},
                         !.rewound = IF ~NeedsRewind(p) THEN @
                                     ELSE IF @ = 0 THEN p ELSE Min({@, p})]

CanKick == ~use.nochanges /\ flags.rw

\* The request goes to the worker instead of the run in progress.
Kicks(q) ==
  /\ ~Refused(q) /\ ~RunNow(q) /\ ~Limited(q)
  /\ q.pass \in Online
  /\ CanKick

\* The pass is running, or its completion is about to be recorded.
Underway(p) == run.pc \in {"pass", "complete"} /\ r.current = p

\* What is owed after a request: dropped are the ones made for a pass while it runs.
Asked(q) ==
  LET p == q.pass IN
  IF Recorded(q)
  THEN [hist EXCEPT !.owed = @ \cup {p}, !.unflushed = @ \ {p},
                    !.dropped = IF Underway(p) THEN @ \cup {p} ELSE @ \ {p}]
  ELSE IF NeedsSet(q) /\ mount.pc # "store" THEN [hist EXCEPT !.put = @ \cup {p}]
  ELSE hist

Mounted == mount.pc \notin {"down", "failed"}

\* Mutant of RunExplicit: a mount that skips scheduled passes records nothing.
RunExplicitSkipFirst(q) ==
  /\ Mounted /\ q \in use.requests
  /\ q.pass \notin use.exclude
  /\ hist' = Asked(q)
  /\ IF NeedsSet(q) /\ ~use.skip
     THEN /\ sb' = IF Recorded(q) THEN sb \cup {q.pass} ELSE sb
          /\ r' = Scheduled(q)
          /\ queued' = (queued \/ Kicks(q))
     ELSE UNCHANGED <<sb, r, queued>>
  /\ UNCHANGED <<use, flags, run, mount>>

\* One critical section of sb_lock and recovery.lock.
RunExplicit(q) ==
  /\ Mounted /\ q \in use.requests
  /\ q.pass \notin use.exclude
  /\ hist' = Asked(q)
  /\ IF NeedsSet(q)
     THEN /\ sb' = IF Recorded(q) THEN sb \cup {q.pass} ELSE sb
          /\ r' = Scheduled(q)
          /\ queued' = (queued \/ Kicks(q))
     ELSE UNCHANGED <<sb, r, queued>>
  /\ UNCHANGED <<use, flags, run, mount>>

\* bch2_require_recovery_pass(): no request when the pass ran in this run or
\* recently; its caller gets restart_recovery or recovery_pass_will_run.
Require(p) ==
  /\ ~(flags.running /\ p \in r.complete)
  /\ RunExplicit([pass |-> p, ephemeral |-> FALSE, ratelimit |-> FALSE, limited |-> FALSE])

-----------------------------------------------------------------------------
(* bch2_run_recovery_passes() *)

InLoop == run.pc \in {"pass", "complete", "flush", "failed"}

NoRun == [who |-> "none", pc |-> "none", orig |-> {}, scheduled |-> {}, failed |-> FALSE]

\* The end of the loop, or its next pass: current_passes in table order.
Dispatch(rec, scheduled, failed, h) ==
  IF rec.passes = {} \/ (failed /\ run.who # "async")
  THEN /\ r' = [rec EXCEPT !.current = 0]
       /\ run' = [run EXCEPT !.pc = "end", !.failed = failed, !.scheduled = scheduled]
       /\ hist' = h
  ELSE LET p == Min(rec.passes)
       IN  /\ r' = [rec EXCEPT !.current = p,
                               !.passes = @ \ {p},
                               !.ephemeral = @ \ {p},
                               !.attempted = @ \cup {p}]
           /\ run' = [run EXCEPT !.pc = "pass", !.failed = failed,
                                 !.scheduled = scheduled \cup rec.passes]
           /\ hist' = [h EXCEPT !.put = @ \ {p},
                                !.stale = (@ \cup (rec.attempted \cap PassDependents[p])) \ {p}]

SetRunning ==
  /\ run.pc = "flag"
  /\ run' = [run EXCEPT !.pc = "begin",
                        !.orig = IF run.who = "async"
                                 THEN ((@ \cup r.ephemeral) \ r.limiting) \cap Online
                                 ELSE @]
  /\ flags' = [flags EXCEPT !.running = TRUE]
  /\ hist' = [hist EXCEPT !.stale = {}]
  /\ UNCHANGED <<use, sb, r, queued, mount>>

\* Outside fsck, a pass that failed is left alone until its backoff is over.
Begin ==
  LET orig == (run.orig \ (IF use.noalloc THEN Match("alloc") ELSE {}))
              \ (IF flags.in_fsck THEN {} ELSE r.failing \cap r.backoff)
  IN  /\ run.pc = "begin"
      /\ Dispatch([r EXCEPT !.passes = orig, !.attempted = {}], orig, FALSE, hist)
      /\ UNCHANGED <<use, sb, flags, queued, mount>>

\* set_may_go_rw is the pass that lets everything else write.
GoRw ==
  /\ run.pc = "pass" /\ r.current = SetMayGoRw /\ ~flags.rw
  /\ flags' = [flags EXCEPT !.may_go_rw = TRUE, !.rw = TRUE]
  /\ UNCHANGED <<use, sb, r, run, queued, mount, hist>>

PassSucceeds ==
  /\ run.pc = "pass"
  /\ r.current = SetMayGoRw => flags.rw
  /\ r' = [r EXCEPT !.failing = {}]
  /\ run' = [run EXCEPT !.pc = "complete"]
  /\ UNCHANGED <<use, sb, flags, queued, mount, hist>>

\* Mutant of Restored: the rewind stays armed.
RestoredArmed(scheduled) ==
  [r EXCEPT !.passes = @ \cup {p \in scheduled : p >= r.rewound}]

\* Restore the requested passes from the rewind target on, every one of them.
Restored(scheduled) ==
  [r EXCEPT !.passes = @ \cup {p \in scheduled : p >= r.rewound}, !.rewound = 0]

\* All that was repaired is on disk.
Flushed == [hist EXCEPT !.owed = @ \ hist.unflushed, !.unflushed = {}]

\* Mutant of Settle: only the passes the run began with are restored.
SettleOrig(ok) ==
  LET rewind == r.rewound # 0
  IN  /\ Dispatch(IF rewind THEN Restored(run.orig)
                  ELSE IF ok THEN [r EXCEPT !.complete = @ \cup {r.current}]
                  ELSE r,
                  run.scheduled,
                  run.failed \/ (~rewind /\ ~ok), IF ok THEN Flushed ELSE hist)

\* Mutant of Settle: the run goes on from the rewind target without restoring.
SettleForward(ok) ==
  LET rewind == r.rewound # 0
  IN  /\ Dispatch(IF rewind THEN [r EXCEPT !.rewound = 0]
                  ELSE IF ok THEN [r EXCEPT !.complete = @ \cup {r.current}]
                  ELSE r,
                  run.scheduled,
                  run.failed \/ (~rewind /\ ~ok), IF ok THEN Flushed ELSE hist)

\* What the loop does with the result of a pass and its journal flush.
Settle(ok) ==
  LET rewind == r.rewound # 0
  IN  /\ Dispatch(IF rewind THEN Restored(run.scheduled)
                  ELSE IF ok THEN [r EXCEPT !.complete = @ \cup {r.current}]
                  ELSE r,
                  run.scheduled,
                  run.failed \/ (~rewind /\ ~ok), IF ok THEN Flushed ELSE hist)

\* bch2_sb_recovery_pass_complete(), not done on a filesystem with errors; before
\* the journal is flushed.
PassComplete ==
  /\ run.pc = "complete"
  /\ run' = [run EXCEPT !.pc = "flush"]
  /\ IF flags.error
     THEN UNCHANGED <<sb, hist>>
     ELSE /\ sb' = sb \ {r.current}
          /\ hist' = [hist EXCEPT !.unflushed = @ \cup ({r.current} \ hist.dropped)]
  /\ UNCHANGED <<use, r, flags, queued, mount>>

JournalFlush ==
  /\ run.pc = "flush"
  /\ \E ok \in BOOLEAN : (ok \/ "flush_error" \in use.events) /\ Settle(ok)
  /\ UNCHANGED <<use, sb, flags, queued, mount>>

PassFails ==
  /\ run.pc = "pass" /\ r.current \in use.fails
  /\ r' = [r EXCEPT !.failing = @ \cup {r.current}, !.backoff = @ \cup {r.current}]
  /\ run' = [run EXCEPT !.pc = "failed"]
  /\ UNCHANGED <<use, sb, flags, queued, mount, hist>>

\* The pass got restart_recovery from the request that armed the rewind.
PassRestarts ==
  /\ run.pc = "pass" /\ r.rewound # 0
  /\ run' = [run EXCEPT !.pc = "failed"]
  /\ UNCHANGED <<use, sb, r, flags, queued, mount, hist>>

SettleFailed ==
  /\ run.pc = "failed"
  /\ Settle(FALSE)
  /\ UNCHANGED <<use, sb, flags, queued, mount>>

BackoffExpires(p) ==
  /\ p \in r.backoff
  /\ r' = [r EXCEPT !.backoff = @ \ {p}]
  /\ UNCHANGED <<use, sb, flags, run, queued, mount, hist>>

\* Clearing running_recovery_passes and dropping run_lock.
RunEnds ==
  /\ run.pc = "end"
  /\ run' = NoRun
  /\ flags' = [flags EXCEPT !.running = FALSE,
                            !.in_fsck = @ /\ run.who # "fsck"]
  /\ mount' = IF run.who # "mount" THEN mount
              ELSE [mount EXCEPT !.pc = IF run.failed THEN "failed" ELSE "ran"]
  /\ hist' = [hist EXCEPT !.early = {}]
  /\ UNCHANGED <<use, sb, r, queued>>

-----------------------------------------------------------------------------
(* The asynchronous worker, online fsck and the sysfs trigger *)

WorkBegins ==
  /\ queued /\ run.who = "none"
  /\ queued' = FALSE
  /\ run' = [NoRun EXCEPT !.who = "async", !.pc = "flag", !.orig = sb]
  /\ UNCHANGED <<use, sb, r, flags, mount, hist>>

\* mutex_trylock(run_lock) fails: the kick is spent.
WorkDropped ==
  /\ queued /\ run.who \notin {"none", "async"}
  /\ queued' = FALSE
  /\ UNCHANGED <<use, sb, r, flags, run, mount, hist>>

FsckBegins ==
  /\ "fsck" \in use.events /\ flags.started /\ run.who = "none"
  /\ run' = [NoRun EXCEPT !.who = "fsck", !.pc = "flag", !.orig = Match("fsck") \cap Online]
  /\ flags' = [flags EXCEPT !.in_fsck = TRUE]
  /\ UNCHANGED <<use, sb, r, queued, mount, hist>>

SysfsBegins ==
  /\ "sysfs" \in use.events /\ flags.started /\ run.who = "none"
  /\ run' = [NoRun EXCEPT !.who = "sysfs", !.pc = "held"]
  /\ UNCHANGED <<use, sb, r, flags, queued, mount, hist>>

SysfsEnds ==
  /\ run.pc = "held"
  /\ run' = NoRun
  /\ UNCHANGED <<use, sb, r, flags, queued, mount, hist>>

-----------------------------------------------------------------------------
(* bch2_run_recovery_passes_startup() and the end of bch2_fs_start() *)

Wanted ==
  LET all == Match("always")
             \cup (IF use.clean THEN {} ELSE Match("unclean"))
             \cup (IF use.fsck THEN Match("fsck") ELSE {})
             \cup use.explicit
             \cup (IF use.skip THEN {} ELSE sb)
  IN  {p \in all : /\ use.last # 0 => p <= use.last
                   /\ p \notin use.exclude \ {SetMayGoRw}}

Deferrable(p, passes) ==
  p \in passes \ use.explicit /\ p \notin Match("nodefer") /\ ShouldDefer(p, passes)

\* Passes are taken out in table order, a pass sees those not yet taken out.
Deferred(wanted) ==
  LET taken[n \in 0 .. Cardinality(Pass)] ==
        IF n = 0 THEN {}
        ELSE IF Deferrable(n, wanted \ taken[n-1]) THEN taken[n-1] \cup {n}
        ELSE taken[n-1]
  IN  IF use.fsck THEN {} ELSE wanted \cap taken[Cardinality(Pass)]

Startup ==
  /\ mount.pc = "down" /\ run.who = "none"
  /\ LET defer == Deferred(Wanted)
     IN  /\ mount' = [mount EXCEPT !.pc = "run", !.defer = defer]
         /\ run' = [NoRun EXCEPT !.who = "mount", !.pc = "flag", !.orig = Wanted \ defer]
         /\ hist' = [hist EXCEPT !.due = IF use.skip THEN {} ELSE (sb \cap Wanted) \ Online,
                                 !.put = use.explicit]
  /\ r' = [r EXCEPT !.ephemeral = use.explicit]
  /\ UNCHANGED <<use, sb, flags, queued>>

\* Mutant of DeferLoad: an assignment, without what the mount scheduled meanwhile.
DeferLoadNone ==
  /\ mount.pc = "ran"
  /\ flags' = [flags EXCEPT !.in_recovery = FALSE]
  /\ mount' = [mount EXCEPT !.pc = IF mount.defer = {} THEN "kick" ELSE "store"]
  /\ hist' = [hist EXCEPT !.put = @ \cup mount.defer]
  /\ UNCHANGED <<use, sb, r, run, queued>>

\* scheduled_passes_ephemeral |= defer, without recovery.lock: a load ...
DeferLoad ==
  /\ mount.pc = "ran"
  /\ flags' = [flags EXCEPT !.in_recovery = FALSE]
  /\ mount' = [mount EXCEPT !.pc = IF mount.defer = {} THEN "kick" ELSE "store",
                            !.defer = IF @ = {} THEN {} ELSE @ \cup r.ephemeral]
  /\ hist' = [hist EXCEPT !.put = @ \cup mount.defer]
  /\ UNCHANGED <<use, sb, r, run, queued>>

\* ... and a store.
DeferStore ==
  /\ mount.pc = "store"
  /\ r' = [r EXCEPT !.ephemeral = mount.defer]
  /\ mount' = [mount EXCEPT !.pc = "kick", !.defer = {}]
  /\ UNCHANGED <<use, sb, flags, run, queued, hist>>

StartupKick ==
  /\ mount.pc = "kick"
  /\ queued' = (queued \/ (r.ephemeral # {} /\ CanKick))
  /\ flags' = [flags EXCEPT !.may_go_rw = TRUE, !.in_fsck = FALSE]
  /\ mount' = [mount EXCEPT !.pc = "recovered"]
  /\ UNCHANGED <<use, sb, r, run, hist>>

Started ==
  /\ mount.pc = "recovered"
  /\ flags' = [flags EXCEPT !.started = TRUE, !.rw = TRUE]
  /\ mount' = [mount EXCEPT !.pc = "started"]
  /\ hist' = [hist EXCEPT !.early = IF InLoop THEN ({r.current} \cup r.passes \cup run.scheduled) \ Online
                                              ELSE {}]
  /\ UNCHANGED <<use, sb, r, run, queued>>

FsError ==
  /\ "error" \in use.events /\ Mounted /\ ~flags.error
  /\ flags' = [flags EXCEPT !.error = TRUE]
  /\ UNCHANGED <<use, sb, r, run, queued, mount, hist>>

Fresh ==
  [r |-> [current |-> 0, passes |-> {}, ephemeral |-> {}, attempted |-> {},
          complete |-> {}, limiting |-> {}, failing |-> {}, backoff |-> {}, rewound |-> 0],
   flags |-> [started |-> FALSE, running |-> FALSE, in_recovery |-> TRUE,
              in_fsck |-> use.fsck, may_go_rw |-> FALSE, rw |-> FALSE, error |-> FALSE],
   mount |-> [pc |-> "down", defer |-> {}]]

\* Unmount, a failed mount or a crash, and the next mount: only the superblock stays.
Remount ==
  /\ "remount" \in use.events /\ mount.pc # "down"
  /\ r' = Fresh.r /\ flags' = Fresh.flags /\ mount' = Fresh.mount
  /\ run' = NoRun /\ queued' = FALSE
  /\ hist' = [hist EXCEPT !.early = {}, !.stale = {}, !.due = {}, !.put = {},
                          !.dropped = @ \cup hist.unflushed, !.unflushed = {}]
  /\ UNCHANGED <<use, sb>>

-----------------------------------------------------------------------------
Init ==
  /\ use \in Uses
  /\ sb = use.required
  /\ r = Fresh.r /\ flags = Fresh.flags /\ mount = Fresh.mount
  /\ run = NoRun /\ queued = FALSE
  /\ hist = [early |-> {}, stale |-> {}, due |-> {}, owed |-> use.required, dropped |-> {},
             unflushed |-> {}, put |-> {}]

Loop == \/ SetRunning \/ Begin \/ GoRw \/ PassSucceeds \/ PassFails \/ PassRestarts
        \/ PassComplete \/ JournalFlush \/ SettleFailed \/ RunEnds

MountSteps == Startup \/ DeferLoad \/ DeferStore \/ StartupKick \/ Started

Next ==
  \/ Loop
  \/ MountSteps
  \/ WorkBegins \/ WorkDropped \/ FsckBegins \/ SysfsBegins \/ SysfsEnds
  \/ \E q \in Request : RunExplicit(q)
  \/ \E p \in Pass : Require(p) \/ BackoffExpires(p)
  \/ FsError \/ Remount

Spec == Init /\ [][Next]_vars

\* Every pass returns, and the thread that runs the loop is scheduled.
FairSpec == Spec /\ WF_vars(Loop) /\ WF_vars(MountSteps)

-----------------------------------------------------------------------------
(* Properties *)

RecoveryType ==
  [current : Pass \cup {0}, rewound : Pass \cup {0}, passes : SUBSET Pass,
   ephemeral : SUBSET Pass, attempted : SUBSET Pass, complete : SUBSET Pass,
   limiting : SUBSET Pass, failing : SUBSET Pass, backoff : SUBSET Pass]

FlagsType ==
  [started : BOOLEAN, running : BOOLEAN, in_recovery : BOOLEAN, in_fsck : BOOLEAN,
   may_go_rw : BOOLEAN, rw : BOOLEAN, error : BOOLEAN]

RunType ==
  [who : {"none", "mount", "async", "fsck", "sysfs"},
   pc : {"none", "flag", "begin", "pass", "complete", "flush", "failed", "end", "held"},
   orig : SUBSET Pass, scheduled : SUBSET Pass, failed : BOOLEAN]

MountType ==
  [pc : {"down", "run", "ran", "store", "kick", "recovered", "started", "failed"},
   defer : SUBSET Pass]

HistType ==
  [early : SUBSET Pass, stale : SUBSET Pass, due : SUBSET Pass, owed : SUBSET Pass,
   dropped : SUBSET Pass, unflushed : SUBSET Pass, put : SUBSET Pass]

\* Every variable has its type.
TypeOK ==
  /\ use \in UseType /\ sb \in SUBSET Pass /\ queued \in BOOLEAN
  /\ r \in RecoveryType /\ flags \in FlagsType /\ run \in RunType
  /\ mount \in MountType /\ hist \in HistType

\* A pass that ran before one it depends on is run again in the same run: it is
\* still to come, and a run that ends without an error owes no pass a rerun
\* (bch2_run_recovery_passes: scheduled, rewound_to).
DependentsRerun ==
  /\ InLoop => hist.stale \subseteq r.passes
  /\ run.pc = "end" /\ ~run.failed => hist.stale = {}

\* On a started filesystem online passes run only, whoever asks for others and when
\* (recovery_pass_may_run_now), with one exception: what the run in progress had
\* taken by the time BCH_FS_started is set.  It is the worker's, which
\* bch2_run_recovery_passes_startup() kicks before, and may have offline passes.
OfflineNotOnline == flags.started /\ InLoop => r.current \in Online \cup hist.early

\* A mount that succeeds has run every offline pass the superblock asked for, to
\* completion (bch2_run_recovery_passes_startup).  On a filesystem without
\* allocation info the passes over it are the exception: none is run, and the mount
\* succeeds.
MountRunsRequired ==
  mount.pc \in {"ran", "store", "kick", "recovered"} =>
    hist.due \ (IF use.noalloc THEN Match("alloc") ELSE {}) \subseteq r.complete

\* A pass that is scheduled in memory, put off by the mount or asked for by a
\* trigger, stays scheduled until it is attempted, over runs that fail and kicks
\* that are spent (scheduled_passes_ephemeral).  The exception is a request that
\* comes between the load and the store in bch2_run_recovery_passes_startup().
ScheduledKept == mount.pc # "store" => hist.put \subseteq r.ephemeral

\* A requirement recorded in the superblock stays there until a run of the pass that
\* began after the request has succeeded and its repairs are on disk, over failures,
\* rewinds and remounts (bch2_sb_recovery_pass_complete), with two exceptions: a
\* request for the pass that is running goes when that completes, and the bit is
\* cleared before the journal is flushed, which a crash or an error may prevent.
RequestKept == hist.owed \subseteq sb \cup hist.dropped \cup hist.unflushed

\* A run of the pass loop ends, whatever is requested, fails and rewinds while it
\* runs (recovery_pass_needs_rewind, passes_attempted).
RunTerminates == run.who \in {"mount", "async", "fsck"} ~> run.who \in {"none", "sysfs"}
=============================================================================
