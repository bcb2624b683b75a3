----------------------- MODULE RecoveryPassesProofs -----------------------
(***************************************************************************)
(* Proofs about RecoveryPasses, for every pass table and every use of it.  *)
(*                                                                         *)
(* The invariant behind DependentsRerun is about the pass loop's bitmaps:  *)
(* while a pass runs, whatever has been attempted beyond it is to come     *)
(* again, and whatever is to come lies beyond it or beyond an armed        *)
(* rewind.                                                                 *)
(***************************************************************************)
EXTENDS RecoveryPasses, FiniteSetTheorems, WellFoundedInduction, TLAPS

\* Outside a pass nothing is current and no rewind is armed.
IdleInv == ~InLoop => r.current = 0 /\ r.rewound = 0

\* The bitmaps of the pass loop while a pass runs.
LoopInv ==
  InLoop =>
    /\ r.current \in r.attempted
    /\ r.attempted \subseteq run.scheduled
    /\ r.rewound # 0 => r.rewound \in r.passes /\ r.rewound < r.current
    /\ \A p \in r.passes : p > r.current \/ (r.rewound # 0 /\ r.rewound <= p)
    /\ \A p \in r.attempted : p > r.current => p \in r.passes

\* DependentsRerun, with the start of a run.
StaleInv ==
  /\ DependentsRerun
  /\ run.pc = "begin" => hist.stale = {}

\* Who runs what: only the mount's own run has offline passes to begin with.
WhoInv ==
  /\ flags.started => mount.pc = "started"
  /\ run.who = "mount" => mount.pc = "run"
  /\ run.pc \notin {"none", "held"} => run.who \in {"mount", "async", "fsck"}
  /\ run.pc = "flag" /\ run.who = "fsck" => run.orig \subseteq Online
  /\ run.pc = "begin" /\ run.who # "mount" => run.orig \subseteq Online

\* On a started filesystem a run has online passes only, and those it had already,
\* also among the ones still to come and the ones a rewind restores.
LiveInv ==
  flags.started /\ InLoop =>
    /\ r.passes \subseteq Online \cup hist.early
    /\ run.scheduled \subseteq Online \cup hist.early
    /\ r.current \in Online \cup hist.early

\* ScheduledKept, with the mount between its load and its store.
PutInv ==
  /\ ScheduledKept
  /\ mount.pc = "store" => hist.put \subseteq mount.defer

IInv == /\ TypeOK /\ IdleInv /\ LoopInv /\ StaleInv /\ WhoInv /\ LiveInv
        /\ RequestKept /\ PutInv

-----------------------------------------------------------------------------
(* The operators *)

\* Passes are numbered from 1 on (enum bch_recovery_pass; 0 is "none" here).
LEMMA PassNumbers == Pass \subseteq Nat \ {0}
<1>1. Cardinality(Pass) \in Nat
  BY TableAssumption, FS_CardinalityType
<1> QED
  BY <1>1, TableAssumption

\* __ffs64(): the pass loop takes the least of a nonempty bitmap.
LEMMA LeastExists ==
    ASSUME NEW S \in SUBSET Nat, S # {}
    PROVE  Min(S) \in S /\ \A y \in S : Min(S) <= y
<1> DEFINE R == {ss \in Nat \X Nat : ss[1] < ss[2]}
<1>1. IsWellFoundedOn(R, Nat)
  BY NatLessThanWellFounded, Zenon DEF OpToRel
<1> HIDE DEF R
<1>2. \E x \in S : \A y \in S : ~(<<y, x>> \in R)
  BY <1>1, WFMin, Zenon
<1>3. \E x \in S : \A y \in S : x <= y
  <2>1. PICK x \in S : \A y \in S : ~(<<y, x>> \in R)
    BY <1>2
  <2>2. ASSUME NEW y \in S PROVE x <= y
    <3>1. <<y, x>> \in Nat \X Nat /\ <<y, x>>[1] = y /\ <<y, x>>[2] = x
      OBVIOUS
    <3>2. ~(y < x)
      BY <2>1, <3>1 DEF R
    <3> QED
      BY <3>2
  <2> QED
    BY <2>2
<1> QED
  BY <1>3 DEF Min

\* rewound_to keeps the smaller of two rewind targets.
LEMMA MinPair ==
  ASSUME NEW a \in Nat, NEW b \in Nat
  PROVE  Min({a, b}) \in {a, b} /\ Min({a, b}) <= a /\ Min({a, b}) <= b
BY LeastExists, {a, b} \in SUBSET Nat, {a, b} # {}

\* recovery_pass_dependents: no dependent comes earlier in the table.
LEMMA DependentsLater ==
  ASSUME NEW p \in Pass, NEW q \in PassDependents[p]
  PROVE  q \in Pass /\ q >= p
<1> DEFINE S == {x \in Pass : x >= p}
<1>1. Closed(S)
  <2> SUFFICES ASSUME NEW x \in Pass, NEW d \in Table[x].depends, d \in S
               PROVE  x \in S
    BY DEF Closed
  <2>1. d < x /\ d >= p
    BY TableAssumption
  <2>2. x \in Nat /\ d \in Nat /\ p \in Nat
    BY PassNumbers, TableAssumption
  <2> QED
    BY <2>1, <2>2
<1>2. p \in S
  BY PassNumbers
<1>3. q \in Pass /\ \A T \in SUBSET Pass : p \in T /\ Closed(T) => q \in T
  BY DEF PassDependents
<1>4. q \in S
  BY <1>1, <1>2, <1>3
<1> QED
  BY <1>4, <1>3

\* What a request may change in the run in progress: nothing, a pass that is added,
\* or a pass that is added and rewound to (bch2_run_explicit_recovery_pass).
LEMMA ScheduledEffect ==
  ASSUME TypeOK, NEW q \in Request
  PROVE  /\ Scheduled(q) \in RecoveryType
         /\ Scheduled(q).current = r.current
         /\ Scheduled(q).attempted = r.attempted
         /\ r.ephemeral \subseteq Scheduled(q).ephemeral
         /\ ~Recorded(q) => q.pass \in Scheduled(q).ephemeral
         /\ \/ /\ Scheduled(q).passes = r.passes
               /\ Scheduled(q).rewound = r.rewound
            \/ /\ MayRunNow(q.pass)
               /\ Scheduled(q).passes = r.passes \cup {q.pass}
               /\ \/ /\ ~NeedsRewind(q.pass) /\ q.pass \notin r.attempted /\ flags.running
                     /\ Scheduled(q).rewound = r.rewound
                  \/ /\ NeedsRewind(q.pass)
                     /\ Scheduled(q).rewound =
                          IF r.rewound = 0 THEN q.pass ELSE Min({r.rewound, q.pass})
<1> DEFINE p == q.pass
           noted == IF Recorded(q) THEN r ELSE [r EXCEPT !.ephemeral = @ \cup {p}]
           paced == IF Limited(q)
                    THEN [noted EXCEPT !.limiting = @ \cup {p}]
                    ELSE [noted EXCEPT !.limiting = @ \ {p}, !.backoff = @ \ {p}]
           Kept(x) == r.ephemeral \subseteq x.ephemeral /\ (~Recorded(q) => p \in x.ephemeral)
           Same(x) == /\ x \in RecoveryType /\ Kept(x)
                      /\ x.current = r.current /\ x.attempted = r.attempted
                      /\ x.passes = r.passes /\ x.rewound = r.rewound
<1>1. p \in Pass /\ r \in RecoveryType
  BY DEF Request, TypeOK
<1>2. Same(noted)
  BY <1>1 DEF RecoveryType
<1> HIDE DEF noted
<1>3. Same(paced)
  BY <1>1, <1>2 DEF RecoveryType
<1> HIDE DEF paced
<1>4. CASE Refused(q)
  <2>1. Scheduled(q) = noted
    BY <1>4 DEF Scheduled, noted
  <2> QED
    BY <2>1, <1>2
<1>5. CASE ~Refused(q) /\ RunNow(q) /\ NeedsRewind(p)
  <2> DEFINE w == IF r.rewound = 0 THEN p ELSE Min({r.rewound, p})
  <2>1. Scheduled(q) = [paced EXCEPT !.passes = @ \cup {p},
                                     !.rewound = IF @ = 0 THEN p ELSE Min({@, p})]
    BY <1>5 DEF Scheduled, paced, noted
  <2>2. w \in Pass
    <3>1. CASE r.rewound = 0
      BY <3>1, <1>1
    <3>2. CASE r.rewound # 0
      <4>1. r.rewound \in Pass
        BY <3>2, <1>1 DEF RecoveryType
      <4>2. r.rewound \in Nat /\ p \in Nat
        BY <4>1, <1>1, PassNumbers
      <4>3. Min({r.rewound, p}) \in {r.rewound, p}
        BY <4>2, MinPair
      <4> QED
        BY <4>1, <4>3, <1>1
    <3> QED
      BY <3>1, <3>2
  <2> HIDE DEF w
  <2>3. paced \in RecoveryType /\ paced.passes = r.passes /\ paced.rewound = r.rewound
    BY <1>3
  <2>4. /\ Scheduled(q) \in RecoveryType
        /\ Scheduled(q).current = r.current /\ Scheduled(q).attempted = r.attempted
        /\ Scheduled(q).passes = r.passes \cup {p} /\ Scheduled(q).rewound = w
        /\ Kept(Scheduled(q))
    <3>1. Scheduled(q) = [paced EXCEPT !.passes = r.passes \cup {p}, !.rewound = w]
      BY <2>1, <2>3 DEF RecoveryType, w
    <3>2. r.passes \cup {p} \in SUBSET Pass
      BY <1>1 DEF RecoveryType
    <3>3. Scheduled(q) \in RecoveryType
      BY <3>1, <3>2, <2>2, <2>3 DEF RecoveryType
    <3>4. /\ Scheduled(q).current = paced.current /\ Scheduled(q).attempted = paced.attempted
          /\ Scheduled(q).passes = r.passes \cup {p} /\ Scheduled(q).rewound = w
          /\ Scheduled(q).ephemeral = paced.ephemeral
      BY <3>1, <2>3 DEF RecoveryType
    <3> QED
      BY <3>3, <3>4, <1>3
  <2>5. MayRunNow(p)
    BY <1>5 DEF RunNow
  <2> QED
    BY <2>4, <2>5, <1>5 DEF w
<1>6. CASE ~Refused(q) /\ RunNow(q) /\ ~NeedsRewind(p)
  <2>1. Scheduled(q) = [paced EXCEPT !.passes = @ \cup {p}, !.rewound = @]
    BY <1>6 DEF Scheduled, paced, noted
  <2>2. /\ Scheduled(q) \in RecoveryType
        /\ Scheduled(q).current = r.current /\ Scheduled(q).attempted = r.attempted
        /\ Scheduled(q).passes = r.passes \cup {p} /\ Scheduled(q).rewound = r.rewound
        /\ Kept(Scheduled(q))
    <3>1. paced \in RecoveryType /\ paced.passes \cup {p} \in SUBSET Pass
      BY <1>1, <1>3 DEF RecoveryType
    <3>2. Scheduled(q) = [paced EXCEPT !.passes = paced.passes \cup {p}]
      BY <2>1, <3>1 DEF RecoveryType
    <3>3. Scheduled(q) \in RecoveryType
      BY <3>1, <3>2 DEF RecoveryType
    <3>4. /\ Scheduled(q).current = paced.current /\ Scheduled(q).attempted = paced.attempted
          /\ Scheduled(q).passes = paced.passes \cup {p} /\ Scheduled(q).rewound = paced.rewound
          /\ Scheduled(q).ephemeral = paced.ephemeral
      BY <3>1, <3>2 DEF RecoveryType
    <3> QED
      BY <3>3, <3>4, <1>3
  <2>3. MayRunNow(p) /\ p \notin r.attempted /\ flags.running
    BY <1>6 DEF RunNow
  <2> QED
    BY <2>2, <2>3, <1>6
<1>7. CASE ~Refused(q) /\ ~RunNow(q)
  <2>1. Scheduled(q) = paced
    BY <1>7 DEF Scheduled, paced, noted
  <2> QED
    BY <2>1, <1>3
<1> QED
  BY <1>4, <1>5, <1>6, <1>7

\* The two ways the loop goes on.
LoopEnds(rec, f, h) ==
  /\ run'.pc = "end" /\ run'.failed = f /\ r'.current = 0
  /\ f \/ rec.passes = {}
  /\ hist' = h

PassStarts(rec, s, p, h) ==
  /\ \A x \in rec.passes : p <= x
  /\ run'.pc = "pass" /\ run'.scheduled = s \cup rec.passes
  /\ r'.current = p /\ r'.passes = rec.passes \ {p}
  /\ r'.attempted = rec.attempted \cup {p}
  /\ hist'.stale = (h.stale \cup (rec.attempted \cap PassDependents[p])) \ {p}

\* What is the same in both: the ghosts, and what is scheduled but for the pass.
Goes(rec, h) ==
  /\ r' \in RecoveryType /\ run' \in RunType /\ hist' \in HistType
  /\ run'.who = run.who /\ r'.rewound = rec.rewound
  /\ hist'.early = h.early /\ hist'.owed = h.owed
  /\ hist'.dropped = h.dropped /\ hist'.unflushed = h.unflushed
  /\ hist'.put \subseteq h.put
  /\ h.put \subseteq rec.ephemeral => hist'.put \subseteq r'.ephemeral

\* The loop either ends or starts the least pass that is to come.
LEMMA DispatchEffect ==
  ASSUME TypeOK, NEW rec \in RecoveryType, NEW s \in SUBSET Pass, NEW f \in BOOLEAN,
         NEW h \in HistType, Dispatch(rec, s, f, h)
  PROVE  /\ Goes(rec, h)
         /\ LoopEnds(rec, f, h) \/ \E p \in rec.passes : PassStarts(rec, s, p, h)
<1>1. run \in RunType
  BY DEF TypeOK
<1>2. CASE rec.passes = {} \/ (f /\ run.who # "async")
  <2>1. /\ r' = [rec EXCEPT !.current = 0]
        /\ run' = [run EXCEPT !.pc = "end", !.failed = f, !.scheduled = s]
        /\ hist' = h
    BY <1>2 DEF Dispatch
  <2>2. /\ r' \in RecoveryType /\ r'.current = 0 /\ r'.rewound = rec.rewound
        /\ r'.ephemeral = rec.ephemeral
    BY <2>1 DEF RecoveryType
  <2>3. run' \in RunType /\ run'.pc = "end" /\ run'.failed = f /\ run'.who = run.who
    BY <2>1, <1>1 DEF RunType
  <2> QED
    BY <2>1, <2>2, <2>3, <1>1, <1>2 DEF LoopEnds, Goes
<1>3. CASE ~(rec.passes = {} \/ (f /\ run.who # "async"))
  <2> DEFINE p == Min(rec.passes)
             st == (h.stale \cup (rec.attempted \cap PassDependents[p])) \ {p}
  <2>1. rec.passes # {} /\ rec.passes \in SUBSET Pass
    BY <1>3 DEF RecoveryType
  <2>2. p \in rec.passes /\ \A x \in rec.passes : p <= x
    BY <2>1, PassNumbers, LeastExists
  <2>3. /\ r' = [rec EXCEPT !.current = p, !.passes = @ \ {p},
                            !.ephemeral = @ \ {p}, !.attempted = @ \cup {p}]
        /\ run' = [run EXCEPT !.pc = "pass", !.failed = f, !.scheduled = s \cup rec.passes]
        /\ hist' = [h EXCEPT !.put = @ \ {p},
                             !.stale = (@ \cup (rec.attempted \cap PassDependents[p])) \ {p}]
    BY <1>3 DEF Dispatch
  <2> HIDE DEF p
  <2>4. /\ r' \in RecoveryType /\ r'.rewound = rec.rewound
        /\ r'.current = p /\ r'.passes = rec.passes \ {p}
        /\ r'.attempted = rec.attempted \cup {p} /\ r'.ephemeral = rec.ephemeral \ {p}
    BY <2>1, <2>2, <2>3 DEF RecoveryType
  <2>5. /\ run' \in RunType /\ run'.pc = "pass" /\ run'.who = run.who
        /\ run'.scheduled = s \cup rec.passes
    BY <2>1, <2>3, <1>1 DEF RunType
  <2>6. hist' = [h EXCEPT !.put = h.put \ {p}, !.stale = st]
    BY <2>3 DEF HistType
  <2>7. st \in SUBSET Pass
    BY DEF HistType, RecoveryType
  <2>8. /\ hist' \in HistType /\ hist'.early = h.early /\ hist'.owed = h.owed
        /\ hist'.dropped = h.dropped /\ hist'.unflushed = h.unflushed
        /\ hist'.put = h.put \ {p} /\ hist'.stale = st
    <3> HIDE DEF st
    <3> QED
      BY <2>6, <2>7 DEF HistType
  <2> QED
    BY <2>2, <2>4, <2>5, <2>8 DEF PassStarts, Goes
<1> QED
  BY <1>2, <1>3

\* Starting the next pass, or ending the loop, keeps the invariant, if what is to
\* come is closed upwards among what was attempted.
LEMMA DispatchKeeps ==
  ASSUME IInv, NEW rec \in RecoveryType, NEW s \in SUBSET Pass, NEW f \in BOOLEAN,
         NEW h \in HistType, Dispatch(rec, s, f, h),
         UNCHANGED <<use, sb, flags, queued, mount>>,
         run.pc \notin {"none", "held"},
         rec.rewound = 0, rec.ephemeral = r.ephemeral,
         rec.attempted \subseteq s,
         \A p \in rec.passes : \A q \in rec.attempted : q > p => q \in rec.passes,
         h.stale \subseteq rec.passes, h.early = hist.early, h.put = hist.put,
         h.owed \subseteq sb \cup h.dropped \cup h.unflushed,
         flags.started => /\ rec.passes \subseteq Online \cup hist.early
                          /\ s \subseteq Online \cup hist.early
  PROVE  IInv'
<1>1. TypeOK
  BY DEF IInv
<1>2. /\ r' \in RecoveryType /\ run' \in RunType /\ hist' \in HistType
      /\ run'.who = run.who /\ r'.rewound = rec.rewound
      /\ hist'.early = hist.early /\ hist'.owed = h.owed
      /\ hist'.dropped = h.dropped /\ hist'.unflushed = h.unflushed
      /\ hist'.put \subseteq hist.put
      /\ hist.put \subseteq r.ephemeral => hist'.put \subseteq r'.ephemeral
  <2>1. Goes(rec, h)
    BY <1>1, DispatchEffect
  <2> QED
    BY <2>1 DEF Goes
<1>3. LoopEnds(rec, f, h) \/ \E p \in rec.passes : PassStarts(rec, s, p, h)
  BY <1>1, DispatchEffect
<1>4. TypeOK'
  BY <1>1, <1>2 DEF TypeOK
<1>5. RequestKept' /\ PutInv'
  BY <1>2 DEF IInv, RequestKept, PutInv, ScheduledKept
<1>6. run'.pc # "flag" /\ run'.pc # "begin"
  BY <1>3 DEF LoopEnds, PassStarts
<1>7. WhoInv'
  BY <1>2, <1>6 DEF IInv, WhoInv
<1>8. rec.passes \in SUBSET Pass /\ rec.attempted \in SUBSET Pass
  BY DEF RecoveryType
<1>9. CASE run'.pc = "end"
  <2>1. ~InLoop'
    BY <1>9 DEF InLoop
  <2>2. r'.current = 0 /\ (run'.failed \/ rec.passes = {}) /\ hist' = h
    BY <1>9, <1>3 DEF LoopEnds, PassStarts
  <2>3. IdleInv' /\ LoopInv'
    BY <2>1, <2>2, <1>2 DEF IdleInv, LoopInv
  <2>4. StaleInv'
    BY <2>1, <2>2, <1>6 DEF StaleInv, DependentsRerun
  <2>5. LiveInv'
    BY <2>1 DEF LiveInv
  <2> QED
    BY <1>4, <1>5, <1>7, <2>3, <2>4, <2>5 DEF IInv
<1>10. CASE run'.pc # "end"
  <2>1. PICK p \in rec.passes : PassStarts(rec, s, p, h)
    BY <1>10, <1>3 DEF LoopEnds
  <2> USE DEF PassStarts
  <2>2. InLoop'
    BY <2>1 DEF InLoop
  <2>3. p \in Pass /\ p \in Nat /\ p # 0
    BY <1>8, PassNumbers
  <2>4. IdleInv'
    BY <2>2 DEF IdleInv
  <2>5. \A x \in r'.passes : x > p
    <3> SUFFICES ASSUME NEW x \in rec.passes, x # p PROVE x > p
      BY <2>1
    <3>1. x \in Nat /\ p <= x
      BY <2>1, <1>8, PassNumbers
    <3> QED
      BY <3>1, <2>3
  <2>6. \A q \in r'.attempted : q > p => q \in r'.passes
    <3> SUFFICES ASSUME NEW q \in rec.attempted \cup {p}, q > p
                 PROVE  q \in rec.passes \ {p}
      BY <2>1
    <3>1. q # p
      BY <2>3
    <3> QED
      BY <3>1
  <2>7. LoopInv'
    <3>1. r'.current \in r'.attempted /\ r'.attempted \subseteq run'.scheduled
      BY <2>1
    <3>2. r'.rewound = 0
      BY <1>2
    <3>3. \A x \in r'.passes : x > r'.current
      BY <2>1, <2>5
    <3>4. \A q \in r'.attempted : q > r'.current => q \in r'.passes
      BY <2>1, <2>6
    <3> QED
      BY <3>1, <3>2, <3>3, <3>4 DEF LoopInv
  <2>8. hist'.stale \subseteq r'.passes
    <3> SUFFICES ASSUME NEW q \in rec.attempted \cap PassDependents[p], q # p
                 PROVE  q \in rec.passes
      BY <2>1
    <3>1. q \in Pass /\ q >= p
      BY <2>3, DependentsLater
    <3>2. q > p
      BY <3>1, <2>3, PassNumbers
    <3> QED
      BY <3>2
  <2>9. StaleInv'
    BY <2>8, <1>6, <1>10 DEF StaleInv, DependentsRerun
  <2>10. LiveInv'
    BY <1>2, <2>1 DEF LiveInv
  <2> QED
    BY <1>4, <1>5, <1>7, <2>4, <2>7, <2>9, <2>10 DEF IInv
<1> QED
  BY <1>9, <1>10

\* What the loop does after a pass keeps the invariant: a rewind restores every
\* requested pass from its target on.
LEMMA SettleKeeps ==
  ASSUME IInv, InLoop, NEW ok \in BOOLEAN, Settle(ok),
         UNCHANGED <<use, sb, flags, queued, mount>>
  PROVE  IInv'
<1> DEFINE rec == IF r.rewound # 0 THEN Restored(run.scheduled)
                  ELSE IF ok THEN [r EXCEPT !.complete = @ \cup {r.current}]
                  ELSE r
           f == run.failed \/ (~(r.rewound # 0) /\ ~ok)
           h == IF ok THEN Flushed ELSE hist
<1>1. /\ r \in RecoveryType /\ run \in RunType /\ run.scheduled \in SUBSET Pass
      /\ r.passes \in SUBSET Pass /\ r.attempted \in SUBSET Pass
      /\ r.rewound \in Pass \cup {0} /\ r.current \in Pass
  <2>1. r \in RecoveryType /\ run \in RunType
    BY DEF IInv, TypeOK
  <2>2. r.current \in r.attempted
    BY DEF IInv, LoopInv
  <2> QED
    BY <2>1, <2>2 DEF RecoveryType, RunType
<1>2. Dispatch(rec, run.scheduled, f, h) /\ f \in BOOLEAN
  BY <1>1 DEF Settle, RunType
<1>3. /\ r.attempted \subseteq run.scheduled
      /\ r.rewound # 0 => r.rewound \in r.passes /\ r.rewound < r.current
      /\ \A p \in r.passes : p > r.current \/ (r.rewound # 0 /\ r.rewound <= p)
      /\ \A p \in r.attempted : p > r.current => p \in r.passes
  BY DEF IInv, LoopInv
<1>4. run.pc \notin {"none", "held"}
  BY DEF InLoop
<1>5. /\ h \in HistType /\ h.stale \subseteq r.passes
      /\ h.early = hist.early /\ h.put = hist.put
      /\ h.owed \subseteq sb \cup h.dropped \cup h.unflushed
  <2>1. /\ hist \in HistType /\ hist.stale \subseteq r.passes
        /\ hist.owed \subseteq sb \cup hist.dropped \cup hist.unflushed
    BY DEF IInv, TypeOK, StaleInv, DependentsRerun, RequestKept
  <2>2. /\ Flushed \in HistType /\ Flushed.stale = hist.stale /\ Flushed.early = hist.early
        /\ Flushed.put = hist.put /\ Flushed.owed = hist.owed \ hist.unflushed
        /\ Flushed.dropped = hist.dropped
    BY <2>1 DEF Flushed, HistType
  <2> QED
    BY <2>1, <2>2
<1>6. flags.started => /\ r.passes \subseteq Online \cup hist.early
                       /\ run.scheduled \subseteq Online \cup hist.early
  BY DEF IInv, LiveInv
<1>7. CASE r.rewound = 0
  <2>1. /\ rec \in RecoveryType /\ rec.rewound = 0
        /\ rec.passes = r.passes /\ rec.attempted = r.attempted
        /\ rec.ephemeral = r.ephemeral
    BY <1>1, <1>7 DEF RecoveryType
  <2>2. ASSUME NEW p \in r.passes, NEW q \in r.attempted, q > p PROVE q \in r.passes
    <3>1. p \in Nat /\ q \in Nat /\ r.current \in Nat
      BY <1>1, PassNumbers
    <3>2. p > r.current
      BY <1>3, <1>7
    <3>3. q > r.current
      BY <3>1, <3>2, <2>2
    <3> QED
      BY <3>3, <1>3
  <2> HIDE DEF rec, f, h
  <2> QED
    BY <1>1, <1>2, <1>3, <1>5, <1>6, <1>4, <2>1, <2>2, DispatchKeeps
<1>8. CASE r.rewound # 0
  <2> DEFINE back == r.passes \cup {p \in run.scheduled : p >= r.rewound}
  <2>1. /\ rec \in RecoveryType /\ rec.rewound = 0
        /\ rec.passes = back /\ rec.attempted = r.attempted
        /\ rec.ephemeral = r.ephemeral
    <3>1. rec = [r EXCEPT !.passes = back, !.rewound = 0]
      BY <1>1, <1>8 DEF Restored, RecoveryType
    <3>2. back \in SUBSET Pass
      BY <1>1
    <3> HIDE DEF rec, back
    <3> QED
      BY <3>1, <3>2, <1>1 DEF RecoveryType
  <2>2. r.rewound \in Nat /\ r.current \in Nat /\ r.rewound < r.current
    BY <1>1, <1>3, <1>8, PassNumbers
  <2>3. ASSUME NEW p \in back PROVE p \in Nat /\ p >= r.rewound
    <3>1. p \in Nat
      BY <1>1, PassNumbers
    <3>2. p > r.current \/ r.rewound <= p \/ p >= r.rewound
      BY <1>3
    <3> QED
      BY <3>1, <3>2, <2>2
  <2>4. ASSUME NEW p \in back, NEW q \in r.attempted, q > p PROVE q \in back
    <3>1. q \in Nat /\ p \in Nat /\ p >= r.rewound
      BY <1>1, <2>3, PassNumbers
    <3>2. q >= r.rewound
      BY <3>1, <2>2, <2>4
    <3> QED
      BY <3>2, <1>3
  <2>5. h.stale \subseteq back
    BY <1>5
  <2>6. flags.started => back \subseteq Online \cup hist.early
    BY <1>6
  <2> HIDE DEF rec, f, h, back
  <2> QED
    BY <1>1, <1>2, <1>3, <1>5, <1>6, <1>4, <2>1, <2>4, <2>5, <2>6, DispatchKeeps
<1> QED
  BY <1>7, <1>8

\* A request, whatever it does to the run in progress, keeps the invariant.
LEMMA RequestKeeps ==
  ASSUME IInv, NEW q \in Request, RunExplicit(q)
  PROVE  IInv'
<1>1. /\ q.pass \in Pass /\ q.pass \in Nat /\ q.pass # 0
      /\ r \in RecoveryType /\ hist \in HistType /\ sb \in SUBSET Pass /\ TypeOK
  BY PassNumbers DEF Request, IInv, TypeOK
<1>2. UNCHANGED <<use, flags, run, mount>> /\ hist' = Asked(q)
  BY DEF RunExplicit
<1>3. /\ hist' \in HistType /\ hist'.early = hist.early /\ hist'.stale = hist.stale
      /\ hist'.owed \subseteq hist.owed \cup (IF Recorded(q) THEN {q.pass} ELSE {})
      /\ hist.dropped \cup hist.unflushed
           \subseteq hist'.dropped \cup hist'.unflushed \cup (IF Recorded(q) THEN {q.pass} ELSE {})
      /\ hist'.put = hist.put \/ (/\ ~Recorded(q) /\ NeedsSet(q) /\ mount.pc # "store"
                                 /\ hist'.put = hist.put \cup {q.pass})
  <2>1. CASE Recorded(q)
    <3> DEFINE d == IF Underway(q.pass) THEN hist.dropped \cup {q.pass}
                                       ELSE hist.dropped \ {q.pass}
    <3>1. hist' = [hist EXCEPT !.owed = hist.owed \cup {q.pass},
                               !.unflushed = hist.unflushed \ {q.pass}, !.dropped = d]
      BY <1>1, <1>2, <2>1 DEF Asked, HistType
    <3>2. /\ d \in SUBSET Pass /\ hist.dropped \subseteq d \cup {q.pass}
      BY <1>1 DEF HistType
    <3> HIDE DEF d
    <3> QED
      BY <3>1, <3>2, <1>1, <2>1 DEF HistType
  <2>2. CASE ~Recorded(q)
    BY <1>1, <1>2, <2>2 DEF Asked, HistType
  <2> QED
    BY <2>1, <2>2
<1>4. WhoInv'
  BY <1>2 DEF IInv, WhoInv
<1>5. CASE ~NeedsSet(q)
  <2>1. UNCHANGED <<sb, r, queued>>
    BY <1>5 DEF RunExplicit
  <2>2. TypeOK'
    BY <1>1, <1>2, <1>3, <2>1 DEF TypeOK
  <2>3. IdleInv' /\ LoopInv' /\ StaleInv' /\ LiveInv'
    BY <1>2, <1>3, <2>1
       DEF IInv, IdleInv, LoopInv, StaleInv, DependentsRerun, LiveInv, InLoop
  <2>4. Recorded(q) => q.pass \in sb
    BY <1>5 DEF NeedsSet, Recorded
  <2>5. RequestKept' /\ PutInv'
    BY <1>2, <1>3, <1>5, <2>1, <2>4 DEF IInv, RequestKept, PutInv, ScheduledKept
  <2> QED
    BY <1>4, <2>2, <2>3, <2>5 DEF IInv
<1>6. CASE NeedsSet(q)
  <2>1. /\ r' = Scheduled(q)
        /\ sb' = IF Recorded(q) THEN sb \cup {q.pass} ELSE sb
        /\ queued' \in BOOLEAN
    BY <1>6 DEF RunExplicit
  <2>2. /\ r' \in RecoveryType /\ r'.current = r.current /\ r'.attempted = r.attempted
        /\ r.ephemeral \subseteq r'.ephemeral /\ (~Recorded(q) => q.pass \in r'.ephemeral)
    BY <1>1, <2>1, ScheduledEffect
  <2>3. TypeOK'
    BY <1>1, <1>2, <1>3, <2>1, <2>2 DEF TypeOK
  <2>4. RequestKept' /\ PutInv'
    BY <1>2, <1>3, <2>1, <2>2 DEF IInv, RequestKept, PutInv, ScheduledKept
  <2>5. CASE r'.passes = r.passes /\ r'.rewound = r.rewound
    <3>1. IdleInv' /\ LoopInv' /\ StaleInv' /\ LiveInv'
      BY <1>2, <1>3, <2>2, <2>5
         DEF IInv, IdleInv, LoopInv, StaleInv, DependentsRerun, LiveInv, InLoop
    <3> QED
      BY <1>4, <2>3, <2>4, <3>1 DEF IInv
  <2>6. CASE ~(r'.passes = r.passes /\ r'.rewound = r.rewound)
    <3>1. /\ MayRunNow(q.pass)
          /\ r'.passes = r.passes \cup {q.pass}
          /\ \/ /\ ~NeedsRewind(q.pass) /\ q.pass \notin r.attempted /\ flags.running
                /\ r'.rewound = r.rewound
             \/ /\ NeedsRewind(q.pass)
                /\ r'.rewound = IF r.rewound = 0 THEN q.pass ELSE Min({r.rewound, q.pass})
      BY <1>1, <2>1, <2>6, ScheduledEffect
    <3>2. InLoop' = InLoop
      BY <1>2 DEF InLoop
    <3>3. IdleInv'
      <4> SUFFICES ASSUME ~InLoop PROVE r'.current = 0 /\ r'.rewound = 0
        BY <3>2 DEF IdleInv
      <4>1. r.current = 0 /\ r.rewound = 0
        BY DEF IInv, IdleInv
      <4>2. ~NeedsRewind(q.pass)
        BY <4>1, <1>1 DEF NeedsRewind
      <4> QED
        BY <4>1, <4>2, <3>1, <2>2
    <3>4. StaleInv'
      BY <1>2, <1>3, <3>1, <3>2 DEF IInv, StaleInv, DependentsRerun
    <3>5. LiveInv'
      <4>1. flags.started => q.pass \in Online
        BY <3>1 DEF MayRunNow
      <4> QED
        BY <1>2, <1>3, <2>2, <3>1, <3>2, <4>1 DEF IInv, LiveInv
    <3>6. LoopInv'
      <4> SUFFICES ASSUME InLoop
                   PROVE  /\ r'.current \in r'.attempted
                          /\ r'.attempted \subseteq run'.scheduled
                          /\ r'.rewound # 0 => r'.rewound \in r'.passes /\ r'.rewound < r'.current
                          /\ \A p \in r'.passes :
                               p > r'.current \/ (r'.rewound # 0 /\ r'.rewound <= p)
                          /\ \A p \in r'.attempted : p > r'.current => p \in r'.passes
        BY <3>2 DEF LoopInv
      <4>1. /\ r.current \in r.attempted
            /\ r.attempted \subseteq run.scheduled
            /\ r.rewound # 0 => r.rewound \in r.passes /\ r.rewound < r.current
            /\ \A p \in r.passes : p > r.current \/ (r.rewound # 0 /\ r.rewound <= p)
            /\ \A p \in r.attempted : p > r.current => p \in r.passes
        BY DEF IInv, LoopInv
      <4>2. /\ r.current \in Nat /\ r.rewound \in Nat
            /\ \A p \in r.passes : p \in Nat
        <5>1. /\ r.current \in Pass \cup {0} /\ r.rewound \in Pass \cup {0}
              /\ r.passes \subseteq Pass
          BY <1>1 DEF RecoveryType
        <5>2. Pass \cup {0} \subseteq Nat
          BY PassNumbers
        <5> QED
          BY <5>1, <5>2, Zenon
      <4>3. CASE NeedsRewind(q.pass)
        <5>1. q.pass < r.current
          BY <4>3, <4>2, <1>1 DEF NeedsRewind
        <5>2. /\ r'.rewound \in Nat /\ r'.rewound # 0 /\ r'.rewound <= q.pass
              /\ r.rewound # 0 => r'.rewound <= r.rewound
              /\ r'.rewound = q.pass \/ (r.rewound # 0 /\ r'.rewound = r.rewound)
          <6>1. CASE r.rewound = 0
            BY <6>1, <4>3, <3>1, <1>1
          <6>2. CASE r.rewound # 0
            <7>1. r'.rewound = Min({r.rewound, q.pass})
              BY <6>2, <4>3, <3>1
            <7>2. /\ Min({r.rewound, q.pass}) \in {r.rewound, q.pass}
                  /\ Min({r.rewound, q.pass}) <= r.rewound
                  /\ Min({r.rewound, q.pass}) <= q.pass
              BY <4>2, <1>1, MinPair
            <7> QED
              BY <7>1, <7>2, <6>2, <4>2, <1>1
          <6> QED
            BY <6>1, <6>2
        <5>3. r'.rewound \in r'.passes /\ r'.rewound < r'.current
          BY <5>1, <5>2, <4>1, <3>1, <2>2
        <5>4. ASSUME NEW p \in r'.passes
              PROVE  p > r'.current \/ (r'.rewound # 0 /\ r'.rewound <= p)
          <6>1. CASE p = q.pass
            BY <6>1, <5>2
          <6>2. CASE p \in r.passes
            <7>1. p > r.current \/ (r.rewound # 0 /\ r.rewound <= p)
              BY <6>2, <4>1
            <7>2. p \in Nat
              BY <6>2, <4>2
            <7> QED
              BY <7>1, <7>2, <5>2, <4>2, <2>2
          <6> QED
            BY <6>1, <6>2, <3>1
        <5> QED
          BY <5>3, <5>4, <4>1, <3>1, <2>2, <1>2
      <4>4. CASE ~NeedsRewind(q.pass)
        <5>1. /\ r'.rewound = r.rewound /\ q.pass \notin r.attempted /\ flags.running
          BY <4>4, <3>1
        <5>2. ~(r.current > q.pass)
          BY <4>4, <5>1 DEF NeedsRewind
        <5>3. q.pass # r.current
          BY <5>1, <4>1
        <5>4. q.pass > r.current
          BY <5>2, <5>3, <4>2, <1>1
        <5> QED
          BY <5>1, <5>4, <4>1, <3>1, <2>2, <1>2
      <4> QED
        BY <4>3, <4>4
    <3> QED
      BY <1>4, <2>3, <2>4, <3>3, <3>4, <3>5, <3>6 DEF IInv
  <2> QED
    BY <2>5, <2>6
<1> QED
  BY <1>5, <1>6

\* Every step of the runner keeps the invariant.
LEMMA StepKeeps == IInv /\ [Next]_vars => IInv'
<1> SUFFICES ASSUME IInv, [Next]_vars PROVE IInv'
  OBVIOUS
<1>1. TypeOK /\ (InLoop => r.current \in Pass)
  BY DEF IInv, LoopInv, TypeOK, RecoveryType
<1>2. CASE SetRunning
  <2>1. TypeOK'
    BY <1>2, <1>1 DEF SetRunning, TypeOK, RunType, FlagsType, HistType, RecoveryType
  <2>2. IdleInv' /\ LoopInv' /\ StaleInv'
    BY <1>2, <1>1
       DEF SetRunning, TypeOK, RunType, FlagsType, HistType, RecoveryType, IInv, WhoInv,
           IdleInv, LoopInv, StaleInv, DependentsRerun, InLoop
  <2>3. WhoInv' /\ LiveInv' /\ RequestKept' /\ PutInv'
    BY <1>2, <1>1
       DEF SetRunning, TypeOK, RunType, FlagsType, HistType, RecoveryType, IInv, WhoInv,
           LiveInv, RequestKept, PutInv, ScheduledKept, InLoop
  <2> QED
    BY <2>1, <2>2, <2>3 DEF IInv
<1>3. CASE GoRw
  <2>1. TypeOK'
    BY <1>3, <1>1 DEF GoRw, TypeOK, FlagsType
  <2>2. IdleInv' /\ LoopInv' /\ StaleInv'
    BY <1>3, <1>1
       DEF GoRw, TypeOK, FlagsType, IInv, WhoInv, IdleInv, LoopInv, StaleInv,
           DependentsRerun, InLoop
  <2>3. WhoInv' /\ LiveInv' /\ RequestKept' /\ PutInv'
    BY <1>3, <1>1 DEF GoRw, TypeOK, FlagsType, IInv, WhoInv, LiveInv, RequestKept, PutInv,
                      ScheduledKept, InLoop
  <2> QED
    BY <2>1, <2>2, <2>3 DEF IInv
<1>4. CASE PassSucceeds
  <2>1. TypeOK'
    BY <1>4, <1>1 DEF PassSucceeds, TypeOK, RecoveryType, RunType
  <2>2. IdleInv' /\ LoopInv' /\ StaleInv'
    BY <1>4, <1>1
       DEF PassSucceeds, TypeOK, RecoveryType, RunType, IInv, WhoInv, IdleInv, LoopInv,
           StaleInv, DependentsRerun, InLoop
  <2>3. WhoInv' /\ LiveInv' /\ RequestKept' /\ PutInv'
    BY <1>4, <1>1
       DEF PassSucceeds, TypeOK, RecoveryType, RunType, IInv, WhoInv, LiveInv, RequestKept, PutInv,
           ScheduledKept, InLoop
  <2> QED
    BY <2>1, <2>2, <2>3 DEF IInv
<1>5. CASE PassFails
  <2>1. r.current \in Pass
    BY <1>5, <1>1 DEF PassFails, TypeOK, UseType
  <2>2. TypeOK'
    BY <1>5, <1>1, <2>1 DEF PassFails, TypeOK, RecoveryType, RunType
  <2>3. /\ r'.current = r.current /\ r'.passes = r.passes /\ r'.attempted = r.attempted
        /\ r'.rewound = r.rewound /\ r'.ephemeral = r.ephemeral
        /\ run.pc = "pass" /\ run'.pc = "failed" /\ run'.who = run.who
        /\ run'.scheduled = run.scheduled /\ run'.orig = run.orig
        /\ UNCHANGED <<use, sb, flags, queued, mount, hist>>
    BY <1>5, <1>1 DEF PassFails, TypeOK, RecoveryType, RunType
  <2>4. IdleInv' /\ LoopInv' /\ StaleInv'
    BY <2>3 DEF IInv, IdleInv, LoopInv, StaleInv, DependentsRerun, InLoop
  <2>5. WhoInv' /\ LiveInv' /\ RequestKept' /\ PutInv'
    BY <2>3 DEF IInv, WhoInv, LiveInv, RequestKept, PutInv, ScheduledKept, InLoop
  <2> QED
    BY <2>2, <2>4, <2>5 DEF IInv
<1>6. CASE PassRestarts
  <2>1. TypeOK'
    BY <1>6, <1>1 DEF PassRestarts, TypeOK, RunType
  <2>2. IdleInv' /\ LoopInv' /\ StaleInv'
    BY <1>6, <1>1
       DEF PassRestarts, TypeOK, RunType, IInv, WhoInv, IdleInv, LoopInv, StaleInv,
           DependentsRerun, InLoop
  <2>3. WhoInv' /\ LiveInv' /\ RequestKept' /\ PutInv'
    BY <1>6, <1>1 DEF PassRestarts, TypeOK, RunType, IInv, WhoInv, LiveInv, RequestKept,
                      PutInv, ScheduledKept, InLoop
  <2> QED
    BY <2>1, <2>2, <2>3 DEF IInv
<1>7. CASE PassComplete
  <2>1. TypeOK'
    BY <1>7, <1>1 DEF PassComplete, TypeOK, RunType, HistType, InLoop
  <2>2. IdleInv' /\ LoopInv' /\ StaleInv'
    BY <1>7, <1>1
       DEF PassComplete, TypeOK, RunType, HistType, IInv, WhoInv, IdleInv, LoopInv,
           StaleInv, DependentsRerun, InLoop
  <2>3. WhoInv' /\ LiveInv' /\ RequestKept' /\ PutInv'
    BY <1>7, <1>1
       DEF PassComplete, TypeOK, RunType, HistType, IInv, WhoInv, LiveInv, RequestKept, PutInv,
           ScheduledKept, InLoop
  <2> QED
    BY <2>1, <2>2, <2>3 DEF IInv
<1>8. CASE RunEnds
  <2>1. TypeOK'
    BY <1>8, <1>1 DEF RunEnds, NoRun, TypeOK, HistType, RunType, FlagsType, MountType
  <2>2. IdleInv' /\ LoopInv' /\ StaleInv'
    BY <1>8, <1>1
       DEF RunEnds, NoRun, TypeOK, HistType, RunType, FlagsType, MountType, IInv, WhoInv, IdleInv,
           LoopInv, StaleInv, DependentsRerun, InLoop
  <2>3. WhoInv' /\ LiveInv' /\ RequestKept' /\ PutInv'
    BY <1>8, <1>1
       DEF RunEnds, NoRun, TypeOK, HistType, RunType, FlagsType, MountType, IInv, WhoInv, LiveInv,
           RequestKept, PutInv, ScheduledKept, InLoop
  <2> QED
    BY <2>1, <2>2, <2>3 DEF IInv
<1>9. CASE Startup
  <2> DEFINE w == Wanted
             d == Deferred(Wanted)
  <2>1. w \in SUBSET Pass /\ use.explicit \in SUBSET Pass
    BY <1>1 DEF Wanted, Match, TypeOK, UseType
  <2>2. d \in SUBSET Pass
    BY <2>1 DEF Deferred
  <2>3. /\ mount.pc = "down" /\ run.who = "none"
        /\ mount' = [mount EXCEPT !.pc = "run", !.defer = d]
        /\ run' = [NoRun EXCEPT !.who = "mount", !.pc = "flag", !.orig = w \ d]
        /\ hist' = [hist EXCEPT !.due = IF use.skip THEN {} ELSE (sb \cap w) \ Online,
                                !.put = use.explicit]
        /\ r' = [r EXCEPT !.ephemeral = use.explicit]
        /\ UNCHANGED <<use, sb, flags, queued>>
    BY <1>9 DEF Startup
  <2> HIDE DEF w, d
  <2>4. TypeOK'
    BY <1>1, <2>1, <2>2, <2>3 DEF NoRun, TypeOK, RunType, MountType, HistType, RecoveryType
  <2>5. /\ r'.current = r.current /\ r'.rewound = r.rewound
        /\ run'.pc = "flag" /\ run'.who = "mount" /\ mount'.pc = "run"
        /\ hist'.stale = hist.stale /\ hist'.owed = hist.owed
        /\ hist'.dropped = hist.dropped /\ hist'.unflushed = hist.unflushed
        /\ hist'.put = r'.ephemeral
    BY <1>1, <2>3 DEF NoRun, TypeOK, RunType, MountType, HistType, RecoveryType
  <2>6. IdleInv' /\ LoopInv' /\ StaleInv'
    BY <2>3, <2>5 DEF IInv, WhoInv, IdleInv, LoopInv, StaleInv, DependentsRerun, InLoop
  <2>7. WhoInv' /\ LiveInv' /\ RequestKept' /\ PutInv'
    BY <2>3, <2>5 DEF IInv, WhoInv, LiveInv, RequestKept, PutInv, ScheduledKept, InLoop
  <2> QED
    BY <2>4, <2>6, <2>7 DEF IInv
<1>10. CASE DeferLoad
  <2>1. TypeOK'
    BY <1>10, <1>1 DEF DeferLoad, TypeOK, HistType, FlagsType, MountType, RecoveryType
  <2>2. IdleInv' /\ LoopInv' /\ StaleInv'
    BY <1>10, <1>1
       DEF DeferLoad, TypeOK, HistType, FlagsType, MountType, RecoveryType, IInv, WhoInv, IdleInv,
           LoopInv, StaleInv, DependentsRerun, InLoop
  <2>3. WhoInv' /\ LiveInv' /\ RequestKept' /\ PutInv'
    BY <1>10, <1>1
       DEF DeferLoad, TypeOK, HistType, FlagsType, MountType, RecoveryType, IInv, WhoInv, LiveInv,
           RequestKept, PutInv, ScheduledKept, InLoop
  <2> QED
    BY <2>1, <2>2, <2>3 DEF IInv
<1>11. CASE DeferStore
  <2>1. TypeOK'
    BY <1>11, <1>1 DEF DeferStore, TypeOK, RecoveryType, MountType
  <2>2. IdleInv' /\ LoopInv' /\ StaleInv'
    BY <1>11, <1>1
       DEF DeferStore, TypeOK, RecoveryType, MountType, IInv, WhoInv, IdleInv, LoopInv,
           StaleInv, DependentsRerun, InLoop
  <2>3. WhoInv' /\ LiveInv' /\ RequestKept' /\ PutInv'
    BY <1>11, <1>1
       DEF DeferStore, TypeOK, RecoveryType, MountType, IInv, WhoInv, LiveInv, RequestKept, PutInv,
           ScheduledKept, InLoop
  <2> QED
    BY <2>1, <2>2, <2>3 DEF IInv
<1>12. CASE StartupKick
  <2>1. TypeOK'
    BY <1>12, <1>1 DEF StartupKick, CanKick, TypeOK, FlagsType, MountType
  <2>2. IdleInv' /\ LoopInv' /\ StaleInv'
    BY <1>12, <1>1
       DEF StartupKick, CanKick, TypeOK, FlagsType, MountType, IInv, WhoInv, IdleInv,
           LoopInv, StaleInv, DependentsRerun, InLoop
  <2>3. WhoInv' /\ LiveInv' /\ RequestKept' /\ PutInv'
    BY <1>12, <1>1
       DEF StartupKick, CanKick, TypeOK, FlagsType, MountType, IInv, WhoInv, LiveInv,
           RequestKept, PutInv, ScheduledKept, InLoop
  <2> QED
    BY <2>1, <2>2, <2>3 DEF IInv
<1>13. CASE Started
  <2>1. TypeOK'
    <3> DEFINE e == IF InLoop THEN ({r.current} \cup r.passes \cup run.scheduled) \ Online ELSE {}
    <3>1. e \in SUBSET Pass
      BY <1>1 DEF TypeOK, RecoveryType, RunType
    <3>2. hist' = [hist EXCEPT !.early = e]
      BY <1>13 DEF Started
    <3> HIDE DEF e
    <3> QED
      BY <1>13, <1>1, <3>1, <3>2 DEF Started, TypeOK, HistType, FlagsType, MountType
  <2>2. IdleInv' /\ LoopInv' /\ StaleInv'
    BY <1>13, <1>1
       DEF Started, TypeOK, HistType, RecoveryType, RunType, FlagsType, MountType, IInv,
           WhoInv, IdleInv, LoopInv, StaleInv, DependentsRerun, InLoop
  <2>3. WhoInv' /\ LiveInv' /\ RequestKept' /\ PutInv'
    BY <1>13, <1>1
       DEF Started, TypeOK, HistType, RecoveryType, RunType, FlagsType, MountType, IInv,
           WhoInv, LiveInv, RequestKept, PutInv, ScheduledKept, InLoop
  <2> QED
    BY <2>1, <2>2, <2>3 DEF IInv
<1>14. CASE WorkBegins
  <2>1. TypeOK'
    BY <1>14, <1>1 DEF WorkBegins, NoRun, TypeOK, RunType
  <2>2. IdleInv' /\ LoopInv' /\ StaleInv'
    BY <1>14, <1>1
       DEF WorkBegins, NoRun, TypeOK, RunType, IInv, WhoInv, IdleInv, LoopInv, StaleInv,
           DependentsRerun, InLoop
  <2>3. WhoInv' /\ LiveInv' /\ RequestKept' /\ PutInv'
    BY <1>14, <1>1
       DEF WorkBegins, NoRun, TypeOK, RunType, IInv, WhoInv, LiveInv, RequestKept, PutInv,
           ScheduledKept, InLoop
  <2> QED
    BY <2>1, <2>2, <2>3 DEF IInv
<1>15. CASE WorkDropped
  <2>1. TypeOK'
    BY <1>15, <1>1 DEF WorkDropped, TypeOK
  <2>2. IdleInv' /\ LoopInv' /\ StaleInv'
    BY <1>15, <1>1
       DEF WorkDropped, TypeOK, IInv, WhoInv, IdleInv, LoopInv, StaleInv, DependentsRerun,
           InLoop
  <2>3. WhoInv' /\ LiveInv' /\ RequestKept' /\ PutInv'
    BY <1>15, <1>1 DEF WorkDropped, TypeOK, IInv, WhoInv, LiveInv, RequestKept, PutInv,
                       ScheduledKept, InLoop
  <2> QED
    BY <2>1, <2>2, <2>3 DEF IInv
<1>16. CASE FsckBegins
  <2>1. TypeOK'
    BY <1>16, <1>1 DEF FsckBegins, NoRun, Match, Online, TypeOK, RunType, FlagsType
  <2>2. IdleInv' /\ LoopInv' /\ StaleInv'
    BY <1>16, <1>1
       DEF FsckBegins, NoRun, Match, Online, TypeOK, RunType, FlagsType, IInv, WhoInv,
           IdleInv, LoopInv, StaleInv, DependentsRerun, InLoop
  <2>3. WhoInv' /\ LiveInv' /\ RequestKept' /\ PutInv'
    BY <1>16, <1>1
       DEF FsckBegins, NoRun, Match, Online, TypeOK, RunType, FlagsType, IInv, WhoInv,
           LiveInv, RequestKept, PutInv, ScheduledKept, InLoop
  <2> QED
    BY <2>1, <2>2, <2>3 DEF IInv
<1>17. CASE SysfsBegins
  <2>1. TypeOK'
    BY <1>17, <1>1 DEF SysfsBegins, NoRun, TypeOK, RunType
  <2>2. IdleInv' /\ LoopInv' /\ StaleInv'
    BY <1>17, <1>1
       DEF SysfsBegins, NoRun, TypeOK, RunType, IInv, WhoInv, IdleInv, LoopInv, StaleInv,
           DependentsRerun, InLoop
  <2>3. WhoInv' /\ LiveInv' /\ RequestKept' /\ PutInv'
    BY <1>17, <1>1
       DEF SysfsBegins, NoRun, TypeOK, RunType, IInv, WhoInv, LiveInv, RequestKept, PutInv,
           ScheduledKept, InLoop
  <2> QED
    BY <2>1, <2>2, <2>3 DEF IInv
<1>18. CASE SysfsEnds
  <2>1. TypeOK'
    BY <1>18, <1>1 DEF SysfsEnds, NoRun, TypeOK, RunType
  <2>2. IdleInv' /\ LoopInv' /\ StaleInv'
    BY <1>18, <1>1
       DEF SysfsEnds, NoRun, TypeOK, RunType, IInv, WhoInv, IdleInv, LoopInv, StaleInv,
           DependentsRerun, InLoop
  <2>3. WhoInv' /\ LiveInv' /\ RequestKept' /\ PutInv'
    BY <1>18, <1>1
       DEF SysfsEnds, NoRun, TypeOK, RunType, IInv, WhoInv, LiveInv, RequestKept, PutInv,
           ScheduledKept, InLoop
  <2> QED
    BY <2>1, <2>2, <2>3 DEF IInv
<1>19. CASE FsError
  <2>1. TypeOK'
    BY <1>19, <1>1 DEF FsError, TypeOK, FlagsType
  <2>2. IdleInv' /\ LoopInv' /\ StaleInv'
    BY <1>19, <1>1
       DEF FsError, TypeOK, FlagsType, IInv, WhoInv, IdleInv, LoopInv, StaleInv,
           DependentsRerun, InLoop
  <2>3. WhoInv' /\ LiveInv' /\ RequestKept' /\ PutInv'
    BY <1>19, <1>1 DEF FsError, TypeOK, FlagsType, IInv, WhoInv, LiveInv, RequestKept, PutInv,
                       ScheduledKept, InLoop
  <2> QED
    BY <2>1, <2>2, <2>3 DEF IInv
<1>20. CASE Remount
  <2>1. TypeOK'
    <3>1. use' \in UseType /\ sb' \in SUBSET Pass /\ queued' \in BOOLEAN
      BY <1>20, <1>1 DEF Remount, TypeOK
    <3>2. use.fsck \in BOOLEAN
      BY <1>1 DEF TypeOK, UseType
    <3>3. r' \in RecoveryType
      BY <1>20 DEF Remount, Fresh, RecoveryType
    <3>4. flags' \in FlagsType
      BY <1>20, <3>2 DEF Remount, Fresh, FlagsType
    <3>5. run' \in RunType
      BY <1>20 DEF Remount, NoRun, RunType
    <3>6. mount' \in MountType
      BY <1>20 DEF Remount, Fresh, MountType
    <3>7. hist' \in HistType
      BY <1>20, <1>1 DEF Remount, TypeOK, HistType
    <3> QED
      BY <3>1, <3>3, <3>4, <3>5, <3>6, <3>7 DEF TypeOK
  <2>2. IdleInv' /\ LoopInv' /\ StaleInv'
    BY <1>20, <1>1
       DEF Remount, Fresh, NoRun, TypeOK, RunType, FlagsType, MountType, HistType,
           RecoveryType, UseType, IInv, WhoInv, IdleInv, LoopInv, StaleInv, DependentsRerun,
           InLoop
  <2>3. WhoInv' /\ LiveInv' /\ RequestKept' /\ PutInv'
    BY <1>20, <1>1
       DEF Remount, Fresh, NoRun, TypeOK, RunType, FlagsType, MountType, HistType,
           RecoveryType, UseType, IInv, WhoInv, LiveInv, RequestKept, PutInv, ScheduledKept, InLoop
  <2> QED
    BY <2>1, <2>2, <2>3 DEF IInv
<1>21. CASE Begin
  <2> DEFINE orig == (run.orig \ (IF use.noalloc THEN Match("alloc") ELSE {}))
                     \ (IF flags.in_fsck THEN {} ELSE r.failing \cap r.backoff)
             rec == [r EXCEPT !.passes = orig, !.attempted = {}]
  <2>1. run.pc = "begin" /\ Dispatch(rec, orig, FALSE, hist)
    BY <1>21 DEF Begin
  <2>2. UNCHANGED <<use, sb, flags, queued, mount>>
    BY <1>21 DEF Begin
  <2>3. r \in RecoveryType /\ run.orig \in SUBSET Pass
    BY <1>1 DEF TypeOK, RunType
  <2>4. orig \in SUBSET Pass /\ orig \subseteq run.orig
    BY <2>3
  <2>5. /\ r.rewound = 0 /\ hist.stale = {} /\ hist \in HistType
        /\ hist.owed \subseteq sb \cup hist.dropped \cup hist.unflushed
        /\ flags.started => run.orig \subseteq Online
    BY <2>1 DEF IInv, TypeOK, IdleInv, StaleInv, WhoInv, RequestKept, InLoop
  <2> HIDE DEF orig
  <2>6. /\ rec \in RecoveryType /\ rec.rewound = 0 /\ rec.passes = orig
        /\ rec.attempted = {} /\ rec.ephemeral = r.ephemeral
    BY <2>3, <2>4, <2>5 DEF RecoveryType
  <2> HIDE DEF rec
  <2> QED
    BY <2>1, <2>2, <2>4, <2>5, <2>6, DispatchKeeps
<1>22. CASE JournalFlush
  <2>1. InLoop /\ UNCHANGED <<use, sb, flags, queued, mount>>
    BY <1>22 DEF JournalFlush, InLoop
  <2>2. PICK ok \in BOOLEAN : Settle(ok)
    BY <1>22 DEF JournalFlush
  <2> QED
    BY <2>1, <2>2, SettleKeeps
<1>23. CASE SettleFailed
  <2>1. InLoop /\ Settle(FALSE) /\ UNCHANGED <<use, sb, flags, queued, mount>>
    BY <1>23 DEF SettleFailed, InLoop
  <2> QED
    BY <2>1, SettleKeeps
<1>24. ASSUME NEW q \in Request, RunExplicit(q) PROVE IInv'
  BY <1>24, RequestKeeps
<1>25. ASSUME NEW p \in Pass, Require(p) PROVE IInv'
  <2> DEFINE q == [pass |-> p, ephemeral |-> FALSE, ratelimit |-> FALSE, limited |-> FALSE]
  <2>1. q \in Request /\ RunExplicit(q)
    BY <1>25 DEF Require, Request
  <2> QED
    BY <2>1, RequestKeeps
<1>26. ASSUME NEW p \in Pass, BackoffExpires(p) PROVE IInv'
  <2>1. TypeOK'
    BY <1>26, <1>1 DEF BackoffExpires, TypeOK, RecoveryType
  <2>2. /\ r'.current = r.current /\ r'.passes = r.passes /\ r'.attempted = r.attempted
        /\ r'.rewound = r.rewound /\ r'.ephemeral = r.ephemeral
        /\ UNCHANGED <<use, sb, flags, run, queued, mount, hist>>
    BY <1>26, <1>1 DEF BackoffExpires, TypeOK, RecoveryType
  <2>3. InLoop' = InLoop
    BY <2>2 DEF InLoop
  <2>4. IdleInv' /\ LoopInv'
    BY <2>2, <2>3 DEF IInv, IdleInv, LoopInv
  <2>5. StaleInv'
    BY <2>2, <2>3 DEF IInv, StaleInv, DependentsRerun
  <2>6. WhoInv' /\ LiveInv' /\ RequestKept' /\ PutInv'
    BY <2>2, <2>3 DEF IInv, WhoInv, LiveInv, RequestKept, PutInv, ScheduledKept
  <2> QED
    BY <2>1, <2>4, <2>5, <2>6 DEF IInv
<1>27. CASE UNCHANGED vars
  <2>1. TypeOK' /\ InLoop' = InLoop
    BY <1>27, <1>1 DEF vars, TypeOK, InLoop
  <2>2. IdleInv' /\ LoopInv' /\ StaleInv'
    BY <1>27, <2>1 DEF vars, IInv, IdleInv, LoopInv, StaleInv, DependentsRerun
  <2>3. WhoInv' /\ LiveInv' /\ RequestKept' /\ PutInv'
    BY <1>27, <2>1 DEF vars, IInv, WhoInv, LiveInv, RequestKept, PutInv, ScheduledKept
  <2> QED
    BY <2>1, <2>2, <2>3 DEF IInv
<1> QED
  BY <1>2, <1>3, <1>4, <1>5, <1>6, <1>7, <1>8, <1>9, <1>10, <1>11, <1>12, <1>13, <1>14,
      <1>15, <1>16, <1>17, <1>18, <1>19, <1>20, <1>21, <1>22, <1>23, <1>24, <1>25, <1>26, <1>27
     DEF Next, Loop, MountSteps

-----------------------------------------------------------------------------
(* The theorems *)

\* Every mount begins with the invariant.
LEMMA InitKeeps == Init => IInv
<1> SUFFICES ASSUME Init PROVE IInv
  OBVIOUS
<1>1. use \in UseType /\ use.required \in SUBSET Pass /\ use.fsck \in BOOLEAN
  BY UsesAssumption DEF Init, UseType
<1>2. TypeOK
  BY <1>1 DEF Init, Fresh, NoRun, TypeOK, RecoveryType, FlagsType, RunType, MountType, HistType
<1> QED
  BY <1>2 DEF Init, Fresh, NoRun, IInv, IdleInv, LoopInv, StaleInv, DependentsRerun, WhoInv,
              LiveInv, RequestKept, PutInv, ScheduledKept, InLoop

\* The invariant holds throughout every behaviour of the runner.
LEMMA Invariant == Spec => []IInv
BY InitKeeps, StepKeeps, PTL DEF Spec

\* Every variable has its type: a bitmap only ever holds passes of the table.
THEOREM TypeCorrect == Spec => []TypeOK
<1>1. IInv => TypeOK
  BY DEF IInv
<1> QED
  BY <1>1, Invariant, PTL

\* Whatever the table, and whatever is requested, fails and rewinds, a pass that ran
\* before one it depends on is run again before the run ends without an error
\* (bch2_run_recovery_passes).
THEOREM DependentsAreRerun == Spec => []DependentsRerun
<1>1. IInv => DependentsRerun
  BY DEF IInv, StaleInv
<1> QED
  BY <1>1, Invariant, PTL

\* Whatever the table, a pass that is not marked PASS_ONLINE runs on a started
\* filesystem only if the run in progress had it when the filesystem was started
\* (recovery_pass_may_run_now).
THEOREM OfflineStaysOffline == Spec => []OfflineNotOnline
<1>1. IInv => OfflineNotOnline
  BY DEF IInv, LiveInv, OfflineNotOnline
<1> QED
  BY <1>1, Invariant, PTL

\* Whatever the table, a pass that is scheduled in memory, but for the requests between
\* the mount's load and its store, stays scheduled until it is attempted
\* (scheduled_passes_ephemeral).
THEOREM ScheduledIsKept == Spec => []ScheduledKept
<1>1. IInv => ScheduledKept
  BY DEF IInv, PutInv
<1> QED
  BY <1>1, Invariant, PTL

\* A requirement recorded in the superblock is there until a run of the pass that began
\* later has succeeded and is on disk, but for a request made while the pass runs and a
\* journal flush that does not happen (bch2_sb_recovery_pass_complete).
THEOREM RequestsAreKept == Spec => []RequestKept
<1>1. IInv => RequestKept
  BY DEF IInv
<1> QED
  BY <1>1, Invariant, PTL

=============================================================================
