--------------------------- MODULE LockGraphProofs ---------------------------
(* The transactions of LockGraph use the wait lists as SixWaitFifo describes:  *)
(* for any number of transactions and locks, and whatever they lock, every     *)
(* step is a step of FifoSpec or leaves the lists alone.                       *)
EXTENDS LockGraph, SixWaitFifoProofs, WellFoundedInduction

InSlowpath == {"slow", "loop", "walk", "sleep", "unsure", "abort", "undo"}
MayBeOn    == {"loop", "walk", "sleep", "unsure", "abort"}

PCs         == {"idle", "run", "unlock", "bug"} \cup InSlowpath
Paths(u, t) == 1 .. Len(u.paths[t])
Helds(u, t) == [Paths(u, t) -> {"none", "read", "intent", "write"}]

TrType(u, t) ==
    [pc : PCs, at : Nat \ {0}, again : SUBSET Paths(u, t), held : Helds(u, t),
     locking : Locks \cup {None}, nofail : BOOLEAN, must_abort : BOOLEAN, restarted : BOOLEAN,
     reused : BOOLEAN, acquired : BOOLEAN, woken : BOOLEAN, start : Nat, begun : Nat]

(* Op(t) of a transaction with record r. *)
OpOf(u, r, t) ==
    LET nr == Len(u.paths[t])
    IN  IF r.again # {}
        THEN CHOOSE i \in r.again : \A k \in r.again : u.paths[t][i].node <= u.paths[t][k].node
        ELSE IF r.at <= nr THEN r.at
        ELSE IF r.at - nr <= Len(u.writes[t]) THEN u.writes[t][r.at - nr]
        ELSE 0

(* What the record r of transaction t is like, in a use u of the locks. *)
TaskOK(u, r, t) ==
    /\ r \in TrType(u, t)
    /\ r.again # {} => r.at <= Len(u.paths[t]) + 1
    /\ r.pc \in InSlowpath => r.locking \in Locks /\ OpOf(u, r, t) # 0
    /\ r.pc = "slow" => ~r.acquired

(* A task on the list of l is in the slow path, for l, and has not been given  *)
(* the lock yet.                                                               *)
Waits(r, l) == r.pc \in MayBeOn /\ r.locking = l /\ ~r.acquired

TaskInv ==
    /\ use \in Uses /\ clock \in Nat /\ DOMAIN tr = Trans
    /\ \A t \in Trans : TaskOK(use, tr[t], t)
    /\ \A l \in Locks : \A t \in on[l] : Waits(tr[t], l)

-----------------------------------------------------------------------------
(* Every set of natural numbers that is not empty has a smallest element.      *)
LEMMA Smallest ==
    ASSUME NEW S \in SUBSET Nat, S # {}
    PROVE  \E x \in S : \A y \in S : x <= y
<1> DEFINE R == {ss \in Nat \X Nat : ss[1] < ss[2]}
<1>1. IsWellFoundedOn(R, Nat)
  BY NatLessThanWellFounded DEF OpToRel
<1>2. PICK x \in S : \A y \in S : ~ (<<y, x>> \in R)
  <2> HIDE DEF R
  <2> QED
    BY <1>1, WFMin
<1>3. ASSUME NEW y \in S PROVE x <= y
  <2>1. x \in Nat /\ y \in Nat
    OBVIOUS
  <2>2. ~(y < x)
    BY <1>2, <2>1
  <2> QED
    BY <2>1, <2>2
<1> QED
  BY <1>3

(* The Min of such a set is it. *)
LEMMA MinIn ==
    ASSUME NEW S \in SUBSET Nat, S # {}
    PROVE  Min(S) \in S /\ \A y \in S : Min(S) <= y
BY Smallest DEF Min

(* The elements of a sequence. *)
LEMMA Elements ==
    ASSUME NEW S, NEW s \in Seq(S)
    PROVE  Len(s) \in Nat /\ \A i \in 1 .. Len(s) : s[i] \in S
OBVIOUS

(* The paths and write locks of a use of the locks. *)
LEMMA UsesTyped ==
    ASSUME NEW u \in Uses, NEW t \in Trans
    PROVE  /\ u.paths[t] \in Seq([node : Locks, want : {"read", "intent"}])
           /\ Len(u.paths[t]) \in Nat /\ Len(u.writes[t]) \in Nat
           /\ \A i \in 1 .. Len(u.paths[t]) :
                 /\ u.paths[t][i].node \in Locks /\ u.paths[t][i].node \in Nat
                 /\ u.paths[t][i].want \in {"read", "intent"}
           /\ \A i \in 1 .. Len(u.writes[t]) : u.writes[t][i] \in 1 .. Len(u.paths[t])
<1>1. u \in UseType
  BY GraphAssumption
<1>2. u.paths[t] \in Seq([node : Locks, want : {"read", "intent"}])
  BY <1>1 DEF UseType
<1>3. \A i \in 1 .. Len(u.paths[t]) : u.paths[t][i] \in [node : Locks, want : {"read", "intent"}]
  BY <1>2, Elements
<1>4. u.writes[t] \in Seq(1 .. Len(u.paths[t]))
  BY GraphAssumption
<1>5. Len(u.paths[t]) \in Nat
  BY <1>2, Elements
<1>6. Len(u.writes[t]) \in Nat /\ \A i \in 1 .. Len(u.writes[t]) : u.writes[t][i] \in 1 .. Len(u.paths[t])
  BY <1>4, Elements
<1>7. Locks \subseteq Nat
  BY GraphAssumption
<1> QED
  BY <1>2, <1>3, <1>5, <1>6, <1>7

(* What a transaction locks next is one of its paths. *)
LEMMA OpRange ==
    ASSUME NEW u \in Uses, NEW t \in Trans, NEW r, TaskOK(u, r, t), OpOf(u, r, t) # 0
    PROVE  OpOf(u, r, t) \in 1 .. Len(u.paths[t])
<1>1. r.at \in Nat \ {0} /\ r.again \in SUBSET (1 .. Len(u.paths[t]))
  BY DEF TaskOK, TrType, Paths
<1>2. CASE r.again # {}
  <2> DEFINE nodes == {u.paths[t][i].node : i \in r.again}
  <2>1. nodes \in SUBSET Nat /\ nodes # {}
    BY <1>1, <1>2, UsesTyped
  <2>2. PICK x \in nodes : \A y \in nodes : x <= y
    <3> HIDE DEF nodes
    <3> QED
      BY <2>1, Smallest
  <2>3. \E i \in r.again : \A k \in r.again : u.paths[t][i].node <= u.paths[t][k].node
    BY <2>2
  <2>4. OpOf(u, r, t) \in r.again
    BY <1>2, <2>3 DEF OpOf
  <2> QED
    BY <1>1, <2>4
<1>3. CASE r.again = {} /\ r.at <= Len(u.paths[t])
  BY <1>1, <1>3, UsesTyped DEF OpOf
<1>4. CASE r.again = {} /\ ~(r.at <= Len(u.paths[t]))
  <2>1. r.at - Len(u.paths[t]) <= Len(u.writes[t]) /\ OpOf(u, r, t) = u.writes[t][r.at - Len(u.paths[t])]
    BY <1>4 DEF OpOf
  <2>2. r.at - Len(u.paths[t]) \in 1 .. Len(u.writes[t])
    BY <1>1, <1>4, <2>1, UsesTyped
  <2> QED
    BY <2>1, <2>2, UsesTyped
<1> QED
  BY <1>2, <1>3, <1>4

(* OpOf is Op. *)
LEMMA OpIs == ASSUME NEW t PROVE Op(t) = OpOf(use, tr[t], t)
BY DEF Op, OpOf, Nr, Node

(* Two records with the same of those two. *)
LEMMA SameOp ==
    ASSUME NEW u, NEW t, NEW r, NEW q, q.again = r.again, q.at = r.at
    PROVE  OpOf(u, q, t) = OpOf(u, r, t)
BY DEF OpOf

(* What the definitions of LockGraph say of a transaction that has a lock to   *)
(* take: the node and the type of the lock.                                    *)
LEMMA OpTyped ==
    ASSUME TaskInv, NEW t \in Trans, Op(t) # 0
    PROVE  /\ Op(t) \in 1 .. Nr(t) /\ Node(t, Op(t)) \in Locks
           /\ Want(t) \in Types
           /\ ~Writes(t) => Want(t) \in {"read", "intent"}
<1>1. use \in Uses /\ TaskOK(use, tr[t], t)
  BY DEF TaskInv
<1>2. Op(t) = OpOf(use, tr[t], t) /\ Nr(t) = Len(use.paths[t])
  BY OpIs DEF Nr
<1>3. Op(t) \in 1 .. Nr(t)
  BY <1>1, <1>2, OpRange
<1>4. use.paths[t][Op(t)].node \in Locks /\ use.paths[t][Op(t)].want \in {"read", "intent"}
  BY <1>1, <1>2, <1>3, UsesTyped
<1> QED
  BY <1>3, <1>4 DEF Node, Want, Types

-----------------------------------------------------------------------------
(* A record that differs in what does not matter for the lock to take next. *)
LEMMA Flagged ==
    ASSUME NEW u, NEW t, NEW r, NEW q, TaskOK(u, r, t), q \in TrType(u, t),
           q.again = r.again, q.at = r.at, q.locking = r.locking,
           q.pc \in InSlowpath => r.pc \in InSlowpath,
           q.pc = "slow" => r.pc = "slow" /\ q.acquired = r.acquired
    PROVE  TaskOK(u, q, t)
<1>1. OpOf(u, q, t) = OpOf(u, r, t)
  BY SameOp
<1> QED
  BY <1>1 DEF TaskOK

(* A record of a transaction that is not in the slow path. *)
LEMMA Outside ==
    ASSUME NEW u, NEW t, NEW q, q \in TrType(u, t), q.pc \notin InSlowpath,
           q.again # {} => q.at <= Len(u.paths[t]) + 1
    PROVE  TaskOK(u, q, t)
BY DEF TaskOK, InSlowpath

(* A task that has nothing to do with the lists is on none. *)
LEMMA NotOn ==
    ASSUME TaskInv, NEW t, tr[t].pc \notin MayBeOn \/ tr[t].acquired
    PROVE  Idle(t)
BY DEF TaskInv, Idle, Waits

(* A step of t that leaves the lists alone. *)
LEMMA Alone ==
    ASSUME Inv, TaskInv, NEW t \in Trans, UNCHANGED <<fifo, slot, on, use>>, clock' \in Nat,
           DOMAIN tr' = Trans, \A u \in Trans \ {t} : tr'[u] = tr[u],
           TaskOK(use, tr'[t], t),
           Idle(t) \/ (/\ tr'[t].pc \in MayBeOn /\ tr'[t].locking = tr[t].locking
                       /\ tr'[t].acquired = tr[t].acquired)
    PROVE  TaskInv' /\ UNCHANGED fifoVars
<1>1. \A u \in Trans : TaskOK(use', tr'[u], u)
  BY DEF TaskInv
<1>2. ASSUME NEW l \in Locks, NEW u \in on'[l]
      PROVE  Waits(tr'[u], l)
  <2>1. u \in on[l] /\ Waits(tr[u], l)
    BY <1>2 DEF TaskInv
  <2>2. CASE u = t
    BY <2>1, <2>2 DEF Waits, Idle
  <2>3. CASE u # t
    <3>1. u \in Trans
      BY <2>1 DEF Inv, FifoTypeOK, Trans
    <3> QED
      BY <2>1, <2>3, <3>1
  <2> QED
    BY <2>2, <2>3
<1> QED
  BY <1>1, <1>2 DEF TaskInv, fifoVars

(* The record of a task that has the lock it wanted. *)
LEMMA GotOK ==
    ASSUME TaskInv, NEW t \in Trans, Op(t) # 0
    PROVE  /\ Advanced(t) \in TrType(use, t) /\ Advanced(t).pc = "run"
           /\ Got(t) \in TrType(use, t) /\ Got(t).pc = "run"
           /\ Got(t).again = Advanced(t).again /\ Got(t).at = Advanced(t).at
           /\ Advanced(t).again # {} => Advanced(t).at <= Nr(t) + 1
<1>1. tr[t] \in TrType(use, t) /\ (tr[t].again # {} => tr[t].at <= Nr(t) + 1)
  BY DEF TaskInv, TaskOK, Nr
<1>2. Op(t) \in Paths(use, t) /\ Want(t) \in {"none", "read", "intent", "write"}
  BY OpTyped DEF Nr, Types, Paths
<1>3. /\ Advanced(t) \in TrType(use, t) /\ Advanced(t).pc = "run"
      /\ Advanced(t).again # {} => Advanced(t).at <= Nr(t) + 1
  <2>0. "run" \in PCs
    BY DEF PCs
  <2>1. CASE tr[t].again # {}
    <3>1. Advanced(t) = [tr[t] EXCEPT !.again = @ \ {Op(t)}, !.pc = "run"]
      BY <2>1 DEF Advanced
    <3>2. tr[t].again \ {Op(t)} \in SUBSET Paths(use, t)
      BY <1>1 DEF TrType
    <3>3. Advanced(t) \in TrType(use, t) /\ Advanced(t).pc = "run" /\ Advanced(t).at = tr[t].at
      BY <1>1, <2>0, <3>1, <3>2 DEF TrType
    <3> QED
      BY <1>1, <2>1, <3>3
  <2>2. CASE tr[t].again = {}
    <3>1. Advanced(t) = [tr[t] EXCEPT !.at = @ + 1, !.pc = "run"]
      BY <2>2 DEF Advanced
    <3>2. tr[t].at + 1 \in Nat \ {0}
      BY <1>1 DEF TrType
    <3>3. Advanced(t) \in TrType(use, t) /\ Advanced(t).pc = "run" /\ Advanced(t).again = tr[t].again
      BY <1>1, <2>0, <3>1, <3>2 DEF TrType
    <3> QED
      BY <2>2, <3>3
  <2> QED
    BY <2>1, <2>2
<1>4. /\ Got(t) \in TrType(use, t) /\ Got(t).pc = "run"
      /\ Got(t).again = Advanced(t).again /\ Got(t).at = Advanced(t).at
  <2>1. [Advanced(t).held EXCEPT ![Op(t)] = Want(t)] \in Helds(use, t)
    BY <1>2, <1>3 DEF TrType, Helds
  <2>2. Got(t) = [Advanced(t) EXCEPT !.held = [Advanced(t).held EXCEPT ![Op(t)] = Want(t)], !.locking = None]
    BY DEF Got
  <2> QED
    BY <1>3, <2>1, <2>2 DEF TrType
<1> QED
  BY <1>3, <1>4

(* A step that gives t a lock without a wait list, or lets it do without one. *)
LEMMA Goes ==
    ASSUME Inv, TaskInv, NEW t \in Trans, UNCHANGED <<fifo, slot, on, use, clock>>,
           Op(t) # 0, Idle(t),
           \/ tr' = [tr EXCEPT ![t] = Advanced(t)]
           \/ tr' = [tr EXCEPT ![t] = Got(t)]
           \/ tr' = [tr EXCEPT ![t] = [Got(t) EXCEPT !.woken = FALSE]]
    PROVE  TaskInv' /\ UNCHANGED fifoVars
<1>1. DOMAIN tr = Trans /\ clock \in Nat
  BY DEF TaskInv
<1>2. DOMAIN tr' = Trans /\ clock' \in Nat /\ \A u \in Trans \ {t} : tr'[u] = tr[u]
  BY <1>1
<1>3. tr'[t] \in {Advanced(t), Got(t), [Got(t) EXCEPT !.woken = FALSE]}
  BY <1>1
<1>4. /\ tr'[t] \in TrType(use, t) /\ tr'[t].pc = "run"
      /\ tr'[t].again # {} => tr'[t].at <= Nr(t) + 1
  <2>1. CASE tr'[t] = Advanced(t)
    BY <2>1, GotOK
  <2>2. CASE tr'[t] = Got(t)
    BY <2>2, GotOK
  <2>3. CASE tr'[t] = [Got(t) EXCEPT !.woken = FALSE]
    <3>1. /\ tr'[t] \in TrType(use, t) /\ tr'[t].pc = Got(t).pc
          /\ tr'[t].again = Got(t).again /\ tr'[t].at = Got(t).at
      BY <2>3, GotOK DEF TrType
    <3> QED
      BY <3>1, GotOK
  <2> QED
    BY <1>3, <2>1, <2>2, <2>3
<1>5. TaskOK(use, tr'[t], t)
  BY <1>4, Outside DEF Nr, InSlowpath
<1> QED
  BY <1>2, <1>5, Alone

(* Before the slow path, and out of it. *)
LEMMA RunSteps ==
    ASSUME Inv, TaskInv, NEW t \in Trans,
           Skip(t) \/ TryLock(t) \/ SlowGet(t) \/ LoopGot(t)
    PROVE  TaskInv' /\ UNCHANGED fifoVars
<1>1. tr[t].pc \in InSlowpath => Op(t) # 0
  BY OpIs DEF TaskInv, TaskOK
<1>2. CASE Skip(t)
  <2>1. Idle(t)
    BY <1>2, NotOn DEF Skip, MayBeOn
  <2> QED
    BY <1>2, <2>1, Goes DEF Skip, Rest, fifoVars
<1>3. CASE TryLock(t)
  <2>1. Idle(t)
    BY <1>3, NotOn DEF TryLock, Lockable, MayBeOn
  <2> QED
    BY <1>3, <2>1, Goes DEF TryLock, Lockable, Rest, fifoVars
<1>4. CASE SlowGet(t)
  <2>1. Idle(t) /\ Op(t) # 0
    BY <1>1, <1>4, NotOn DEF SlowGet, MayBeOn, InSlowpath
  <2> QED
    BY <1>4, <2>1, Goes DEF SlowGet, Rest, fifoVars
<1>5. CASE LoopGot(t)
  <2>1. Idle(t) /\ Op(t) # 0
    BY <1>1, <1>5, NotOn DEF LoopGot, InSlowpath
  <2> QED
    BY <1>5, <2>1, Goes DEF LoopGot, Rest, fifoVars
<1> QED
  BY <1>2, <1>3, <1>4, <1>5

(* Starting, starting to wait, and ending. *)
LEMMA OtherSteps ==
    ASSUME Inv, TaskInv, NEW t \in Trans,
           Begin(t) \/ Contend(t) \/ Finish(t) \/ Unlocked(t)
    PROVE  TaskInv' /\ UNCHANGED fifoVars
<1>1. /\ DOMAIN tr = Trans /\ clock \in Nat /\ use \in Uses
      /\ tr[t] \in TrType(use, t) /\ (tr[t].again # {} => tr[t].at <= Len(use.paths[t]) + 1)
      /\ tr[t].at \in Nat \ {0} /\ Len(use.paths[t]) \in Nat
  BY UsesTyped DEF TaskInv, TaskOK, TrType
<1>2. CASE Begin(t)
  <2>1. Idle(t)
    BY <1>2, NotOn DEF Begin, MayBeOn
  <2>2. DOMAIN tr' = Trans /\ clock' \in Nat /\ \A u \in Trans \ {t} : tr'[u] = tr[u]
    BY <1>1, <1>2 DEF Begin
  <2>3. /\ tr'[t] \in TrType(use, t) /\ tr'[t].pc = "run"
        /\ tr'[t].again = tr[t].again /\ tr'[t].at = 1
    BY <1>1, <1>2 DEF Begin, TrType, PCs
  <2>4. TaskOK(use, tr'[t], t)
    BY <1>1, <2>3, Outside DEF InSlowpath
  <2> QED
    BY <1>2, <2>1, <2>2, <2>4, Alone DEF Begin, fifoVars
<1>3. CASE Contend(t)
  <2>1. Idle(t) /\ Op(t) # 0
    BY <1>3, NotOn DEF Contend, Lockable, MayBeOn
  <2>2. DOMAIN tr' = Trans /\ clock' \in Nat /\ \A u \in Trans \ {t} : tr'[u] = tr[u]
    BY <1>1, <1>3 DEF Contend, Rest
  <2>3. Op(t) \in Paths(use, t) /\ Node(t, Op(t)) \in Locks
    BY <2>1, OpTyped DEF Nr, Paths
  <2>4. /\ tr'[t] \in TrType(use, t) /\ tr'[t].pc = "slow" /\ tr'[t].locking = Node(t, Op(t))
        /\ tr'[t].again = tr[t].again /\ tr'[t].at = tr[t].at /\ ~tr'[t].acquired
    <3>1. "slow" \in PCs
      BY DEF PCs, InSlowpath
    <3> DEFINE held   == [tr[t].held EXCEPT ![Op(t)] = IF Writes(t) THEN "write" ELSE @]
               nofail == Writes(t) /\ t \in use.nofail
               n      == Node(t, Op(t))
    <3>2. held \in Helds(use, t)
      BY <1>1, <2>3 DEF TrType, Helds
    <3>3. nofail \in BOOLEAN /\ n \in Locks \cup {None}
      BY <2>3 DEF Writes
    <3>4. tr'[t] = [tr[t] EXCEPT !.pc = "slow", !.locking = n, !.must_abort = FALSE,
                                 !.nofail = nofail, !.acquired = FALSE, !.held = held]
      BY <1>1, <1>3 DEF Contend
    <3>5. tr[t] \in TrType(use, t)
      BY <1>1
    <3> HIDE DEF held, nofail, n
    <3>6. tr'[t] \in TrType(use, t)
      <4> DEFINE q == [tr[t] EXCEPT !.pc = "slow", !.locking = n, !.must_abort = FALSE]
      <4>1. q \in TrType(use, t)
        BY <3>1, <3>3, <3>5 DEF TrType
      <4>2. tr'[t] = [q EXCEPT !.nofail = nofail, !.acquired = FALSE, !.held = held]
        BY <3>4
      <4> HIDE DEF q
      <4> QED
        BY <3>2, <3>3, <4>1, <4>2 DEF TrType
    <3>7. /\ tr'[t].pc = "slow" /\ tr'[t].locking = n
          /\ tr'[t].again = tr[t].again /\ tr'[t].at = tr[t].at /\ ~tr'[t].acquired
      BY <3>4, <3>5 DEF TrType
    <3> QED
      BY <3>6, <3>7 DEF n
  <2>5. OpOf(use, tr'[t], t) = OpOf(use, tr[t], t) /\ Op(t) = OpOf(use, tr[t], t)
    BY <2>4, OpIs, SameOp
  <2>6. TaskOK(use, tr'[t], t)
    BY <1>1, <2>1, <2>3, <2>4, <2>5 DEF TaskOK
  <2> QED
    BY <1>3, <2>1, <2>2, <2>6, Alone DEF Contend, Rest, fifoVars
<1>4. CASE Finish(t)
  <2>1. Idle(t)
    BY <1>4, NotOn DEF Finish, MayBeOn
  <2>2. DOMAIN tr' = Trans /\ clock' \in Nat /\ \A u \in Trans \ {t} : tr'[u] = tr[u]
    BY <1>1, <1>4 DEF Finish, Rest
  <2>3. /\ tr'[t] \in TrType(use, t) /\ tr'[t].pc = "unlock"
        /\ tr'[t].again = tr[t].again /\ tr'[t].at = tr[t].at
    BY <1>1, <1>4 DEF Finish, TrType, PCs
  <2>4. TaskOK(use, tr'[t], t)
    BY <1>1, <2>3, Outside DEF InSlowpath
  <2> QED
    BY <1>4, <2>1, <2>2, <2>4, Alone DEF Finish, Rest, fifoVars
<1>5. CASE Unlocked(t)
  <2>1. Idle(t)
    BY <1>5, NotOn DEF Unlocked, MayBeOn
  <2>2. DOMAIN tr' = Trans /\ clock' \in Nat /\ \A u \in Trans \ {t} : tr'[u] = tr[u]
    BY <1>1, <1>5 DEF Unlocked, Rest
  <2>3. Reached(t) \in 0 .. Len(use.paths[t])
    <3>1. CASE tr[t].again # {}
      BY <1>1, <3>1 DEF Reached
    <3>2. CASE tr[t].again = {}
      <4>1. {tr[t].at, Nr(t)} \in SUBSET Nat /\ {tr[t].at, Nr(t)} # {}
        BY <1>1 DEF Nr
      <4>2. Min({tr[t].at, Nr(t)}) \in Nat /\ Min({tr[t].at, Nr(t)}) <= Nr(t)
        BY <4>1, MinIn
      <4> QED
        BY <3>2, <4>2, <1>1 DEF Reached, Nr
    <3> QED
      BY <3>1, <3>2
  <2>4. 1 .. Reached(t) \in SUBSET Paths(use, t) /\ Reached(t) + 1 \in Nat \ {0}
    BY <1>1, <2>3 DEF Paths
  <2>5. TaskOK(use, tr'[t], t)
    <3>0. "run" \in PCs /\ "idle" \in PCs
      BY DEF PCs
    <3>1. CASE tr[t].restarted
      <4>1. tr'[t] \in TrType(use, t) /\ tr'[t].pc = "run" /\ tr'[t].at = Reached(t) + 1
        BY <1>1, <1>5, <2>4, <3>0, <3>1 DEF Unlocked, TrType
      <4> QED
        BY <1>1, <2>3, <4>1, Outside DEF InSlowpath
    <3>2. CASE ~tr[t].restarted
      <4>1. /\ tr'[t] \in TrType(use, t) /\ tr'[t].pc = "idle"
            /\ tr'[t].again = tr[t].again /\ tr'[t].at = tr[t].at
        BY <1>1, <1>5, <3>0, <3>2 DEF Unlocked, TrType
      <4> QED
        BY <1>1, <4>1, Outside DEF InSlowpath
    <3> QED
      BY <3>1, <3>2
  <2> QED
    BY <1>5, <2>1, <2>2, <2>5, Alone DEF Unlocked, Rest, fifoVars
<1> QED
  BY <1>2, <1>3, <1>4, <1>5

-----------------------------------------------------------------------------
(* What a step may do to a task's record, its own or another's, without        *)
(* changing what it waits for: flags, and the place within the slow path.      *)
Kept(u, t, r, q) ==
    /\ q \in TrType(u, t)
    /\ q.again = r.again /\ q.at = r.at /\ q.locking = r.locking /\ q.acquired = r.acquired
    /\ q.pc = r.pc \/ (q.pc \in MayBeOn /\ r.pc \in MayBeOn)

(* Such a step keeps the invariant. *)
LEMMA KeptSound ==
    ASSUME Inv, TaskInv, UNCHANGED <<fifo, slot, on, use, clock>>, DOMAIN tr' = Trans,
           \A t \in Trans : Kept(use, t, tr[t], tr'[t])
    PROVE  TaskInv' /\ UNCHANGED fifoVars
<1>1. ASSUME NEW t \in Trans PROVE TaskOK(use', tr'[t], t)
  <2>1. TaskOK(use, tr[t], t) /\ Kept(use, t, tr[t], tr'[t])
    BY DEF TaskInv
  <2>2. /\ tr'[t].pc \in InSlowpath => tr[t].pc \in InSlowpath
        /\ tr'[t].pc = "slow" => tr[t].pc = "slow"
    BY <2>1 DEF Kept, MayBeOn, InSlowpath
  <2> QED
    BY <2>1, <2>2, Flagged DEF Kept
<1>2. ASSUME NEW l \in Locks, NEW t \in on'[l] PROVE Waits(tr'[t], l)
  <2>1. t \in Trans /\ Waits(tr[t], l)
    BY <1>2 DEF Inv, FifoTypeOK, TaskInv, Trans
  <2> QED
    BY <2>1 DEF Kept, Waits
<1> QED
  BY <1>1, <1>2 DEF TaskInv, fifoVars

(* The record of a task that is not touched. *)
LEMMA KeptSame == ASSUME TaskInv, NEW t \in Trans PROVE Kept(use, t, tr[t], tr[t])
BY DEF Kept, TaskInv, TaskOK

(* A task that is woken, or told to abort. *)
LEMMA KeptWoken ==
    ASSUME TaskInv, NEW t \in Trans
    PROVE  /\ Kept(use, t, tr[t], [tr[t] EXCEPT !.woken = TRUE])
           /\ Kept(use, t, tr[t], [tr[t] EXCEPT !.must_abort = TRUE, !.woken = TRUE])
<1>1. tr[t] \in TrType(use, t)
  BY DEF TaskInv, TaskOK
<1> QED
  BY <1>1 DEF Kept, TrType

(* A task that goes on to another place in the slow path. *)
LEMMA KeptMoved ==
    ASSUME TaskInv, NEW t \in Trans, tr[t].pc \in MayBeOn, NEW pc \in MayBeOn
    PROVE  /\ Kept(use, t, tr[t], [tr[t] EXCEPT !.pc = pc])
           /\ \A reused \in BOOLEAN :
                 Kept(use, t, tr[t], [tr[t] EXCEPT !.pc = pc, !.reused = reused, !.woken = FALSE])
<1>1. tr[t] \in TrType(use, t) /\ pc \in PCs
  BY DEF TaskInv, TaskOK, PCs, MayBeOn, InSlowpath
<1> QED
  BY <1>1 DEF Kept, TrType

(* break_cycle() and the like change only that. *)
LEMMA BreakKept ==
    ASSUME Inv, TaskInv, NEW t \in Trans, Walks(t), NEW g, NEW from,
           UNCHANGED <<fifo, slot, on, use, clock>>,
           BreakCycle(t, g, from)
    PROVE  TaskInv' /\ UNCHANGED fifoVars
<1>1. DOMAIN tr = Trans
  BY DEF TaskInv
<1>2. PICK u : \/ tr' = tr
               \/ tr' = [tr EXCEPT ![t].pc = "abort"]
               \/ tr' = [tr EXCEPT ![u].must_abort = TRUE, ![u].woken = TRUE]
  BY DEF BreakCycle
<1>3. DOMAIN tr' = Trans
  BY <1>1, <1>2
<1>4. ASSUME NEW v \in Trans PROVE Kept(use, v, tr[v], tr'[v])
  <2>1. \/ tr'[v] = tr[v]
        \/ v = t /\ tr'[v] = [tr[v] EXCEPT !.pc = "abort"]
        \/ tr'[v] = [tr[v] EXCEPT !.must_abort = TRUE, !.woken = TRUE]
    BY <1>1, <1>2
  <2>2. tr[t].pc \in MayBeOn /\ "abort" \in MayBeOn
    BY DEF Walks, MayBeOn
  <2>3. CASE tr'[v] = tr[v]
    BY <2>3, KeptSame
  <2>4. CASE v = t /\ tr'[v] = [tr[v] EXCEPT !.pc = "abort"]
    <3>1. Kept(use, t, tr[t], [tr[t] EXCEPT !.pc = "abort"])
      BY <2>2, KeptMoved
    <3> QED
      BY <2>4, <3>1
  <2>5. CASE tr'[v] = [tr[v] EXCEPT !.must_abort = TRUE, !.woken = TRUE]
    BY <2>5, KeptWoken
  <2> QED
    BY <2>1, <2>3, <2>4, <2>5
<1> QED
  BY <1>3, <1>4, KeptSound

(* The cycle detector. *)
LEMMA DetectorSteps ==
    ASSUME Inv, TaskInv, NEW t \in Trans,
           Wakes(t) \/ LoopCheck(t) \/ Descend(t) \/ Scan(t) \/ ScanRaced(t) \/ ScanSlot(t)
           \/ ScanFails(t) \/ ScanEnd(t) \/ Up(t)
    PROVE  TaskInv' /\ UNCHANGED fifoVars
<1>1. DOMAIN tr = Trans
  BY DEF TaskInv
<1>2. ASSUME NEW q, Kept(use, t, tr[t], q), tr' = [tr EXCEPT ![t] = q],
             UNCHANGED <<fifo, slot, on, use, clock>>
      PROVE  TaskInv' /\ UNCHANGED fifoVars
  <2>1. DOMAIN tr' = Trans /\ tr'[t] = q /\ \A v \in Trans \ {t} : tr'[v] = tr[v]
    BY <1>1, <1>2
  <2>2. \A v \in Trans : Kept(use, v, tr[v], tr'[v])
    BY <1>2, <2>1, KeptSame
  <2> QED
    BY <1>2, <2>1, <2>2, KeptSound
<1>3. CASE Wakes(t)
  <2>1. tr' = [tr EXCEPT ![t] = [tr[t] EXCEPT !.pc = "loop"]]
    BY <1>1, <1>3 DEF Wakes
  <2>2. tr[t].pc \in MayBeOn /\ "loop" \in MayBeOn
    BY <1>3 DEF Wakes, MayBeOn
  <2> QED
    BY <1>2, <1>3, <2>1, <2>2, KeptMoved DEF Wakes, Rest, fifoVars
<1>4. CASE LoopCheck(t)
  <2>1. PICK pc \in MayBeOn, reused \in BOOLEAN :
           tr' = [tr EXCEPT ![t] = [tr[t] EXCEPT !.pc = pc, !.reused = reused, !.woken = FALSE]]
    <3> DEFINE re == ~Writes(t) /\ tr[t].locking \in gone
               pc == IF re \/ (tr[t].must_abort /\ ~tr[t].nofail) THEN "abort" ELSE "walk"
    <3>1. pc \in MayBeOn /\ re \in BOOLEAN
      BY DEF MayBeOn
    <3>2. tr' = [tr EXCEPT ![t].pc = pc, ![t].reused = re, ![t].woken = FALSE]
      BY <1>4 DEF LoopCheck
    <3> HIDE DEF re, pc
    <3>3. tr' = [tr EXCEPT ![t] = [tr[t] EXCEPT !.pc = pc, !.reused = re, !.woken = FALSE]]
      BY <1>1, <3>2
    <3> QED
      BY <3>1, <3>3
  <2>2. tr[t].pc \in MayBeOn
    BY <1>4 DEF LoopCheck, MayBeOn
  <2> QED
    BY <1>2, <1>4, <2>1, <2>2, KeptMoved DEF LoopCheck, Rest, fifoVars
<1>5. CASE Descend(t)
  <2>1. UNCHANGED <<fifo, slot, on, use, clock>> /\ Walks(t)
    BY <1>5 DEF Descend, PastList, fifoVars
  <2> DEFINE u == Head(Top(graph[t]).list)
             g == [graph[t] EXCEPT ![Len(graph[t])].list = Tail(@)]
  <2>2. \/ \E from : BreakCycle(t, g, from)
        \/ RecursionLimit(t, g) \/ Down(t, g, u)
    BY <1>5 DEF Descend
  <2> HIDE DEF u, g
  <2>3. CASE \E from : BreakCycle(t, g, from)
    BY <2>1, <2>3, BreakKept
  <2>4. CASE RecursionLimit(t, g) /\ ~tr[t].nofail
    BY <2>1, <2>4, BreakKept DEF RecursionLimit
  <2>5. CASE RecursionLimit(t, g) /\ tr[t].nofail
    <3>1. PICK X : tr' = [v \in Trans |-> IF v \in X THEN [tr[v] EXCEPT !.woken = TRUE] ELSE tr[v]]
      <4>1. tr' = [v \in Trans |-> IF v \in {x \in Trans : \E i \in 2 .. Len(g) : g[i].trans = x}
                                   THEN [tr[v] EXCEPT !.woken = TRUE] ELSE tr[v]]
        BY <2>5 DEF RecursionLimit
      <4> QED
        BY <4>1
    <3>2. DOMAIN tr' = Trans /\ \A v \in Trans : tr'[v] = tr[v] \/ tr'[v] = [tr[v] EXCEPT !.woken = TRUE]
      BY <3>1
    <3>3. \A v \in Trans : Kept(use, v, tr[v], tr'[v])
      BY <3>2, KeptSame, KeptWoken
    <3> QED
      BY <2>1, <3>2, <3>3, KeptSound
  <2>6. CASE Down(t, g, u)
    BY <1>1, <2>1, <2>6, KeptSame, KeptSound DEF Down
  <2> QED
    BY <2>2, <2>3, <2>4, <2>5, <2>6
<1>6. CASE Scan(t) \/ ScanSlot(t) \/ ScanEnd(t)
  <2>1. UNCHANGED <<fifo, slot, on, use, clock, tr>>
    BY <1>6 DEF Scan, ScanSlot, ScanEnd, Rest, fifoVars
  <2> QED
    BY <1>1, <2>1, KeptSame, KeptSound DEF fifoVars
<1>7. CASE ScanFails(t)
  <2>1. tr' = [tr EXCEPT ![t] = [tr[t] EXCEPT !.pc = "abort"]]
    BY <1>1, <1>7 DEF ScanFails
  <2>2. tr[t].pc \in MayBeOn /\ "abort" \in MayBeOn
    BY <1>7 DEF ScanFails, InList, Walks, MayBeOn
  <2> QED
    BY <1>2, <1>7, <2>1, <2>2, KeptMoved DEF ScanFails, Rest, fifoVars
<1>8. CASE ScanRaced(t)
  <2>1. tr' = [tr EXCEPT ![t] = [tr[t] EXCEPT !.pc = "unsure"]]
    BY <1>1, <1>8 DEF ScanRaced
  <2>2. tr[t].pc \in MayBeOn /\ "unsure" \in MayBeOn
    BY <1>8 DEF ScanRaced, InList, Walks, MayBeOn
  <2> QED
    BY <1>2, <1>8, <2>1, <2>2, KeptMoved DEF ScanRaced, Rest, fifoVars
<1>9. CASE Up(t)
  <2>1. PICK pc \in MayBeOn : tr' = [tr EXCEPT ![t] = [tr[t] EXCEPT !.pc = pc]]
    <3> DEFINE pc == IF Len(graph[t]) = 1 THEN "sleep" ELSE tr[t].pc
    <3>1. pc \in MayBeOn
      BY <1>9 DEF Up, PastList, Walks, MayBeOn
    <3>2. tr' = [tr EXCEPT ![t] = [tr[t] EXCEPT !.pc = pc]]
      BY <1>1, <1>9 DEF Up
    <3> QED
      BY <3>1, <3>2
  <2>2. tr[t].pc \in MayBeOn
    BY <1>9 DEF Up, PastList, Walks, MayBeOn
  <2> QED
    BY <1>2, <1>9, <2>1, <2>2, KeptMoved DEF Up, Rest, fifoVars
<1> QED
  BY <1>3, <1>4, <1>5, <1>6, <1>7, <1>8, <1>9

(* Reclaim of a node. *)
LEMMA ReclaimSteps ==
    ASSUME Inv, TaskInv, (\E n \in Locks : ReclaimLock(n)) \/ Reclaims
    PROVE  TaskInv' /\ UNCHANGED fifoVars
<1>1. DOMAIN tr = Trans
  BY DEF TaskInv
<1>2. CASE (\E n \in Locks : ReclaimLock(n)) \/ ReclaimClear
  <2>1. UNCHANGED <<fifo, slot, on, use, clock>> /\ tr' = tr
    BY <1>2 DEF ReclaimLock, ReclaimClear, fifoVars
  <2> QED
    BY <1>1, <2>1, KeptSame, KeptSound
<1>3. CASE ReclaimWake
  <2>1. UNCHANGED <<fifo, slot, on, use, clock>>
    BY <1>3 DEF ReclaimWake, fifoVars
  <2>2. DOMAIN tr' = Trans /\ \A v \in Trans : tr'[v] = tr[v] \/ tr'[v] = [tr[v] EXCEPT !.woken = TRUE]
    BY <1>3 DEF ReclaimWake
  <2>3. \A v \in Trans : Kept(use, v, tr[v], tr'[v])
    BY <2>2, KeptSame, KeptWoken
  <2> QED
    BY <2>1, <2>2, <2>3, KeptSound
<1> QED
  BY <1>2, <1>3 DEF Reclaims

-----------------------------------------------------------------------------
(* A task that joins the list of the lock it wants. *)
LEMMA WaitStep ==
    ASSUME Inv, TaskInv, NEW t \in Trans, Wait(t)
    PROVE  TaskInv' /\ FifoNext
<1> DEFINE n == tr[t].locking
           e == [w |-> t, want |-> Want(t), start |-> tr[t].start]
<1>1. /\ DOMAIN tr = Trans /\ clock \in Nat /\ tr[t].pc = "slow"
      /\ TaskOK(use, tr[t], t) /\ tr[t] \in TrType(use, t)
  BY DEF TaskInv, TaskOK, Wait
<1>2. n \in Locks /\ Op(t) # 0
  BY <1>1, OpIs DEF TaskOK, InSlowpath
<1>3. e \in Entry
  <2>1. Want(t) \in Types /\ tr[t].start \in Nat
    BY <1>1, <1>2, OpTyped DEF TrType
  <2> QED
    BY <2>1 DEF Entry, Trans
<1>4. Insert(n, e) \/ Grow(n, e)
  BY DEF Wait
<1>5. FifoNext
  <2> HIDE DEF n, e
  <2> QED
    BY <1>2, <1>3, <1>4 DEF FifoNext
<1>6. on' = [on EXCEPT ![n] = @ \cup {t}]
  <2>1. e.w = t
    OBVIOUS
  <2> HIDE DEF n, e
  <2> QED
    BY <1>4, <2>1 DEF Insert, Grow, Join
<1>7. /\ DOMAIN tr' = Trans /\ clock' = clock /\ use' = use
      /\ tr'[t] = [tr[t] EXCEPT !.pc = "loop"] /\ \A v \in Trans \ {t} : tr'[v] = tr[v]
  BY <1>1 DEF Wait, Rest
<1>8. /\ tr'[t] \in TrType(use, t) /\ tr'[t].pc = "loop" /\ tr'[t].locking = n
      /\ tr'[t].again = tr[t].again /\ tr'[t].at = tr[t].at /\ tr'[t].acquired = tr[t].acquired
  <2>1. "loop" \in PCs
    BY DEF PCs, InSlowpath
  <2> QED
    BY <1>1, <1>7, <2>1 DEF TrType
<1>9. \A v \in Trans : TaskOK(use', tr'[v], v)
  <2>1. TaskOK(use, tr'[t], t)
    BY <1>1, <1>8, Flagged DEF InSlowpath
  <2> QED
    BY <1>7, <2>1 DEF TaskInv
<1>10. ~tr[t].acquired
  BY <1>1 DEF TaskOK
<1> HIDE DEF n
<1>11. ASSUME NEW l \in Locks, NEW v \in on'[l] PROVE Waits(tr'[v], l)
  <2>1. on \in [Locks -> SUBSET Waiters]
    BY DEF Inv, FifoTypeOK
  <2>2. CASE v = t
    <3>1. Idle(t)
      BY <1>1, NotOn DEF MayBeOn
    <3>2. l = n
      BY <1>6, <2>1, <2>2, <3>1, <1>11 DEF Idle
    <3> QED
      BY <1>8, <1>10, <2>2, <3>2 DEF Waits, MayBeOn
  <2>3. CASE v # t
    <3>1. v \in on[l] /\ v \in Trans
      BY <1>6, <2>1, <2>3, <1>11 DEF Trans
    <3>2. tr'[v] = tr[v]
      BY <1>7, <2>3, <3>1
    <3> QED
      BY <3>1, <3>2 DEF TaskInv
  <2> QED
    BY <2>2, <2>3
<1> QED
  BY <1>5, <1>7, <1>1, <1>9, <1>11 DEF TaskInv

(* A task that gives up takes itself off the list. *)
LEMMA AbortStep ==
    ASSUME Inv, TaskInv, NEW t \in Trans, Abort(t)
    PROVE  TaskInv' /\ [FifoNext]_fifoVars
<1> DEFINE n == tr[t].locking
<1>1. /\ DOMAIN tr = Trans /\ clock \in Nat /\ tr[t].pc = "abort"
      /\ TaskOK(use, tr[t], t) /\ tr[t] \in TrType(use, t)
  BY DEF TaskInv, TaskOK, Abort
<1>2. n \in Locks
  BY <1>1 DEF TaskOK, InSlowpath
<1>3. /\ DOMAIN tr' = Trans /\ clock' = clock /\ use' = use
      /\ tr'[t] = [tr[t] EXCEPT !.pc = "undo"] /\ \A v \in Trans \ {t} : tr'[v] = tr[v]
  BY <1>1 DEF Abort, Rest
<1>4. \A v \in Trans : TaskOK(use', tr'[v], v)
  <2>1. "undo" \in PCs
    BY DEF PCs, InSlowpath
  <2>2. /\ tr'[t] \in TrType(use, t) /\ tr'[t].pc = "undo" /\ tr'[t].locking = n
        /\ tr'[t].again = tr[t].again /\ tr'[t].at = tr[t].at
    BY <1>1, <1>3, <2>1 DEF TrType
  <2>3. TaskOK(use, tr'[t], t)
    BY <1>1, <2>2, Flagged DEF InSlowpath
  <2> QED
    BY <1>3, <2>3 DEF TaskInv
<1>5. on \in [Locks -> SUBSET Waiters]
  BY DEF Inv, FifoTypeOK
<1>6. (\A l \in Locks : on'[l] \subseteq on[l] /\ t \notin on'[l]) /\ [FifoNext]_fifoVars
  <2>1. CASE tr[t].acquired
    <3>1. UNCHANGED fifoVars
      BY <2>1 DEF Abort
    <3>2. Idle(t)
      BY <2>1, NotOn
    <3> QED
      BY <3>1, <3>2 DEF Idle, fifoVars
  <2>2. CASE ~tr[t].acquired
    <3>1. Leave(n, t)
      BY <2>2 DEF Abort
    <3>2. t \in on[n] /\ on' = [on EXCEPT ![n] = @ \ {fifo[n].data[i].w : i \in {slot[t]}}]
      BY <3>1 DEF Leave, Remove
    <3>3. fifo[n].data[slot[t]].w = t
      BY <1>2, <3>2 DEF Inv, OwnSlot
    <3>4. \A l \in Locks : l # n => t \notin on[l]
      BY DEF TaskInv, Waits
    <3>5. \A l \in Locks : on'[l] \subseteq on[l] /\ t \notin on'[l]
      <4> HIDE DEF n
      <4> QED
        BY <1>2, <1>5, <3>2, <3>3, <3>4
    <3>6. FifoNext
      <4> HIDE DEF n
      <4> QED
        BY <1>2, <3>1 DEF FifoNext, Trans
    <3> QED
      BY <3>5, <3>6
  <2> QED
    BY <2>1, <2>2
<1>7. ASSUME NEW l \in Locks, NEW v \in on'[l] PROVE Waits(tr'[v], l)
  <2>1. v \in on[l] /\ v # t /\ v \in Trans
    BY <1>5, <1>6 DEF Trans
  <2>2. tr'[v] = tr[v]
    BY <1>3, <2>1
  <2> QED
    BY <2>1, <2>2 DEF TaskInv
<1> QED
  BY <1>1, <1>3, <1>4, <1>6, <1>7 DEF TaskInv

(* An unlock serves the tasks in slots that a wakeup scan of the list finds,   *)
(* the ones SixWaitFifo has a wakeup for.                                      *)
LEMMA ServedWakes ==
    ASSUME Inv, NEW n \in Locks, NEW type \in Types, NEW t, NEW I \in Served(n, type, t)
    PROVE  /\ \E of \in Types : I \subseteq Matches(n, of)
           /\ I # {} /\ Remove(n, I) => FifoNext
<1>1. CASE type = "write"
  <2>1. I = Matches(n, "read")
    BY <1>1 DEF Served
  <2>2. fifo[n].nr \in Nat
    BY DEF Inv, FifoTypeOK, WellFormed
  <2>3. Matches(n, "read") = {i \in Matches(n, "read") : i < fifo[n].nr} /\ fifo[n].nr \in 0 .. fifo[n].nr
    BY <2>2 DEF Matches
  <2>4. I # {} /\ Remove(n, I) => WakeReaders(n)
    BY <2>1, <2>3 DEF WakeReaders
  <2> QED
    BY <2>1, <2>4 DEF FifoNext, Types
<1>2. ASSUME NEW of \in {"intent", "write"}, I = {} \/ \E i \in Oldest(n, of) : I = {i}
      PROVE  /\ \E o \in Types : I \subseteq Matches(n, o)
             /\ I # {} /\ Remove(n, I) => FifoNext
  <2>1. I \subseteq Matches(n, of) /\ of \in Types
    BY <1>2 DEF Oldest, Types
  <2>2. I # {} /\ Remove(n, I) => WakeOldest(n, of)
    BY <1>2 DEF WakeOldest
  <2> QED
    BY <2>1, <2>2 DEF FifoNext
<1>3. CASE type = "intent"
  BY <1>2, <1>3 DEF Served
<1>4. CASE type = "read"
  BY <1>2, <1>4 DEF Served
<1> QED
  BY <1>1, <1>3, <1>4 DEF Types

(* An unlock, and its wakeups. *)
LEMMA ReleaseStep ==
    ASSUME Inv, TaskInv, NEW t \in Trans, Idle(t), NEW n \in Locks, NEW type \in Types, NEW me,
           TaskOK(use, me, t), Release(n, type, t, me), UNCHANGED <<use, clock>>
    PROVE  TaskInv' /\ [FifoNext]_fifoVars
<1>1. PICK I \in Served(n, type, t) :
         LET W == {fifo[n].data[i].w : i \in I}
         IN  /\ tr' = [u \in Trans |->
                         IF u = t THEN me
                         ELSE IF u \in W THEN [tr[u] EXCEPT !.acquired = TRUE, !.woken = TRUE]
                         ELSE tr[u]]
             /\ IF I = {} THEN UNCHANGED fifoVars ELSE Remove(n, I)
  BY DEF Release
<1> DEFINE W == {fifo[n].data[i].w : i \in I}
<1>2. \A i \in I : i \in Slots(fifo[n]) /\ fifo[n].data[i] # None
  <2>1. PICK of \in Types : I \in SUBSET Matches(n, of)
    BY ServedWakes
  <2> QED
    BY <2>1, MatchesTaken
<1>3. \A u \in W : u \in on[n]
  <2>1. \A i \in Slots(fifo[n]) : fifo[n].data[i] # None => fifo[n].data[i].w \in on[n]
    BY DEF Inv, OwnSlot
  <2>2. \A i \in I : fifo[n].data[i].w \in on[n]
    BY <1>2, <2>1
  <2> QED
    BY <2>2
<1>4. on \in [Locks -> SUBSET Waiters]
  BY DEF Inv, FifoTypeOK
<1>5. t \notin W
  BY <1>3 DEF Idle
<1>6. /\ DOMAIN tr' = Trans /\ tr'[t] = me
      /\ \A u \in Trans : u \in W => tr'[u] = [tr[u] EXCEPT !.acquired = TRUE, !.woken = TRUE]
      /\ \A u \in Trans : u \notin W /\ u # t => tr'[u] = tr[u]
  BY <1>1, <1>5
<1>7. [FifoNext]_fifoVars
  BY <1>1, ServedWakes
<1>8. \A l \in Locks : on'[l] \subseteq on[l] /\ (l = n => on'[l] \cap W = {})
  <2>1. CASE I = {}
    <3>1. on' = on /\ W = {}
      BY <1>1, <2>1 DEF fifoVars
    <3> QED
      BY <3>1
  <2>2. CASE I # {}
    <3>1. on' = [on EXCEPT ![n] = @ \ W]
      BY <1>1, <2>2 DEF Remove
    <3> HIDE DEF W
    <3> QED
      BY <1>4, <3>1
  <2> QED
    BY <2>1, <2>2
<1> HIDE DEF W
<1>9. ASSUME NEW u \in Trans PROVE TaskOK(use', tr'[u], u)
  <2>1. CASE u = t
    BY <1>6, <2>1
  <2>2. CASE u \in W
    <3>1. TaskOK(use, tr[u], u) /\ tr[u] \in TrType(use, u)
      BY DEF TaskInv, TaskOK
    <3>2. /\ tr'[u] \in TrType(use, u) /\ tr'[u].pc = tr[u].pc /\ tr'[u].locking = tr[u].locking
          /\ tr'[u].again = tr[u].again /\ tr'[u].at = tr[u].at
      <4>1. tr'[u] = [tr[u] EXCEPT !.acquired = TRUE, !.woken = TRUE]
        BY <1>6, <2>2
      <4> QED
        BY <3>1, <4>1 DEF TrType
    <3>3. tr[u].pc # "slow"
      BY <1>3, <2>2 DEF TaskInv, Waits, MayBeOn
    <3> QED
      BY <3>1, <3>2, <3>3, Flagged
  <2>3. CASE u \notin W /\ u # t
    BY <1>6, <2>3 DEF TaskInv
  <2> QED
    BY <2>1, <2>2, <2>3
<1>10. ASSUME NEW l \in Locks, NEW u \in on'[l] PROVE Waits(tr'[u], l)
  <2>1. u \in on[l] /\ u \in Trans /\ u # t
    BY <1>4, <1>8 DEF Trans, Idle
  <2>2. u \notin W
    <3>1. SUFFICES ASSUME u \in W PROVE FALSE
      OBVIOUS
    <3>2. l = n
      BY <1>3, <2>1, <3>1 DEF TaskInv, Waits
    <3> QED
      BY <1>8, <1>10, <3>1, <3>2
  <2>3. tr'[u] = tr[u]
    BY <1>6, <2>1, <2>2
  <2> QED
    BY <2>1, <2>3 DEF TaskInv
<1> QED
  BY <1>6, <1>7, <1>9, <1>10 DEF TaskInv

(* Giving back what an aborted wait has got, and unlocking. *)
LEMMA ReleaseSteps ==
    ASSUME Inv, TaskInv, NEW t \in Trans, Undo(t) \/ Unlock(t)
    PROVE  TaskInv' /\ [FifoNext]_fifoVars
<1>1. /\ DOMAIN tr = Trans /\ clock \in Nat /\ use \in Uses
      /\ TaskOK(use, tr[t], t) /\ tr[t] \in TrType(use, t)
  BY DEF TaskInv, TaskOK
<1>2. "run" \in PCs /\ "unlock" \in PCs /\ "bug" \in PCs
  BY DEF PCs
<1>3. CASE Undo(t)
  <2> DEFINE n  == tr[t].locking
             to == [tr[t] EXCEPT !.locking = None, !.held[Op(t)] = IF Writes(t) THEN "intent" ELSE @]
             me == IF to.reused THEN [Advanced(t) EXCEPT !.locking = None, !.reused = FALSE]
                   ELSE [to EXCEPT !.pc = IF to.nofail THEN "bug" ELSE "unlock", !.restarted = TRUE]
  <2>1. n \in Locks /\ Op(t) # 0 /\ Idle(t)
    BY <1>1, <1>3, OpIs, NotOn DEF Undo, TaskOK, InSlowpath, MayBeOn
  <2>2. Op(t) \in Paths(use, t) /\ Want(t) \in Types
    BY <2>1, OpTyped DEF Paths, Nr
  <2>3. TaskOK(use, me, t)
    <3>1. CASE to.reused
      <4>1. me = [Advanced(t) EXCEPT !.locking = None, !.reused = FALSE]
        BY <3>1
      <4>2. /\ me \in TrType(use, t) /\ me.pc = "run"
            /\ me.again = Advanced(t).again /\ me.at = Advanced(t).at
        <5>1. Advanced(t) \in TrType(use, t) /\ Advanced(t).pc = "run"
          BY <2>1, GotOK
        <5> HIDE DEF me
        <5> QED
          BY <4>1, <5>1 DEF TrType
      <4> QED
        BY <2>1, <4>2, GotOK, Outside DEF InSlowpath, Nr
    <3>2. CASE ~to.reused
      <4>1. [tr[t].held EXCEPT ![Op(t)] = IF Writes(t) THEN "intent" ELSE @] \in Helds(use, t)
        BY <1>1, <2>2 DEF TrType, Helds
      <4>2. PICK pc \in {"unlock", "bug"} :
               me = [tr[t] EXCEPT !.locking = None, !.pc = pc, !.restarted = TRUE,
                       !.held = [tr[t].held EXCEPT ![Op(t)] = IF Writes(t) THEN "intent" ELSE @]]
        BY <1>1, <3>2 DEF TrType
      <4>3. me \in TrType(use, t) /\ me.pc = pc /\ me.again = tr[t].again /\ me.at = tr[t].at
        <5> HIDE DEF me
        <5> QED
          BY <1>1, <1>2, <4>1, <4>2 DEF TrType
      <4> QED
        BY <1>1, <4>3, Outside DEF InSlowpath, TaskOK
    <3> QED
      BY <3>1, <3>2
  <2>4. /\ IF tr[t].acquired \/ Writes(t)
           THEN Release(n, Want(t), t, me)
           ELSE tr' = [tr EXCEPT ![t] = me] /\ UNCHANGED <<fifoVars, lock>>
        /\ UNCHANGED <<use, clock>>
    BY <1>3 DEF Undo, Rest
  <2> HIDE DEF n, to, me
  <2>5. CASE tr[t].acquired \/ Writes(t)
    BY <2>1, <2>2, <2>3, <2>4, <2>5, ReleaseStep
  <2>6. CASE ~(tr[t].acquired \/ Writes(t))
    <3>1. tr' = [tr EXCEPT ![t] = me] /\ UNCHANGED <<fifo, slot, on, use, clock>>
      BY <2>4, <2>6 DEF fifoVars
    <3>2. DOMAIN tr' = Trans /\ tr'[t] = me /\ \A u \in Trans \ {t} : tr'[u] = tr[u]
      BY <1>1, <3>1
    <3> QED
      BY <1>1, <2>1, <2>3, <3>1, <3>2, Alone
  <2> QED
    BY <2>5, <2>6
<1>4. CASE Unlock(t)
  <2> DEFINE i    == Min(HeldPaths(t))
             type == tr[t].held[i]
             me   == [tr[t] EXCEPT !.held[i] = IF type = "write" THEN "intent" ELSE "none"]
  <2>1. tr[t].pc = "unlock" /\ Idle(t)
    BY <1>4, NotOn DEF Unlock, MayBeOn
  <2>2. i \in HeldPaths(t)
    <3>1. HeldPaths(t) \in SUBSET Nat /\ HeldPaths(t) # {}
      BY <1>4 DEF Unlock, HeldPaths
    <3> QED
      BY <3>1, MinIn
  <2>3. i \in Paths(use, t) /\ type # "none"
    BY <2>2 DEF HeldPaths, Paths, Nr
  <2>4. tr[t].held \in Helds(use, t)
    BY <1>1 DEF TrType
  <2>5. Release(Node(t, i), type, t, me) /\ UNCHANGED <<use, clock>>
    BY <1>4 DEF Unlock, Rest
  <2> HIDE DEF i
  <2>6. type \in Types /\ Node(t, i) \in Locks
    <3>1. type \in Types
      BY <2>3, <2>4 DEF Helds, Types
    <3>2. Node(t, i) \in Locks
      BY <1>1, <2>3, UsesTyped DEF Paths, Node
    <3> QED
      BY <3>1, <3>2
  <2>7. TaskOK(use, me, t)
    <3>1. [tr[t].held EXCEPT ![i] = IF type = "write" THEN "intent" ELSE "none"] \in Helds(use, t)
      BY <2>3, <2>4 DEF Helds
    <3>2. me = [tr[t] EXCEPT !.held = [tr[t].held EXCEPT ![i] = IF type = "write" THEN "intent" ELSE "none"]]
      OBVIOUS
    <3>3. me \in TrType(use, t) /\ me.pc = tr[t].pc /\ me.again = tr[t].again /\ me.at = tr[t].at
      BY <1>1, <3>1, <3>2 DEF TrType
    <3> QED
      BY <1>1, <2>1, <3>3, Outside DEF InSlowpath, TaskOK
  <2> HIDE DEF me, type
  <2> QED
    BY <2>1, <2>5, <2>6, <2>7, ReleaseStep
<1> QED
  BY <1>3, <1>4

-----------------------------------------------------------------------------
(* Every step is one of the lists, or leaves them alone. *)
LEMMA StepImplements == Inv /\ TaskInv /\ [Next]_vars => TaskInv' /\ [FifoNext]_fifoVars
<1> SUFFICES ASSUME Inv, TaskInv, [Next]_vars PROVE TaskInv' /\ [FifoNext]_fifoVars
  OBVIOUS
<1>1. CASE UNCHANGED vars
  BY <1>1 DEF vars, fifoVars, TaskInv
<1>2. ASSUME NEW t \in Trans, Begin(t) \/ Step(t) PROVE TaskInv' /\ [FifoNext]_fifoVars
  <2>1. CASE Skip(t) \/ TryLock(t) \/ SlowGet(t) \/ LoopGot(t)
    BY <2>1, RunSteps
  <2>2. CASE Begin(t) \/ Contend(t) \/ Finish(t) \/ Unlocked(t)
    BY <2>2, OtherSteps
  <2>3. CASE Wakes(t) \/ LoopCheck(t) \/ Descend(t) \/ Scan(t) \/ ScanRaced(t) \/ ScanSlot(t)
           \/ ScanFails(t) \/ ScanEnd(t) \/ Up(t)
    BY <2>3, DetectorSteps
  <2>4. CASE Wait(t)
    BY <2>4, WaitStep
  <2>5. CASE Abort(t)
    BY <2>5, AbortStep
  <2>6. CASE Undo(t) \/ Unlock(t)
    BY <2>6, ReleaseSteps
  <2> QED
    BY <1>2, <2>1, <2>2, <2>3, <2>4, <2>5, <2>6 DEF Step
<1>3. CASE (\E n \in Locks : ReclaimLock(n)) \/ Reclaims
  BY <1>3, ReclaimSteps
<1> QED
  BY <1>1, <1>2, <1>3 DEF Next

(* The tasks wait for nothing at first. *)
LEMMA InitImplements == Init => TaskInv /\ FifoInit
<1> SUFFICES ASSUME Init PROVE TaskInv
  BY DEF Init
<1>1. use \in Uses /\ clock \in Nat /\ DOMAIN tr = Trans /\ \A l \in Locks : on[l] = {}
  BY DEF Init, FifoInit
<1>2. ASSUME NEW t \in Trans PROVE TaskOK(use, tr[t], t)
  <2> DEFINE held == [i \in 1 .. Len(use.paths[t]) |-> "none"]
  <2>1. tr[t] = [pc |-> "idle", at |-> 1, again |-> {}, held |-> held,
                 locking |-> None, nofail |-> FALSE, must_abort |-> FALSE, restarted |-> FALSE,
                 reused |-> FALSE, acquired |-> FALSE, woken |-> FALSE, start |-> 0, begun |-> 0]
    BY DEF Init
  <2>2. held \in Helds(use, t) /\ "idle" \in PCs
    BY DEF Helds, Paths, PCs
  <2> HIDE DEF held
  <2>3. tr[t] \in TrType(use, t)
    <3>1. 1 \in Nat \ {0} /\ {} \in SUBSET Paths(use, t) /\ None \in Locks \cup {None} /\ 0 \in Nat
      OBVIOUS
    <3> QED
      BY <2>1, <2>2, <3>1 DEF TrType
  <2> QED
    BY <2>1, <2>3, Outside DEF InSlowpath
<1> QED
  BY <1>1, <1>2 DEF TaskInv

(* Transactions, the cycle detector and reclaim use the wait lists only by the *)
(* operations of SixWaitFifo, for any number of transactions and locks: nobody *)
(* joins a second list, and nobody leaves one it is not on.                    *)
THEOREM ListsImplemented == Spec => FifoSpec
<1>1. Init => FifoInit /\ Inv /\ TaskInv
  BY InitImplements, InitSound
<1>2. Inv /\ TaskInv /\ [Next]_vars => Inv' /\ TaskInv'
  BY StepImplements, StepSound
<1>3. Inv /\ TaskInv /\ [Next]_vars => [FifoNext]_fifoVars
  BY StepImplements
<1> QED
  BY <1>1, <1>2, <1>3, PTL DEF Spec, FifoSpec

(* So no transaction that waits is out of sight of a wakeup or of another      *)
(* transaction's cycle detector, however many there are.                       *)
THEOREM WaitersSeen == Spec => []OwnSlot
<1>1. FifoTypeOK /\ OwnSlot => OwnSlot
  OBVIOUS
<1> QED
  BY <1>1, ListsImplemented, WaitListSound, PTL
=============================================================================
