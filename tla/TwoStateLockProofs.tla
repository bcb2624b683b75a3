------------------------- MODULE TwoStateLockProofs -------------------------
(* Proofs about TwoStateLock, for every finite set of tasks. *)
EXTENDS TwoStateLock, FiniteSetTheorems, TLAPS

(* The lock word counts the holders, with the sign of their side. *)
CountInv ==
    /\ MutualExclusion
    /\ v = Cardinality(Holders(1)) - Cardinality(Holders(0))

(* The types, without the bound on the lock word: that follows from the    *)
(* count.                                                                  *)
WeakTypes ==
    /\ v \in Int
    /\ queue \subseteq Threads
    /\ pc \in [Threads -> {"idle", "prepare", "recheck", "schedule", "held", "wake"}]
    /\ side \in [Threads -> Sides]

(* The inductive invariant. *)
IInv == WeakTypes /\ CountInv /\ NoLostWakeup

(* Holders(s) is finite, because Threads is. *)
LEMMA HoldersFinite ==
    ASSUME NEW s \in Sides
    PROVE  /\ IsFiniteSet(Holders(s))
           /\ Cardinality(Holders(s)) \in Nat
           /\ Cardinality(Holders(s)) = 0 <=> Holders(s) = {}
BY ThreadsAssumption, FS_Subset, FS_CardinalityType, FS_EmptySet DEF Holders

(* The lock word is of the other side's sign exactly when that side has    *)
(* holders, so the test in bch2_two_state_trylock() is exact.              *)
LEMMA ConflictExact ==
    ASSUME WeakTypes, CountInv, NEW s \in Sides
    PROVE  Conflicts(s) <=> Holders(1 - s) # {}
<1>1. s = 0 \/ s = 1
  BY DEF Sides
<1>2. /\ Cardinality(Holders(0)) \in Nat
      /\ Cardinality(Holders(1)) \in Nat
      /\ Cardinality(Holders(0)) = 0 <=> Holders(0) = {}
      /\ Cardinality(Holders(1)) = 0 <=> Holders(1) = {}
  BY HoldersFinite DEF Sides
<1>3. CASE s = 0
  BY <1>2, <1>3 DEF CountInv, MutualExclusion, Conflicts, LockVal
<1>4. CASE s = 1
  BY <1>2, <1>4 DEF CountInv, MutualExclusion, Conflicts, LockVal
<1>. QED
  BY <1>1, <1>3, <1>4

(* A step that turns t into a holder of s, and nothing else. *)
LEMMA AcquireCounts ==
    ASSUME WeakTypes, CountInv, NEW t \in Threads, NEW s \in Sides,
           pc[t] # "held", Acquire(t, s),
           side' = [side EXCEPT ![t] = s]
    PROVE  CountInv'
<1>1. /\ Holders(s)' = Holders(s) \cup {t}
      /\ Holders(1 - s)' = Holders(1 - s)
      /\ t \notin Holders(s)
  BY DEF Acquire, Holders, WeakTypes, Sides
<1>2. Holders(1 - s) = {}
  BY ConflictExact DEF Acquire
<1>3. Cardinality(Holders(s)') = Cardinality(Holders(s)) + 1
  BY <1>1, HoldersFinite, FS_AddElement
<1>4. v' = v + LockVal(s)
  BY DEF Acquire
<1>5. /\ Cardinality(Holders(0)) \in Nat
      /\ Cardinality(Holders(1)) \in Nat
  BY HoldersFinite DEF Sides
<1>6. CASE s = 0
  <2>1. /\ Holders(1) = {}
        /\ Holders(1)' = Holders(1)
        /\ Cardinality(Holders(0)') = Cardinality(Holders(0)) + 1
        /\ v' = v - 1
    BY <1>1, <1>2, <1>3, <1>4, <1>6 DEF LockVal, WeakTypes
  <2>. QED BY <1>5, <2>1 DEF CountInv, MutualExclusion
<1>7. CASE s = 1
  <2>1. /\ Holders(0) = {}
        /\ Holders(0)' = Holders(0)
        /\ Cardinality(Holders(1)') = Cardinality(Holders(1)) + 1
        /\ v' = v + 1
    BY <1>1, <1>2, <1>3, <1>4, <1>7 DEF LockVal, WeakTypes
  <2>. QED BY <1>5, <2>1 DEF CountInv, MutualExclusion
<1>. QED
  BY <1>6, <1>7 DEF Sides

(* A step that leaves the set of holders and the lock word alone. *)
LEMMA SameHolders ==
    ASSUME CountInv, v' = v, \A s \in Sides : Holders(s)' = Holders(s)
    PROVE  CountInv'
BY DEF CountInv, MutualExclusion, Sides

(* Unlock drops one holder and one from the magnitude of the lock word. *)
LEMMA UnlockCounts ==
    ASSUME WeakTypes, CountInv, NEW t \in Threads, Unlock(t),
           NEW s \in Sides, side[t] = s
    PROVE  /\ CountInv'
           /\ v' = 0 => Holders(0)' = {} /\ Holders(1)' = {}
           /\ v' # 0 => Holders(s)' # {}
           /\ Holders(1 - s) = {}
<1>1. s = 0 \/ s = 1
  BY DEF Sides
<1>2. /\ Holders(s)' = Holders(s) \ {t}
      /\ Holders(1 - s)' = Holders(1 - s)
      /\ t \in Holders(s)
  BY <1>1 DEF Unlock, Holders, WeakTypes
<1>3. Holders(1 - s) = {}
  BY <1>1, <1>2 DEF CountInv, MutualExclusion
<1>4. /\ IsFiniteSet(Holders(s))
      /\ Cardinality(Holders(0)) \in Nat
      /\ Cardinality(Holders(1)) \in Nat
      /\ Cardinality(Holders(0)) = 0 <=> Holders(0) = {}
      /\ Cardinality(Holders(1)) = 0 <=> Holders(1) = {}
  BY <1>1, HoldersFinite DEF Sides
<1>5. Cardinality(Holders(s) \ {t}) = Cardinality(Holders(s)) - 1
  BY <1>2, <1>4, FS_RemoveElement
<1>6. /\ IsFiniteSet(Holders(s) \ {t})
      /\ Cardinality(Holders(s) \ {t}) = 0 <=> Holders(s) \ {t} = {}
  BY <1>4, FS_RemoveElement, FS_EmptySet
<1>7. v' = v - LockVal(s)
  BY DEF Unlock
<1>8. CASE s = 0
  <2>1. v' = v + 1
    BY <1>7, <1>8 DEF LockVal, WeakTypes
  <2>2. /\ Holders(1) = {} /\ Holders(1)' = {}
        /\ Cardinality(Holders(1)) = 0 /\ Cardinality(Holders(1)') = 0
        /\ Holders(0)' = Holders(0) \ {t}
    BY <1>2, <1>3, <1>4, <1>8, FS_EmptySet
  <2>3. /\ Cardinality(Holders(0)') = Cardinality(Holders(0)) - 1
        /\ Cardinality(Holders(0)') = 0 <=> Holders(0)' = {}
    BY <1>5, <1>6, <1>8, <2>2
  <2>. QED BY <1>3, <1>4, <1>8, <2>1, <2>2, <2>3 DEF CountInv, MutualExclusion
<1>9. CASE s = 1
  <2>1. v' = v - 1
    BY <1>7, <1>9 DEF LockVal, WeakTypes
  <2>2. /\ Holders(0) = {} /\ Holders(0)' = {}
        /\ Cardinality(Holders(0)) = 0 /\ Cardinality(Holders(0)') = 0
        /\ Holders(1)' = Holders(1) \ {t}
    BY <1>2, <1>3, <1>4, <1>9, FS_EmptySet
  <2>3. /\ Cardinality(Holders(1)') = Cardinality(Holders(1)) - 1
        /\ Cardinality(Holders(1)') = 0 <=> Holders(1)' = {}
    BY <1>5, <1>6, <1>9, <2>2
  <2>. QED BY <1>3, <1>4, <1>9, <2>1, <2>2, <2>3 DEF CountInv, MutualExclusion
<1>. QED
  BY <1>1, <1>8, <1>9

(* Every step of the lock preserves the inductive invariant. *)
LEMMA StepInv == IInv /\ [Next]_vars => IInv'
<1> SUFFICES ASSUME IInv, [Next]_vars PROVE IInv'
  OBVIOUS
<1> USE DEF IInv
<1>1. WeakTypes'
  BY DEF WeakTypes, Next, vars, TryLock, LockContended, Acquire, PrepareToWait,
         RecheckAcquires, RecheckFails, Schedule, Unlock, WakeUpAll, LockVal, Sides
<1>2. ASSUME NEW t \in Threads, NEW s \in Sides, TryLock(t, s)
      PROVE  CountInv' /\ NoLostWakeup'
  <2>1. CountInv'
    BY <1>2, AcquireCounts DEF TryLock
  <2>2. NoLostWakeup'
    BY <1>2 DEF NoLostWakeup, Parked, Holders, TryLock, Acquire, WeakTypes, Sides
  <2>. QED BY <2>1, <2>2
<1>3. ASSUME NEW t \in Threads, NEW s \in Sides, LockContended(t, s)
      PROVE  CountInv' /\ NoLostWakeup'
  <2>1. \A r \in Sides : Holders(r)' = Holders(r)
    BY <1>3 DEF LockContended, Holders, WeakTypes
  <2>2. CountInv'
    BY <1>3, <2>1, SameHolders DEF LockContended
  <2>3. NoLostWakeup'
    BY <1>3, <2>1 DEF NoLostWakeup, Parked, LockContended, WeakTypes, Sides
  <2>. QED BY <2>2, <2>3
<1>4. ASSUME NEW t \in Threads, PrepareToWait(t)
      PROVE  CountInv' /\ NoLostWakeup'
  <2>1. \A r \in Sides : Holders(r)' = Holders(r)
    BY <1>4 DEF PrepareToWait, Holders, WeakTypes
  <2>2. CountInv'
    BY <1>4, <2>1, SameHolders DEF PrepareToWait
  <2>3. NoLostWakeup'
    BY <1>4, <2>1 DEF NoLostWakeup, Parked, PrepareToWait, WeakTypes, Sides
  <2>. QED BY <2>2, <2>3
<1>5. ASSUME NEW t \in Threads, RecheckAcquires(t)
      PROVE  CountInv' /\ NoLostWakeup'
  <2>1. side' = [side EXCEPT ![t] = side[t]] /\ side[t] \in Sides
    BY <1>5 DEF RecheckAcquires, WeakTypes
  <2>2. CountInv'
    BY <1>5, <2>1, AcquireCounts DEF RecheckAcquires
  <2>3. NoLostWakeup'
    BY <1>5 DEF NoLostWakeup, Parked, Holders, RecheckAcquires, Acquire, WeakTypes, Sides
  <2>. QED BY <2>2, <2>3
<1>6. ASSUME NEW t \in Threads, RecheckFails(t)
      PROVE  CountInv' /\ NoLostWakeup'
  <2>1. \A r \in Sides : Holders(r)' = Holders(r)
    BY <1>6 DEF RecheckFails, Holders, WeakTypes
  <2>2. CountInv'
    BY <1>6, <2>1, SameHolders DEF RecheckFails
  <2>3. Holders(1 - side[t]) # {}
    BY <1>6, ConflictExact DEF RecheckFails, WeakTypes
  <2>4. NoLostWakeup'
    BY <1>6, <2>1, <2>3 DEF NoLostWakeup, Parked, RecheckFails, WeakTypes, Sides
  <2>. QED BY <2>2, <2>4
<1>7. ASSUME NEW t \in Threads, Schedule(t)
      PROVE  CountInv' /\ NoLostWakeup'
  <2>1. \A r \in Sides : Holders(r)' = Holders(r)
    BY <1>7 DEF Schedule, Holders, WeakTypes
  <2>2. CountInv'
    BY <1>7, <2>1, SameHolders DEF Schedule
  <2>3. NoLostWakeup'
    BY <1>7, <2>1 DEF NoLostWakeup, Parked, Schedule, WeakTypes, Sides
  <2>. QED BY <2>2, <2>3
<1>8. ASSUME NEW t \in Threads, Unlock(t)
      PROVE  CountInv' /\ NoLostWakeup'
  <2>0. PICK s \in Sides : side[t] = s
    BY DEF WeakTypes
  <2>1. /\ CountInv'
        /\ v' = 0 => Holders(0)' = {} /\ Holders(1)' = {}
        /\ v' # 0 => Holders(s)' # {}
        /\ Holders(1 - s) = {}
    BY <1>8, <2>0, UnlockCounts
  <2>2. ASSUME v' = 0 PROVE NoLostWakeup'
    <3>1. pc'[t] = "wake"
      BY <1>8, <2>2 DEF Unlock, WeakTypes
    <3>. QED BY <3>1, <2>1 DEF NoLostWakeup
  <2>3. ASSUME v' # 0 PROVE NoLostWakeup'
    <3> SUFFICES ASSUME NEW u \in Threads, Parked(u)'
                 PROVE  \/ Holders(1 - side[u])' # {}
                        \/ \E w \in Threads : pc'[w] = "wake"
      BY DEF NoLostWakeup
    <3>1. Parked(u) /\ side'[u] = side[u] /\ side' = side
      BY <1>8 DEF Parked, Unlock, WeakTypes
    <3>2. CASE \E w \in Threads : pc[w] = "wake"
      BY <1>8, <3>2 DEF Unlock, WeakTypes
    <3>3. CASE Holders(1 - side[u]) # {}
      <4>1. side[u] \in {0, 1} /\ s \in {0, 1}
        BY DEF WeakTypes, Sides
      <4>2. 1 - side[u] = s
        BY <2>1, <3>3, <4>1
      <4>3. 1 - side'[u] = s
        BY <3>1, <4>2
      <4>. QED BY <2>1, <2>3, <4>3
    <3>. QED BY <3>1, <3>2, <3>3 DEF NoLostWakeup
  <2>. QED BY <2>1, <2>2, <2>3
<1>9. ASSUME NEW t \in Threads, WakeUpAll(t)
      PROVE  CountInv' /\ NoLostWakeup'
  <2>1. \A r \in Sides : Holders(r)' = Holders(r)
    BY <1>9 DEF WakeUpAll, Holders, WeakTypes
  <2>2. CountInv'
    BY <1>9, <2>1, SameHolders DEF WakeUpAll
  <2>3. NoLostWakeup'
    BY <1>9 DEF NoLostWakeup, Parked, WakeUpAll
  <2>. QED BY <2>2, <2>3
<1>10. CASE UNCHANGED vars
  BY <1>10, <1>1 DEF vars, CountInv, MutualExclusion, NoLostWakeup, Parked, Holders
<1>. QED
  BY <1>1, <1>2, <1>3, <1>4, <1>5, <1>6, <1>7, <1>8, <1>9, <1>10 DEF Next

(* The initial state satisfies the inductive invariant. *)
LEMMA InitInv == Init => IInv
<1> SUFFICES ASSUME Init PROVE IInv
  OBVIOUS
<1>1. WeakTypes /\ NoLostWakeup
  BY DEF Init, WeakTypes, NoLostWakeup, Parked, Sides
<1>2. Holders(0) = {} /\ Holders(1) = {}
  BY DEF Init, Holders
<1>3. CountInv
  BY <1>2, FS_EmptySet DEF Init, CountInv, MutualExclusion
<1>. QED BY <1>1, <1>3 DEF IInv

(* The count bounds the lock word by the number of tasks. *)
LEMMA BoundedWord == IInv => TypeOK
<1> SUFFICES ASSUME IInv PROVE TypeOK
  OBVIOUS
<1>1. /\ Cardinality(Holders(0)) \in Nat /\ Cardinality(Holders(1)) \in Nat
      /\ Cardinality(Threads) \in Nat
      /\ Cardinality(Holders(0)) <= Cardinality(Threads)
      /\ Cardinality(Holders(1)) <= Cardinality(Threads)
  BY ThreadsAssumption, HoldersFinite, FS_Subset, FS_CardinalityType DEF Holders, Sides
<1>2. v \in -Cardinality(Threads) .. Cardinality(Threads)
  BY <1>1 DEF IInv, CountInv
<1>. QED BY <1>2 DEF IInv, WeakTypes, TypeOK

(* Type correctness of the two-state lock. *)
THEOREM TypeCorrect == Spec => []TypeOK
BY InitInv, StepInv, BoundedWord, PTL DEF Spec

(* No task of one side is ever inside together with one of the other. *)
THEOREM SidesExclude == Spec => []MutualExclusion
BY InitInv, StepInv, PTL DEF Spec, IInv, CountInv

(* No task sleeps in __bch2_two_state_lock() without somebody left to wake *)
(* it.                                                                     *)
THEOREM WakeupNotLost == Spec => []NoLostWakeup
BY InitInv, StepInv, PTL DEF Spec, IInv

(* What a task holds, seen from its program counter and its side. *)
LEMMA HeldOf ==
    ASSUME WeakTypes, NEW t \in Threads, NEW s \in Held[t]
    PROVE  s \in Sides /\ t \in Holders(s)
BY DEF Held, Holders, WeakTypes

(* The initial state of the lock is the initial state of the abstract one. *)
LEMMA InitAbstract == Init => Lock!Init
BY DEF Init, Held, Lock!Init

(* A step that leaves what every task holds alone is a stuttering step. *)
LEMMA Stutters ==
    ASSUME \A t \in Threads : (pc'[t] = "held") = (pc[t] = "held"),
           \A t \in Threads : pc[t] = "held" => side'[t] = side[t]
    PROVE  Held' = Held
BY DEF Held

(* Taking a side changes what one task holds, and the side it takes goes   *)
(* together with everything the others hold.                               *)
LEMMA AcquireAbstract ==
    ASSUME IInv, NEW t \in Threads, NEW s \in Sides, pc[t] # "held",
           Acquire(t, s), side' = [side EXCEPT ![t] = s]
    PROVE  Lock!Change(t, {s})
<1>1. Holders(1 - s) = {}
  BY ConflictExact DEF IInv, Acquire
<1>2. ASSUME NEW u \in Threads, NEW n \in Held[u] PROVE n = s
  BY <1>1, <1>2, HeldOf DEF IInv, Sides
<1>3. Lock!Fits(t, {s})
  BY <1>2 DEF Lock!Fits
<1>4. Held' = [Held EXCEPT ![t] = {s}]
  BY DEF Held, Acquire, IInv, WeakTypes
<1>. QED BY <1>3, <1>4 DEF Lock!Change

(* Every step of the lock is a step of the abstract one or leaves what the *)
(* tasks hold alone.                                                       *)
LEMMA StepAbstract == IInv /\ [Next]_vars => [Lock!Next]_Held
<1> SUFFICES ASSUME IInv, [Next]_vars PROVE [Lock!Next]_Held
  OBVIOUS
<1> USE DEF IInv
<1>1. ASSUME NEW t \in Threads, NEW s \in Sides, TryLock(t, s)
      PROVE  Lock!Next
  <2>1. Lock!Change(t, {s})
    BY <1>1, AcquireAbstract DEF TryLock
  <2>. QED BY <2>1 DEF Lock!Next
<1>2. ASSUME NEW t \in Threads, RecheckAcquires(t)
      PROVE  Lock!Next
  <2>1. side' = [side EXCEPT ![t] = side[t]] /\ side[t] \in Sides
    BY <1>2 DEF RecheckAcquires, WeakTypes
  <2>2. Lock!Change(t, {side[t]})
    BY <1>2, <2>1, AcquireAbstract DEF RecheckAcquires
  <2>. QED BY <2>1, <2>2 DEF Lock!Next
<1>3. ASSUME NEW t \in Threads, Unlock(t)
      PROVE  Lock!Next
  <2>1. Held' = [Held EXCEPT ![t] = {}]
    BY <1>3 DEF Held, Unlock, WeakTypes
  <2>2. Lock!Change(t, {})
    BY <2>1 DEF Lock!Change, Lock!Fits
  <2>. QED BY <2>2 DEF Lock!Next
<1>4. ASSUME NEW t \in Threads,
             \/ \E s \in Sides : LockContended(t, s)
             \/ PrepareToWait(t)
             \/ RecheckFails(t)
             \/ Schedule(t)
             \/ WakeUpAll(t)
      PROVE  Held' = Held
  BY <1>4, Stutters DEF LockContended, PrepareToWait, RecheckFails, Schedule,
                        WakeUpAll, WeakTypes
<1>5. CASE UNCHANGED vars
  BY <1>5 DEF vars, Held
<1>. QED
  BY <1>1, <1>2, <1>3, <1>4, <1>5 DEF Next

(* The two-state lock, with its lock word and wait queue, implements the   *)
(* abstract lock whose two sides are each shared and exclude each other.   *)
THEOREM LockImplemented == Spec => ImplementsLock
BY InitInv, StepInv, InitAbstract, StepAbstract, PTL
   DEF Spec, ImplementsLock, Lock!Spec
=============================================================================
