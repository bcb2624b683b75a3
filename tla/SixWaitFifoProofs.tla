-------------------------- MODULE SixWaitFifoProofs --------------------------
(* The wait lists of six locks are sound for every size, any number of locks  *)
(* and waiters, and every order of arrivals, wakeups and aborts.              *)
EXTENDS SixWaitFifo, TLAPS

(* What FifoTypeOK and OwnSlot say of one list f, the tasks S that wait there *)
(* and the slots s that tasks remember.                                       *)
ListOK(f, S, s) ==
    /\ WellFormed(f)
    /\ \A w \in S : s[w] \in 0 .. f.nr - 1 /\ f.data[s[w]] # None /\ f.data[s[w]].w = w
    /\ \A i \in Slots(f) : f.data[i] # None => f.data[i].w \in S /\ s[f.data[i].w] = i

Inv == FifoTypeOK /\ OwnSlot

(* A list with a size, a count, a hint and slots that fit is well formed. *)
LEMMA RecordOK ==
    ASSUME NEW z \in Nat \ {0}, NEW n \in Nat, n <= z, NEW h \in 0 .. z - 1,
           NEW d \in [0 .. z - 1 -> Entry \cup {None}]
    PROVE  WellFormed([size |-> z, nr |-> n, hint |-> h, data |-> d])
<1>1. h \in Nat
  OBVIOUS
<1> QED
  BY <1>1 DEF WellFormed, Slots

(* The slot six_lock_wait_fifo_insert() settles on is empty. *)
LEMMA FreeSlotEmpty ==
    ASSUME NEW f, NEW S, NEW s, ListOK(f, S, s), NEW i \in Slots(f), FreeSlot(f, i)
    PROVE  f.data[i] = None
<1>1. f.nr \in Nat /\ f.size \in Nat
  BY DEF ListOK, WellFormed
<1>2. CASE i = f.nr
  <2>1. SUFFICES ASSUME f.data[i] # None PROVE FALSE
    OBVIOUS
  <2>2. f.data[i].w \in S /\ s[f.data[i].w] = i
    BY <2>1 DEF ListOK
  <2>3. s[f.data[i].w] \in 0 .. f.nr - 1
    BY <2>2 DEF ListOK
  <2> QED
    BY <1>1, <1>2, <2>2, <2>3
<1>3. CASE i # f.nr
  BY <1>3 DEF FreeSlot
<1> QED
  BY <1>2, <1>3

(* Writing the entry of a task that does not wait to an empty slot. *)
LEMMA FillSound ==
    ASSUME NEW f, NEW S \in SUBSET Waiters, NEW s \in [Waiters -> Nat], ListOK(f, S, s),
           NEW e \in Entry, e.w \notin S, NEW i \in Slots(f), f.data[i] = None
    PROVE  ListOK(Filled(f, e, i), S \cup {e.w}, [s EXCEPT ![e.w] = i])
<1> DEFINE g == Filled(f, e, i)
           T == S \cup {e.w}
           t == [s EXCEPT ![e.w] = i]
<1>1. /\ f.size \in Nat \ {0} /\ f.nr \in Nat /\ f.nr <= f.size /\ f.hint \in Nat
      /\ f.data \in [0 .. f.size - 1 -> Entry \cup {None}] /\ i \in 0 .. f.size - 1
  BY DEF ListOK, WellFormed, Slots
<1>2. e.w \in Waiters /\ e # None
  BY FifoAssumption DEF Entry
<1>3. /\ g.size = f.size /\ g.data = [f.data EXCEPT ![i] = e]
      /\ g.nr = IF i + 1 > f.nr THEN i + 1 ELSE f.nr
      /\ g.hint = (i + 1) % f.size
      /\ g = [size |-> g.size, nr |-> g.nr, hint |-> g.hint, data |-> g.data]
  BY DEF Filled
<1> HIDE DEF g
<1>4. g.hint \in 0 .. g.size - 1 /\ g.nr \in Nat /\ g.nr <= g.size /\ f.nr <= g.nr /\ i < g.nr
  BY <1>1, <1>3
<1>5. g.data \in [0 .. g.size - 1 -> Entry \cup {None}]
  BY <1>1, <1>3
<1>6. WellFormed(g)
  <2>1. g.size \in Nat \ {0}
    BY <1>1, <1>3
  <2>2. WellFormed([size |-> g.size, nr |-> g.nr, hint |-> g.hint, data |-> g.data])
    BY <2>1, <1>4, <1>5, RecordOK
  <2> QED
    BY <2>2, <1>3
<1>7. ASSUME NEW w \in T
      PROVE  t[w] \in 0 .. g.nr - 1 /\ g.data[t[w]] # None /\ g.data[t[w]].w = w
  <2>1. CASE w = e.w
    <3>1. t[w] = i /\ g.data[i] = e
      BY <1>1, <1>2, <1>3, <2>1
    <3> QED
      BY <3>1, <1>1, <1>2, <1>4, <2>1
  <2>2. CASE w # e.w
    <3>1. w \in S /\ t[w] = s[w]
      BY <1>7, <2>2
    <3>2. s[w] \in 0 .. f.nr - 1 /\ f.data[s[w]] # None /\ f.data[s[w]].w = w
      BY <3>1 DEF ListOK
    <3>3. s[w] # i /\ s[w] \in 0 .. f.size - 1 /\ s[w] \in 0 .. g.nr - 1
      BY <1>1, <1>4, <3>2
    <3>4. g.data[s[w]] = f.data[s[w]]
      BY <1>1, <1>3, <3>3
    <3> QED
      BY <3>1, <3>2, <3>3, <3>4
  <2> QED
    BY <2>1, <2>2
<1>8. ASSUME NEW k \in Slots(g), g.data[k] # None
      PROVE  g.data[k].w \in T /\ t[g.data[k].w] = k
  <2>0. k \in 0 .. f.size - 1
    BY <1>3 DEF Slots
  <2>1. CASE k = i
    BY <1>1, <1>2, <1>3, <2>1
  <2>2. CASE k # i
    <3>1. g.data[k] = f.data[k]
      BY <1>1, <1>3, <2>0, <2>2
    <3>2. f.data[k].w \in S /\ s[f.data[k].w] = k
      BY <1>8, <2>0, <3>1 DEF ListOK, Slots
    <3> QED
      BY <3>1, <3>2
  <2> QED
    BY <2>1, <2>2
<1> QED
  BY <1>6, <1>7, <1>8 DEF ListOK, g

(* A list of twice the size with the same entries. *)
LEMMA GrowSound ==
    ASSUME NEW f, NEW S, NEW s, ListOK(f, S, s)
    PROVE  ListOK(Grown(f), S, s)
<1> DEFINE g == Grown(f)
<1>1. /\ f.size \in Nat \ {0} /\ f.nr \in Nat /\ f.nr <= f.size
      /\ f.data \in [0 .. f.size - 1 -> Entry \cup {None}]
  BY DEF ListOK, WellFormed, Slots
<1>2. /\ g.size = 2 * f.size /\ g.nr = f.nr /\ g.hint = 0
      /\ g.data = [i \in 0 .. g.size - 1 |-> IF i < f.nr THEN f.data[i] ELSE None]
      /\ g = [size |-> g.size, nr |-> g.nr, hint |-> g.hint, data |-> g.data]
  BY DEF Grown
<1> HIDE DEF g
<1>3. g.size \in Nat \ {0} /\ g.nr \in Nat /\ g.nr <= g.size /\ g.hint \in 0 .. g.size - 1
  BY <1>1, <1>2
<1>4. g.data \in [0 .. g.size - 1 -> Entry \cup {None}]
  <2>1. \A i \in 0 .. g.size - 1 : i < f.nr => f.data[i] \in Entry \cup {None}
    BY <1>1
  <2> QED
    BY <1>2, <2>1
<1>5. WellFormed(g)
  <2>1. WellFormed([size |-> g.size, nr |-> g.nr, hint |-> g.hint, data |-> g.data])
    BY <1>3, <1>4, RecordOK
  <2> QED
    BY <2>1, <1>2
<1>6. \A k \in 0 .. f.nr - 1 : k \in 0 .. g.size - 1 /\ g.data[k] = f.data[k]
  BY <1>1, <1>2
<1>7. ASSUME NEW w \in S
      PROVE  s[w] \in 0 .. g.nr - 1 /\ g.data[s[w]] # None /\ g.data[s[w]].w = w
  BY <1>2, <1>6 DEF ListOK
<1>8. ASSUME NEW k \in Slots(g), g.data[k] # None
      PROVE  g.data[k].w \in S /\ s[g.data[k].w] = k
  <2>1. k \in 0 .. g.size - 1 /\ k < f.nr
    BY <1>2, <1>8 DEF Slots
  <2>2. g.data[k] = f.data[k] /\ k \in Slots(f)
    BY <1>1, <1>3, <1>6, <2>1 DEF Slots
  <2> QED
    BY <1>8, <2>2 DEF ListOK
<1> QED
  BY <1>5, <1>7, <1>8 DEF ListOK, g

(* Emptying slots that are taken, and trimming the list. *)
LEMMA EmptySound ==
    ASSUME NEW f, NEW S \in SUBSET Waiters, NEW s, ListOK(f, S, s),
           NEW I \in SUBSET Slots(f), \A i \in I : f.data[i] # None,
           NEW h \in I \cup {f.hint}, NEW n \in 0 .. f.nr, Trims(Emptied(f, I), f.nr, n)
    PROVE  ListOK([size |-> f.size, nr |-> n, hint |-> IF h > n THEN n ELSE h, data |-> Emptied(f, I)],
                  S \ {f.data[i].w : i \in I}, s)
<1> DEFINE g == [size |-> f.size, nr |-> n, hint |-> IF h > n THEN n ELSE h, data |-> Emptied(f, I)]
           T == S \ {f.data[i].w : i \in I}
<1>1. /\ f.size \in Nat \ {0} /\ f.nr \in Nat /\ f.nr <= f.size
      /\ f.data \in [0 .. f.size - 1 -> Entry \cup {None}] /\ Slots(f) = 0 .. f.size - 1
      /\ h \in 0 .. f.size - 1
  BY DEF ListOK, WellFormed, Slots
<1>2. /\ g.size = f.size /\ g.nr = n /\ g.hint = IF h > n THEN n ELSE h
      /\ g.data = [i \in 0 .. f.size - 1 |-> IF i \in I THEN None ELSE f.data[i]]
      /\ g = [size |-> g.size, nr |-> g.nr, hint |-> g.hint, data |-> g.data]
  BY <1>1 DEF Emptied
<1>3. \A i \in n .. f.nr - 1 : g.data[i] = None
  BY DEF Trims
<1> HIDE DEF g
<1>4. g.nr \in Nat /\ g.nr <= g.size /\ g.hint \in 0 .. g.size - 1
  BY <1>1, <1>2
<1>5. WellFormed(g)
  <2>1. g.data \in [0 .. g.size - 1 -> Entry \cup {None}]
    BY <1>1, <1>2
  <2>2. WellFormed([size |-> g.size, nr |-> g.nr, hint |-> g.hint, data |-> g.data])
    BY <1>1, <1>2, <1>4, <2>1, RecordOK
  <2> QED
    BY <2>2, <1>2
<1>6. ASSUME NEW w \in T
      PROVE  s[w] \in 0 .. g.nr - 1 /\ g.data[s[w]] # None /\ g.data[s[w]].w = w
  <2>1. s[w] \in 0 .. f.nr - 1 /\ f.data[s[w]] # None /\ f.data[s[w]].w = w
    BY DEF ListOK
  <2>2. s[w] \notin I
    BY <2>1
  <2>3. s[w] \in 0 .. f.size - 1
    BY <1>1, <2>1
  <2>4. g.data[s[w]] = f.data[s[w]]
    BY <1>2, <2>2, <2>3
  <2>5. ~(s[w] \in n .. f.nr - 1)
    BY <1>3, <2>1, <2>4
  <2>6. s[w] \in 0 .. n - 1
    BY <1>1, <2>1, <2>5
  <2> QED
    BY <1>2, <2>1, <2>4, <2>6
<1>7. ASSUME NEW k \in Slots(g), g.data[k] # None
      PROVE  g.data[k].w \in T /\ s[g.data[k].w] = k
  <2>1. k \in 0 .. f.size - 1 /\ k \notin I /\ g.data[k] = f.data[k]
    BY <1>2, <1>7 DEF Slots
  <2>2. f.data[k].w \in S /\ s[f.data[k].w] = k
    BY <1>1, <1>7, <2>1 DEF ListOK
  <2>3. \A i \in I : s[f.data[i].w] = i
    BY DEF ListOK
  <2>4. f.data[k].w \notin {f.data[i].w : i \in I}
    BY <2>1, <2>2, <2>3
  <2> QED
    BY <2>1, <2>2, <2>4
<1> QED
  BY <1>5, <1>6, <1>7 DEF ListOK, g

(* The invariant, a list at a time. *)
LEMMA InvLists ==
    Inv <=> /\ DOMAIN fifo = Locks /\ slot \in [Waiters -> Nat] /\ on \in [Locks -> SUBSET Waiters]
            /\ \A l \in Locks : ListOK(fifo[l], on[l], slot)
BY DEF Inv, FifoTypeOK, OwnSlot, ListOK

(* A task that waits nowhere joins a list that is sound with f for its slots. *)
LEMMA JoinSound ==
    ASSUME Inv, NEW l \in Locks, NEW f, NEW e \in Entry, Idle(e.w),
           ListOK(f, on[l], slot), Join(l, f, e)
    PROVE  Inv'
<1>1. PICK i \in Slots(f) : /\ FreeSlot(f, i)
                            /\ fifo' = [fifo EXCEPT ![l] = Filled(f, e, i)]
                            /\ slot' = [slot EXCEPT ![e.w] = i]
                            /\ on' = [on EXCEPT ![l] = @ \cup {e.w}]
  BY DEF Join
<1>2. /\ DOMAIN fifo = Locks /\ slot \in [Waiters -> Nat] /\ on \in [Locks -> SUBSET Waiters]
      /\ \A m \in Locks : ListOK(fifo[m], on[m], slot)
  BY InvLists
<1>3. e.w \in Waiters /\ \A m \in Locks : e.w \notin on[m]
  BY DEF Idle, Entry
<1>4. ListOK(Filled(f, e, i), on[l] \cup {e.w}, [slot EXCEPT ![e.w] = i])
  <2>1. f.data[i] = None
    BY <1>1, FreeSlotEmpty
  <2> QED
    BY <1>2, <1>3, <2>1, FillSound
<1>5. ASSUME NEW m \in Locks, m # l
      PROVE  ListOK(fifo[m], on[m], slot')
  <2>1. \A w \in on[m] : slot'[w] = slot[w]
    BY <1>1, <1>2, <1>3
  <2> QED
    BY <1>2, <2>1 DEF ListOK
<1>6. \A m \in Locks : ListOK(fifo'[m], on'[m], slot')
  <2>1. ListOK(fifo'[l], on'[l], slot')
    BY <1>1, <1>2, <1>4
  <2>2. \A m \in Locks \ {l} : fifo'[m] = fifo[m] /\ on'[m] = on[m]
    BY <1>1, <1>2
  <2> QED
    BY <1>5, <2>1, <2>2
<1>7. slot' \in [Waiters -> Nat]
  <2>1. i \in Nat
    BY DEF Slots
  <2> QED
    BY <1>1, <1>2, <2>1
<1>8. DOMAIN fifo' = Locks /\ on' \in [Locks -> SUBSET Waiters]
  BY <1>1, <1>2, <1>3
<1> QED
  BY <1>6, <1>7, <1>8 DEF Inv, FifoTypeOK, OwnSlot, ListOK

(* Wakeups, and tasks that give up, take waiters off a list. *)
LEMMA RemoveSound ==
    ASSUME Inv, NEW l \in Locks, NEW I \in SUBSET Slots(fifo[l]),
           \A i \in I : fifo[l].data[i] # None, Remove(l, I)
    PROVE  Inv'
<1>1. PICK h \in I \cup {fifo[l].hint}, n \in 0 .. fifo[l].nr :
         /\ Trims(Emptied(fifo[l], I), fifo[l].nr, n)
         /\ fifo' = [fifo EXCEPT ![l] =
                       [size |-> fifo[l].size, nr |-> n, hint |-> IF h > n THEN n ELSE h,
                        data |-> Emptied(fifo[l], I)]]
  BY DEF Remove
<1>2. on' = [on EXCEPT ![l] = @ \ {fifo[l].data[i].w : i \in I}] /\ slot' = slot
  BY DEF Remove
<1>3. /\ DOMAIN fifo = Locks /\ slot \in [Waiters -> Nat] /\ on \in [Locks -> SUBSET Waiters]
      /\ \A m \in Locks : ListOK(fifo[m], on[m], slot)
  BY InvLists
<1>4. ListOK([size |-> fifo[l].size, nr |-> n, hint |-> IF h > n THEN n ELSE h,
              data |-> Emptied(fifo[l], I)],
             on[l] \ {fifo[l].data[i].w : i \in I}, slot)
  <2>1. on[l] \in SUBSET Waiters /\ ListOK(fifo[l], on[l], slot)
    BY <1>3
  <2> QED
    BY <1>1, <2>1, EmptySound
<1>5. \A m \in Locks : ListOK(fifo'[m], on'[m], slot')
  <2>1. ListOK(fifo'[l], on'[l], slot')
    BY <1>1, <1>2, <1>3, <1>4
  <2>2. \A m \in Locks \ {l} : fifo'[m] = fifo[m] /\ on'[m] = on[m]
    BY <1>1, <1>2, <1>3
  <2> QED
    BY <1>2, <1>3, <2>1, <2>2
<1>6. DOMAIN fifo' = Locks /\ on' \in [Locks -> SUBSET Waiters] /\ slot' \in [Waiters -> Nat]
  BY <1>1, <1>2, <1>3
<1> QED
  BY <1>5, <1>6 DEF Inv, FifoTypeOK, OwnSlot, ListOK

(* What a wakeup scan finds are slots that are taken. *)
LEMMA MatchesTaken ==
    ASSUME Inv, NEW l \in Locks, NEW type, NEW I \in SUBSET Matches(l, type)
    PROVE  I \in SUBSET Slots(fifo[l]) /\ \A i \in I : fifo[l].data[i] # None
<1>1. fifo[l].nr \in Nat /\ fifo[l].size \in Nat /\ fifo[l].nr <= fifo[l].size
  BY DEF Inv, FifoTypeOK, WellFormed
<1>2. \A i \in 0 .. fifo[l].nr - 1 : i \in 0 .. fifo[l].size - 1
  BY <1>1
<1> QED
  BY <1>2 DEF Matches, Slots

(* Every operation on the lists keeps them sound. *)
LEMMA StepSound == Inv /\ [FifoNext]_fifoVars => Inv'
<1> SUFFICES ASSUME Inv, [FifoNext]_fifoVars PROVE Inv'
  OBVIOUS
<1>1. ASSUME NEW l \in Locks, NEW e \in Entry, Insert(l, e)
      PROVE  Inv'
  <2>1. ListOK(fifo[l], on[l], slot)
    BY InvLists
  <2> QED
    BY <1>1, <2>1, JoinSound DEF Insert
<1>2. ASSUME NEW l \in Locks, NEW e \in Entry, Grow(l, e)
      PROVE  Inv'
  <2>1. ListOK(Grown(fifo[l]), on[l], slot)
    BY InvLists, GrowSound
  <2> QED
    BY <1>2, <2>1, JoinSound DEF Grow
<1>3. ASSUME NEW l \in Locks, NEW w \in Waiters, Leave(l, w)
      PROVE  Inv'
  <2>1. w \in on[l] /\ Remove(l, {slot[w]})
    BY <1>3 DEF Leave
  <2>2. slot[w] \in 0 .. fifo[l].nr - 1 /\ fifo[l].data[slot[w]] # None
    BY <2>1 DEF Inv, OwnSlot
  <2>3. slot[w] \in Slots(fifo[l])
    BY <2>2 DEF Inv, FifoTypeOK, WellFormed, Slots
  <2> QED
    BY <2>1, <2>2, <2>3, RemoveSound
<1>4. ASSUME NEW l \in Locks, WakeReaders(l)
      PROVE  Inv'
  <2>1. PICK m \in 0 .. fifo[l].nr : Remove(l, {i \in Matches(l, "read") : i < m})
    BY <1>4 DEF WakeReaders
  <2>2. {i \in Matches(l, "read") : i < m} \in SUBSET Matches(l, "read")
    OBVIOUS
  <2> QED
    BY <2>1, <2>2, MatchesTaken, RemoveSound
<1>5. ASSUME NEW l \in Locks, NEW type \in {"intent", "write"}, WakeOldest(l, type)
      PROVE  Inv'
  <2>1. PICK i \in Matches(l, type) : Remove(l, {i})
    BY <1>5 DEF WakeOldest, Oldest
  <2>2. {i} \in SUBSET Matches(l, type)
    OBVIOUS
  <2> QED
    BY <2>1, <2>2, MatchesTaken, RemoveSound
<1>6. CASE UNCHANGED fifoVars
  BY <1>6 DEF fifoVars, Inv, FifoTypeOK, OwnSlot
<1> QED
  BY <1>1, <1>2, <1>3, <1>4, <1>5, <1>6 DEF FifoNext

(* The lists are sound at first. *)
LEMMA InitSound == FifoInit => Inv
<1> SUFFICES ASSUME FifoInit PROVE Inv
  OBVIOUS
<1>1. ASSUME NEW l \in Locks PROVE ListOK(fifo[l], on[l], slot)
  <2>1. fifo[l] = [size |-> InlineSize, nr |-> 0, hint |-> 0,
                   data |-> [i \in 0 .. InlineSize - 1 |-> None]] /\ on[l] = {}
    BY DEF FifoInit
  <2> QED
    BY <2>1, FifoAssumption DEF ListOK, WellFormed, Slots
<1> QED
  BY <1>1, InvLists DEF FifoInit

(* No waiter is ever out of sight of a wakeup or of the cycle detector, and    *)
(* each takes only itself off a list, for every size of the lists and any      *)
(* number of locks and waiters (six_lock_wait_fifo_insert, _realloc, _remove). *)
THEOREM WaitListSound == FifoSpec => [](FifoTypeOK /\ OwnSlot)
<1>1. Inv => FifoTypeOK /\ OwnSlot
  BY DEF Inv
<1> QED
  BY <1>1, InitSound, StepSound, PTL DEF FifoSpec
=============================================================================
