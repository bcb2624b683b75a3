------------------------------ MODULE ModeLock ------------------------------
(***************************************************************************)
(* What every lock of bcachefs promises its users, without saying how: an  *)
(* owner holds a set of modes, owners change what they hold one at a time, *)
(* and an owner only ever comes to hold modes that go together with all    *)
(* the modes the other owners hold at that moment.  The two-state lock,    *)
(* the six lock and the nocow lock table are shown to implement it.        *)
(***************************************************************************)
CONSTANTS Owners,       \* the tasks, or the sides of a hand-off
          Modes,        \* the ways to hold the lock
          Compatible    \* the pairs of modes two owners may hold at once

VARIABLE held           \* held[t]: the modes t holds

Fits(t, S) ==
    \A u \in Owners \ {t} : \A m \in S : \A n \in held[u] : <<m, n>> \in Compatible

Init == held = [t \in Owners |-> {}]

Change(t, S) ==
    /\ held' = [held EXCEPT ![t] = S]
    /\ Fits(t, S)

Next == \E t \in Owners : \E S \in SUBSET Modes : Change(t, S)

Spec == Init /\ [][Next]_held
=============================================================================
