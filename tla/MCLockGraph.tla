----------------------------- MODULE MCLockGraph -----------------------------
EXTENDS LockGraph, TLC

CONSTANTS t1, t2, t3

Three == {t1, t2, t3}

R(n) == [node |-> n, want |-> "read"]
I(n) == [node |-> n, want |-> "intent"]

Base == [paths |-> t1 :> <<>> @@ t2 :> <<>> @@ t3 :> <<>>,
         writes |-> t1 :> <<>> @@ t2 :> <<>> @@ t3 :> <<>>,
         nofail |-> {}, begins |-> [t \in Three |-> 1],
         after |-> t1 :> {} @@ t2 :> {t1} @@ t3 :> {t1, t2}, depth |-> 3, reclaim |-> {}, nomem |-> FALSE]

AnyOrder == [t \in Three |-> {}]

(* Three transactions, each with a node the next one wants. *)
Circle == [Base EXCEPT !.paths = t1 :> <<I(1), I(2)>> @@ t2 :> <<I(2), I(3)>> @@ t3 :> <<I(3), I(1)>>]

CircleBack == [Circle EXCEPT !.after = t1 :> {} @@ t2 :> {t1, t3} @@ t3 :> {t1}]

(* The second and third hold what the other wants; the third gives up and then   *)
(* waits for the first, which one that still looks at it takes for a circle.      *)
MovesOn == [Base EXCEPT !.paths = t1 :> <<I(2), I(1)>> @@ t2 :> <<I(3), I(4)>> @@
                                  t3 :> <<I(2), I(4), I(1), I(3)>>]

(* Writers that wait for each other's readers; a reader that the writers hold up. *)
Writers == [Base EXCEPT !.paths = t1 :> <<I(1), R(2)>> @@ t2 :> <<I(2), R(1)>> @@ t3 :> <<R(1)>>,
                        !.writes = t1 :> <<1>> @@ t2 :> <<1>> @@ t3 :> <<>>]

(* A writer that may not fail, behind readers that wait for it. *)
Nofail == [Base EXCEPT !.paths = t1 :> <<I(1), I(2)>> @@ t2 :> <<R(1), R(2)>> @@ t3 :> <<>>,
                       !.writes = t1 :> <<2, 1>> @@ t2 :> <<>> @@ t3 :> <<>>,
                       !.nofail = {t1}, !.after = AnyOrder, !.nomem = TRUE,
                       !.begins = t1 :> 1 @@ t2 :> 2 @@ t3 :> 0]

(* Two such writers, behind a reader that waits for one and holds up the other. *)
TwoNofail == [Base EXCEPT !.paths = t1 :> <<I(1)>> @@ t2 :> <<I(2), R(1)>> @@ t3 :> <<R(2), R(1)>>,
                          !.writes = t1 :> <<1>> @@ t2 :> <<1>> @@ t3 :> <<>>,
                          !.nofail = {t1, t2}]

(* A circle that does not fit into the lock graph, with such a writer in it. *)
Shallow == [Base EXCEPT !.paths = t1 :> <<I(1)>> @@ t2 :> <<R(1), I(2)>> @@ t3 :> <<I(2), R(1)>>,
                        !.writes = t1 :> <<1>> @@ t2 :> <<>> @@ t3 :> <<>>,
                        !.nofail = {t1}, !.depth = 2]

(* One transaction and two others each wait for the other; it looks at the     *)
(* second while that one gives up, and misses the circle with the third.       *)
GivesUp == [Base EXCEPT !.paths = t1 :> <<I(1), I(2)>> @@ t2 :> <<R(2), I(1)>> @@ t3 :> <<R(2), I(1)>>,
                        !.writes = t1 :> <<2>> @@ t2 :> <<>> @@ t3 :> <<>>,
                        !.after = t1 :> {} @@ t2 :> {t1} @@ t3 :> {t1, t2}]

(* Nodes are reclaimed while they are looked up, waited for and wanted again. *)
Reclaimed == [Base EXCEPT !.paths = t1 :> <<I(1), R(2)>> @@ t2 :> <<I(2), R(1)>> @@ t3 :> <<>>,
                          !.reclaim = {2}, !.after = AnyOrder]

(* The circle of two, again and again, and no memory for the walk. *)
Again == [Base EXCEPT !.paths = t1 :> <<I(1), I(2)>> @@ t2 :> <<I(2), I(1)>> @@ t3 :> <<>>,
                      !.begins = t1 :> 2 @@ t2 :> 2 @@ t3 :> 0, !.after = AnyOrder,
                      !.nomem = TRUE]

MCUses == {Circle, CircleBack, MovesOn, Writers, Nofail, TwoNofail, Shallow, GivesUp, Reclaimed, Again}
=============================================================================
