--------------------------- MODULE MCTwoStateLock ---------------------------
(* TwoStateLock for TLC: three tasks. *)
EXTENDS TwoStateLock

CONSTANTS t1, t2, t3

MCThreads == {t1, t2, t3}
=============================================================================
