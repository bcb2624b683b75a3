CONSTANTS
    t1 = t1  t2 = t2  t3 = t3  None = None  Reclaim = Reclaim
    Waiters <- Three
    Locks = {1, 2, 3, 4}
    InlineSize = 1
    MaxSize = 4
    Uses <- MCUses
SPECIFICATION FairSpec
INVARIANTS OwnSlot NoOneStuck NofailHolds
PROPERTY TransactionsEnd
CHECK_DEADLOCK FALSE
