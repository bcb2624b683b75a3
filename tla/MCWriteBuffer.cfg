SPECIFICATION FairSpec
CONSTANTS
    p1 = p1
    p2 = p2
    Pos = {p1, p2}
    MaxSeq = 3
    MaxKeys = 4
    Uses <- SafeUses
INVARIANTS KeysPinned PinsLive Recoverable TakenOnce SyncFlushed
PROPERTIES NeverBack SyncReturns
CHECK_DEADLOCK FALSE
