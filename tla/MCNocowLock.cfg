SPECIFICATION FairSpec
CONSTANTS
    w1 = w1
    w2 = w2
    m1 = m1
    m2 = m2
    b1 = b1
    b2 = b2
    b3 = b3
    b4 = b4
    b5 = b5
    e1 = e1
    e2 = e2
    e3 = e3
    None = None
    Writers = {w1, w2}
    Movers = {m1, m2}
    Extents = {e1, e2, e3}
    Buckets = {b1, b2, b3, b4, b5}
    Chains = {0, 1}
    Size = 2
    Uses <- SafeUses
INVARIANTS SlotsAccount WriteLandsHome KeptUnlessUnnoticed
PROPERTIES ImplementsLock TasksEnd
CHECK_DEADLOCK FALSE
