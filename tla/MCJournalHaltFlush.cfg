CONSTANTS
    t1 = t1
    t2 = t2
    n1 = n1
    k1 = k1
    Tasks <- TwoTasks
    Nodes <- OneNode
    Keys  <- OneKey
    Home  <- HomeOf
    MaxSeq = 4
    BufNr  = 4
    OpenNr = 2
    PinNr  = 4
    Uses  <- HaltUses
VIEW View
SPECIFICATION Spec
INVARIANTS FlushSeqDurable
CHECK_DEADLOCK FALSE
