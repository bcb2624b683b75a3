CONSTANTS
    t1 = t1  t2 = t2  t3 = t3  none = none
    Threads <- Three  NoThread = none  StartTime <- Ages
    NCpu = 2  MaxDrift = 1
    MaxWrites = 1  SeqMod = 2  MaxFifo = 32768
    Uses <- LiveUses
VIEW View
SPECIFICATION FairSpec
PROPERTY WriterProgress
