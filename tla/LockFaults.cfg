SPECIFICATION FairSpec
CONSTANTS
    t1 = t1  t2 = t2  t3 = t3
    p1 = p1  p2 = p2  p3 = p3
    a = a
    Task = {t1, t2}
    Proc = {p1, p2}
    ProcOf <- TwoClis
    Name = {a}
    GlobalStem = global
    Gate = gate
    NoName = NoName
    NoFile = NoFile
    Corrupt = Corrupt
    NoScope = NoScope
    HasToken = TRUE
    ACQUIRE_MAX_ATTEMPTS = 3
    CORRUPT_LOCK_MAX_READS = 1
    GATE_MAX_ATTEMPTS = 1
    LeftOver = {gate}
    MaxExits = 1
    MaxCrashes = 1
    MaxIoFaults = 1
INVARIANT ExclusionUnlessBreach
INVARIANT NoLeakedLock
PROPERTY SoloAcquires
PROPERTY AcquireReturns
