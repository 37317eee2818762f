SPECIFICATION Spec
CONSTANTS
    t1 = t1  t2 = t2  t3 = t3
    p1 = p1  p2 = p2  p3 = p3
    a = a
    Task = {t1, t2, t3}
    Proc = {p1, p2}
    ProcOf <- ServerAndCli
    Name = {a, global}
    GlobalStem = global
    Gate = gate
    NoName = NoName
    NoFile = NoFile
    Corrupt = Corrupt
    NoScope = NoScope
    HasToken = TRUE
    ACQUIRE_MAX_ATTEMPTS = 2
    CORRUPT_LOCK_MAX_READS = 1
    GATE_MAX_ATTEMPTS = 2
    LeftOver = {}
    MaxExits = 0
    MaxCrashes = 0
    MaxIoFaults = 0
INVARIANT TypeOK
PROPERTY ImplementsTiers
