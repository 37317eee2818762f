SPECIFICATION WatchFairSpec
CONSTANTS
    s1 = s1  s2 = s2  k1 = k1  k2 = k2
    Boot = Boot
    Start = {s1, s2}
    Stop = {k1}
    NoLoop = NoLoop
    NoBackup = NoBackup
    WatchEnabled = TRUE
    watch_interval = 1
    full_interval = 2
    retry_interval = 1
    Configs <- AllConfigs
    Faults = TRUE
    ErrorCap = 2
    MaxWatchReloads = 1
CHECK_DEADLOCK FALSE
INVARIANT OneLoop
INVARIANT ErrorsForceFull
INVARIANT FullCadence
PROPERTY StopEnds
PROPERTY LockReturns
