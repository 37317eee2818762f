SPECIFICATION Spec
CONSTANTS
    MaxBackup = 2
    Part = {x, y}
    Op = {o1, o2}
    Keep = 1
    Own = Own
    NoKey = NoKey
    NoManifest = {NoEntry}
    NoState = NoState
    Workloads = {{"kill", "clean_broken"},
                 {"create_diff", "resume", "delete_remote", "clean_broken"}}
    MaxCrashes = 1
    MaxFaults = 1
    MaxMisreads = 0
SYMMETRY Symmetry
CHECK_DEADLOCK FALSE
INVARIANT CleanSparesLive
