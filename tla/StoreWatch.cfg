SPECIFICATION Spec
CONSTANTS
    MaxBackup = 3
    Part = {x, y}
    Op = {o1}
    Keep = 1
    Own = Own
    NoKey = NoKey
    NoManifest = {NoEntry}
    NoState = NoState
    Workloads = {{"in_order", "upload_diff", "kill", "clean_broken"}}
    MaxCrashes = 1
    MaxFaults = 1
    MaxMisreads = 0
SYMMETRY Symmetry
CHECK_DEADLOCK FALSE
INVARIANT PublishedComplete
INVARIANT KeptRestorable
INVARIANT LiveDataIsListed
