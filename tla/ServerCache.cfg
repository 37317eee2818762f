SPECIFICATION Spec
CONSTANTS
    l1 = l1
    l2 = l2
    r1 = r1
    r2 = r2
    Name = {"a", "b", "latest"}
    Reserved = {"latest"}
    Parallel = FALSE
    Requests <- MCRequests
    Batch <- MCBatch
    BatchRoutes = {"queue", "actions"}
    Lister = {l1}
    Reloader = {r1}
    ResumeAtBoot = TRUE
    Scenes = {"quiet", "batch", "reload", "restart"}
    MaxOps = 2
    MaxVersion = 2
    MaxCrashes = 1
    MaxFaults = 1
INVARIANT CompletedVisible
INVARIANT SwapComplete
PROPERTY ListConverges
CHECK_DEADLOCK FALSE
