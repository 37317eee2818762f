SPECIFICATION Spec
CONSTANTS
    t1 = t1  t2 = t2  t3 = t3  q = q  v1 = v1  v2 = v2
    Tables = {t1, t2}
    Later = {q}
    Views = {v1, v2}
    Needs <- MCNeeds
    Blocks <- MCBlocks
    Sequential = {t1}
    S3Tables = {t1}
    Replicated = {t2}
    AsAttach = TRUE
    RequireComplete = TRUE
    RbacMode = "recreate"
    Commands <- AllCommands
    Follows <- MCFollows
    Before = {TRUE, FALSE}
    Losable <- MCLosable
    MaxConn = 1
    MaxRuns = 2
    MaxFaults = 1
    MaxCrashes = 1
    Kills = TRUE
INVARIANT SuccessMeansRestored
INVARIANT StateTruthful
INVARIANT DuplicatesBounded
PROPERTY RestoreEnds
CHECK_DEADLOCK FALSE
