SPECIFICATION Spec
CONSTANTS
    b1 = b1  b2 = b2  p1 = p1  p2 = p2
    Backups = {b1, b2}
    Parts = {p1, p2}
    PartsOf <- MCPartsOf
    Shared = {p1}
    S3Parts = {p2}
    NoCrc <- MCNoCrc
    OtherDisk = {p2}
    Mapped = {b1, b2}
    Resumes = {TRUE, FALSE}
    Hardlinks = {TRUE}
    Conc = 1
    Retries = 1
    MaxVersion <- MCVersions
    StaleResume = FALSE
    SaveFails = FALSE
    Kills = TRUE
    MaxRuns = 2
    MaxFaults = 1
    MaxInterrupts = 1
INVARIANT ResumeTruthful
INVARIANT ListedWhole
PROPERTY SuccessMeansComplete
CHECK_DEADLOCK FALSE
