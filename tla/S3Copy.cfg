SPECIFICATION Spec
CONSTANTS
    Sizes = {3, 5}
    CopyMax = 3
    MinPart = 1
    Threshold = 3
    ChunkSizes = {0, 1}
    MaxParts = 3
    RequestTimeout = 2
    Rate = 2
    Streaming = {FALSE, TRUE}
    Keys = {1, 2, 3, 4}
    BatchMax = 2
    PageMax = 2
    MaxFaults = 4
INVARIANT CopyCorrect
INVARIANT UploadsAccounted
INVARIANT BudgetHonoured
CHECK_DEADLOCK FALSE
