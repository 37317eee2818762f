SPECIFICATION FairSpec
CONSTANTS
    r1 = r1  r2 = r2  r3 = r3
    Req = {r1, r2, r3}
    QueueReqs = {r2, r3}
    Name = {a}
    NoName = NoName
    a = a
    Namings <- Conflicts
    Capacity = 2
    Modes = {FALSE}
    MaxKills = 1
    MaxReloads = 1
CHECK_DEADLOCK FALSE
INVARIANT Serialized
INVARIANT NameExclusion
INVARIANT NothingLeaks
PROPERTY EveryOpEnds
