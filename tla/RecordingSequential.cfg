SPECIFICATION FairSpec
CONSTANTS
    Calls = {c1}
    Procs = {p1, p2}
    NoProc = NoProc
    Ops <- SequentialOps
INVARIANTS DisabledDoesNotRecord
PROPERTIES StopReleases StopEnds 
CHECK_DEADLOCK FALSE
