SPECIFICATION FairSpec
CONSTANTS
    Segs = {1, 2}
    States = {s1}
    Recoveries = {r1}
    None = None
    Ops <- TogetherOps
INVARIANTS OnlyClosedRemuxed
 
CHECK_DEADLOCK FALSE
