SPECIFICATION Spec
CONSTANTS
    Calls = {c1, c2}
    Procs = {p1, p2}
    NoProc = NoProc
    Ops <- SightedOps
SYMMETRY Symmetry
INVARIANTS NewestIsTracked  FinalScanAfterSignal FlagFollowsProcess
CHECK_DEADLOCK FALSE
