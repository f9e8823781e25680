SPECIFICATION FairSpec
CONSTANTS
    Calls = {h1}
    DeadSyncs = 2
    Ops <- AllOps
INVARIANTS ReserveIsThere
PROPERTIES MissingComesBack ReserveStepsIn BlindReplaced
CHECK_DEADLOCK FALSE
