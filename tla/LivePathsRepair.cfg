SPECIFICATION ViewedSpec
CONSTANTS
    Cameras = {a}
    Modes = {"selected", "grid"}
    Sources = {s1}
    Calls = {k1, k2}
    None = None
    Viewed <- GridViewed
    Ops <- RepairOps
INVARIANTS NoDeadPromise DisabledIsDark
PROPERTIES OpenedComesBack
CHECK_DEADLOCK FALSE
