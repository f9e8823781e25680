SPECIFICATION Spec
CONSTANTS
    Segs = {1, 2, 3}
    States = {s1, s2}
    Recoveries = {r1}
    None = None
    Ops <- RecoveryOps
SYMMETRY Symmetry
INVARIANTS NoFootageLost RegisteredPlayable
PROPERTIES ArchiveSpec
CHECK_DEADLOCK FALSE
