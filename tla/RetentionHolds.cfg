SPECIFICATION Spec
CONSTANTS
    Recordings <- TwoRecordings
    c1 = c1
    r1 = r1
    r2 = r2
    Clips = {c1}
    Source <- SourceOne
    Events = {}
    Held <- HeldSets
    Runs = {r1, r2}
    Trigger = 1
    Target = 0
    Batch = 1
    Iterations = 1
    Ops <- SafetyOps
INVARIANTS ClipFilesListed
PROPERTIES HoldRespected
CHECK_DEADLOCK FALSE
SYMMETRY RunsAreAlike
