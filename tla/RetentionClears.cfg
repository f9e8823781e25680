SPECIFICATION FairSpec
CONSTANTS
    Recordings <- TwoRecordings
    c1 = c1
    r1 = r1
    r2 = r2
    Clips = {}
    Source <- NoClips
    Events = {}
    Held <- HeldOne
    Runs = {r1}
    Trigger = 1
    Target = 0
    Batch = 1
    Iterations = 2
    Ops <- LivenessOps
PROPERTIES ExpiredGo PressureRelieved DerivedGo
CHECK_DEADLOCK FALSE
