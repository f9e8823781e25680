SPECIFICATION FairSpec
CONSTANTS
    AlarmIds <- TwoAlarms
    Causes = {"stream"}
    Channels <- PlanOfP3
    Attempts = 2
    Stalls = 1
    Suppress = 1
    MaxTime = 1
    Ops <- AllOps
INVARIANTS SilentUnderAKey ToldOnce
PROPERTIES JobsEnd
CHECK_DEADLOCK FALSE
