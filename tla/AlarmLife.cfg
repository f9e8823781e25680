SPECIFICATION FairSpec
CONSTANTS
    AlarmIds <- TwoAlarms
    Causes = {"motion", "stream"}
    Motion = {"motion"}
    Recoveries <- StreamRecovers
    Handlers = {h1, h2}
    Window = 1
    Quiet = 1
    MaxEvents = 2
    MaxTime = 2
    Ops <- AllOps
INVARIANTS OneAlarmPerEpisode EveryFailureCounted FailureShows RecoveryCloses
PROPERTIES QuietMotionResolves
CHECK_DEADLOCK FALSE
