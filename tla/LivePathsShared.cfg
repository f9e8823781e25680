SPECIFICATION FairSpec
CONSTANTS
    Cameras = {a, b}
    Modes = {"grid"}
    Sources = {s1, s2}
    Calls = {k1, k2}
    None = None
    Viewed <- NoneViewed
    Ops <- SharedOps
INVARIANTS NoNeedlessRecreate
PROPERTIES LostComeBack
CHECK_DEADLOCK FALSE
