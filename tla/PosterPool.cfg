SPECIFICATION FairSpec
CONSTANTS
    Cameras = {c1, c2, c3}
    Calls = {k1, k2, k3}
    None = None
    Max = 1
INVARIANTS CapturesBounded OneCapturePerCamera
PROPERTIES SlotsSpec CallsAnswered
CHECK_DEADLOCK FALSE
