SPECIFICATION FairSpec
CONSTANTS
    Ports = {p1, p2}
    Patterns = {}
    LatchCalls = {}
    Keys = {k1}
    Limits = {low}
    Paused = paused
    None = None
    TestSteps = 1
    MaxQueue = 1
PROPERTIES
    LifecycleCompletes
    FramesLeave
