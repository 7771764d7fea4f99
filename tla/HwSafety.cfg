SPECIFICATION Spec
CONSTANTS
    Ports = {p1, p2}
    Patterns = {t1}
    LatchCalls = {l1}
    Keys = {k1}
    Limits = {low}
    Paused = paused
    None = None
    TestSteps = 2
    MaxQueue = 2
SYMMETRY Symmetry
INVARIANTS
    LatchedDeviceStopped
    StoppedBeforeClose
    RoomExitHoldsStop
    PortsAccountedFor
PROPERTIES
    UnexpectedLossLatches
    MovesOnlyWhenAllowed
    ImplementsGate
