SPECIFICATION Spec
CONSTANTS
    Hosts = {h1, h2}
    Viewers = {v1, v2, v3}
    Rooms = {r1}
    Names = {n1, n2}
    Capacity = 2
    Redis = FALSE
    LateDisconnects = TRUE
    MaxCommands = 1
    None = None
SYMMETRY Symmetry
INVARIANTS
    CapacityKept
    ClosedRoomIsEmpty
PROPERTIES
    LiveHostKeepsRoom
