SPECIFICATION Spec
CONSTANTS
    Hosts = {h1, h2}
    Viewers = {v1, v2}
    Rooms = {r1}
    Names = {n1}
    Capacity = 1
    Redis = TRUE
    LateDisconnects = TRUE
    MaxCommands = 2
    None = None
SYMMETRY Symmetry
INVARIANTS
    FanoutIsViewerList
PROPERTIES
    ApprovalNeeded
