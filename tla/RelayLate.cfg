SPECIFICATION Spec
CONSTANTS
    Hosts = {h1, h2}
    Viewers = {v1}
    Rooms = {r1}
    Names = {n1}
    Capacity = 1
    Redis = FALSE
    LateDisconnects = TRUE
    MaxCommands = 1
    None = None
SYMMETRY Symmetry
INVARIANTS
    HostCanPublish
