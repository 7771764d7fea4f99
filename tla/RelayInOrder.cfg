SPECIFICATION FairSpec
CONSTANTS
    Hosts = {h1, h2}
    Viewers = {v1}
    Rooms = {r1, r2}
    Names = {n1}
    Capacity = 1
    Redis = FALSE
    LateDisconnects = FALSE
    MaxCommands = 1
    None = None
INVARIANTS
    HostCanPublish
PROPERTIES
    HostlessRoomGoes
