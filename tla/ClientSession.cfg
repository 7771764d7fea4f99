SPECIFICATION Spec
CONSTANTS
    MaxCalls = 4
    MaxDrops = 2
    MaxBacklog = 3
    None = None
INVARIANTS
    SessionIsCurrent
    RelayAgrees
    NothingStale
PROPERTIES
    RejoinSettles
