SPECIFICATION HostListsSpec
CONSTANTS
    Guests = {g1, g2}
    EarlyRequests = TRUE
    MaxInFlight = 4
INVARIANTS
    WaitingIsShown
CHECK_DEADLOCK FALSE
