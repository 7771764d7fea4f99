SPECIFICATION PathSpec
CONSTANTS
    Modulus = 6
    MaxSent = 7
    MaxLoss = 1
    MaxBreaks = 1
    MaxFlight = 2
INVARIANTS
    NoFrameRefused
CHECK_DEADLOCK FALSE
