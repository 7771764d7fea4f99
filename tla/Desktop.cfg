SPECIFICATION Spec
CONSTANTS
    MaxMessages = 1
    MaxActions = 2
INVARIANTS
    LatchShown
    LeavingStops
PROPERTIES
    ButtonsComeBack
