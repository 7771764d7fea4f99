SPECIFICATION Spec
CONSTANTS
    Delays = {0, 2, 4}
    Interval = 1
    MaxGap = 2
    MaxFrames = 3
    MaxLate = 2
    LastArrival = 4
    MaxReceived = 4
    Horizon = 10
    Modulus = 6
    MaxSent = 7
    MaxLoss = 1
    MaxBreaks = 1
    MaxFlight = 2
    Positions = {0, 1, 2, 3, 4}
    Center = 2
    Intensities = {0, 1}
    Speeds = {1, 2}
    DefaultSpeed = 2
    Profiles = {p1, p2}
    DefaultProfile = p1
    PlaybackDelays = {0, 1}
    MaxRequests = 3
    MaxCrashes = 1
    FileSize = 2
    MaxFiles = 3
    MaxRecords = 9
    MaxEnds = 2
    MaxRows = 3
    PageSize = 1
    MaxSessions = 2
    MaxOutputs = 6
    MaxOpens = 2
    MaxWaiting = 3
    Clients = {c1, c2, c3}
    MaxInWindow = 2
    Window = 2
    MaxEntries = 2
    MaxClock = 4
    MaxControl = 5
    FrameCost = 2
    Burst = 3
    MaxCreations = 1
    MaxFills = 2
    MaxTime = 5
    InviteLengths = {100, 134}
    Strides = {7}
    Full = 2
    Limits = {0, 2}
    Servers = {s1, s2}
    MaxChanges = 1
    MaxAsked = 2
    Guests = {g1, g2}
    EarlyRequests = FALSE
    MaxInFlight = 4
    Fine = 12
    Scale = 5
    Widest = 3
    SourceTimes = {1, 2}
    Processes = {q1}
    RoomNames = {r1}
    Sockets = {h1, h2}
    Nodes = {n1, n2}
    TokenTtl = 2
    RoomTtl = 3
    LastHour = 4
    MaxPending = 2
    NameLengths = {64, 65}
    PasswordLengths = {128}
    Urls = {"slashed", "public"}
    PublicUrl = "slashed"
    MaxTasks = 2
INVARIANTS
    FramesAreCounted
    FrameSurvives
    RateIsBounded
    SettingsAreKept
    LogIsOrdered
    WindowHasLog
    CommandsInRange
    HostSeesRoom
    QrShowsInvite
    QuitLeavesNothing
PROPERTIES
    FramesPlayInTurn
    StopsAndSteps
    LimiterIsFair
    ScrolledViewStays
    ListGoesForward
    RoomOutlivesToken
    InviteLeadsIn
CHECK_DEADLOCK FALSE
