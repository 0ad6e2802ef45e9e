SPECIFICATION MCSpec
CHECK_DEADLOCK FALSE
CONSTANTS
    Persist = TRUE
    Interval = 2
    Sec = 2
    HistorySecs = 4
    NapStep = 2
    WarmUp = 1
    SaveEvery = 4
    WorkTimes = {1}
    DownTimes = {0}
    Skews = {0}
    MaxSamples = 4
    MaxStarts = 2
    HandlerThreads = 2
    Clients = {slow, fast}
    Slow = {slow}
    Paths = {"/healthz", "/api/stats", "/api/history", "/metrics"}
    AuthSet = TRUE
INVARIANT AnswersMoveForward
PROPERTIES
    OthersAreServed
    ShutdownHappens
