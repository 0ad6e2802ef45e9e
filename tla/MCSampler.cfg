SPECIFICATION Spec
CONSTANTS
    Persist = TRUE
    Interval = 3
    Sec = 2
    HistorySecs = 4
    NapStep = 2
    WarmUp = 1
    SaveEvery = 5
    WorkTimes = {1, 4}
    DownTimes = {0, 3}
    Skews = {0, 4}
    MaxSamples = 4
    MaxStarts = 2
INVARIANTS
    TypeOK
    HistoryOrdered
    EndpointsAgree
    ShutdownPrompt
    TicksKeepCadence
    LossBounded
PROPERTIES
    CleanRestart
