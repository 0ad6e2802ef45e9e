SPECIFICATION FairDelivery
CONSTANTS
    None = None
    Rules <- MCRules
    AlertSpec <- MCAlertSpec
    HOLD_TICKS = 3
    CounterMod = 5
    Snapshots <- MCSnapshots
    Timestamps = {1}
    Webhook = TRUE
    Interval = 3
    WorkTimes = {0, 4}
    RestartTimes = {1}
    CurlTimeout = 5
    MaxEvents = 2
INVARIANT
    ReceivedInOrder
PROPERTIES
    ZombiesReaped
