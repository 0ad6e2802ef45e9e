SPECIFICATION FairSensorSpec
CONSTANTS
    None = None
    Rules <- MCRules
    AlertSpec <- MCAlertSpec
    HOLD_TICKS = 3
    CounterMod = 5
    Snapshots = {}
    Timestamps = {1, 2}
    MAX_TEMPS = 2
    HostReadings <- MCHostReadings
INVARIANTS
    TypeOK
    CountersMatchWindow
    HottestIsSeen
PROPERTIES
    SinceStable
    EventsTellTransitions
    RefinesHysteresis
    AlertsSettle
