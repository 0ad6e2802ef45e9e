SPECIFICATION Spec
CONSTANTS
    SPARK_LEN = 2
    DefaultMs = 2
    Periods = {1, 2}
    HistoryCap = 4
    OpenLimits = {1, 2}
    MaxSamples = 3
    MaxRestarts = 1
    MaxReloads = 1
PROPERTY RedrawOnlyDraws
