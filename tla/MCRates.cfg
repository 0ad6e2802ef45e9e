SPECIFICATION MCSpec
CONSTANTS
    Interfaces = {eth}
    Disks = {sda}
    MaxBytes = 2
    MaxTime = 3
    Hosts <- MCHosts
    Caps = {0, 2}
    MAX_PORTS = 2
    Sector = 512
INVARIANTS
    TypeOK
    RateIsEarned
    RateCoversItsWindow
    ScrapeReadsHost
    ListsAreSelections
