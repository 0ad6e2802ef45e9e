SPECIFICATION MCSpec
CONSTANTS
    Containers = {c1, c2}
    Candidates = 1
    MAX_CONTAINERS = 1
    MaxCpu = 3
    Payloads <- MCPayloads
    Radix = 3
    MaxDigits = 2
INVARIANTS
    TypeOK
    ShareIsEarned
    WholeOrNothing
