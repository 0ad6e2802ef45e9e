SPECIFICATION Spec
CONSTANTS
    None = None
    p1 = p1
    p2 = p2
    Procs <- OneProc
    Inodes = {i1, i2, i3}
    MaxSaves = 4
    Size <- MCSize
INVARIANTS
    NeverTorn
    AckedIsDurable
PROPERTIES
    RefinesHistoryFile
