SPECIFICATION Spec
CONSTANTS
    None = None
    p1 = p1
    p2 = p2
    Procs <- TwoProcs
    Inodes = {i1, i2, i3}
    MaxSaves = 2
    Size <- MCSize
INVARIANT NeverTorn
