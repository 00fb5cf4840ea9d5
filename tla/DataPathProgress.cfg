\* Every queue receives packets for ever and every write completes.
SPECIFICATION FairSpec
CONSTANTS
    N = 16
    B = 2
    D = 1
    R = 2
    T = 1
    Busy = {0, 1}
    Shapes = {"split"}
    Links = {"same"}
    Depth = 2
    Failures = {}
    MaxCount = 0
    MaxErrors = 0
CHECK_DEADLOCK FALSE
PROPERTY WritersProgress
