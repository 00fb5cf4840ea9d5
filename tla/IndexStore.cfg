SPECIFICATION Spec
CONSTANTS
    Capacity = 3  ListLen = 4
    M = 16  B = 2  S = 4
    N = 4  C = 2  R = 1  Y = 2
    DiskSize = 64  Depth = 2
    Kinds <- MCKinds
    MaxPer = 2
\* after the stop the threads have returned; a full pool never recovers
CHECK_DEADLOCK FALSE
CONSTRAINT Healthy
INVARIANTS PoolsKeepIndexes ReservedExactly   
