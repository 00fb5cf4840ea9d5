SPECIFICATION Spec
CONSTANTS
    N = 21  B = 3  C = 3  K = 3  D = 1
    R = 2  G = 2  P = 1
    Shapes = {"inside", "split"}
    Quiet = FALSE
    RingSize = 1
    MaxInside = 0
    MaxCells = 8
INVARIANT QueryFindsAll
\* after the stop the threads have returned
CHECK_DEADLOCK FALSE
