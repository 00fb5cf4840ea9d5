SPECIFICATION Spec
CONSTANTS
    N = 21  B = 3  C = 3  K = 3  D = 1
    R = 1  G = 1  P = 1
    Shapes = {"inside", "split"}
    Quiet = FALSE
    RingSize = 1
    MaxInside = 1
    MaxCells = 21
INVARIANTS FlowTypeOK PersistedComplete FilterKeepsKeys 
\* after the stop the threads have returned
CHECK_DEADLOCK FALSE
