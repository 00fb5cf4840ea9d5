\* The default of two dumper groups with a delay of one block.
SPECIFICATION Spec
CONSTANTS
    N = 32
    B = 4
    D = 1
    R = 2
    T = 2
    Busy = {0, 1}
    Shapes = {"exact"}
    Links = {"same"}
    Depth = 4
    Failures = {}
    MaxCount = 0
    MaxErrors = 0
CHECK_DEADLOCK FALSE
INVARIANT NoBlockSkipped
