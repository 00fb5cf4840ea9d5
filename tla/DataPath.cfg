\* Two capture threads, one dumper; one kind of I/O error may happen once.
SPECIFICATION Spec
CONSTANTS
    N = 16
    B = 2
    D = 1
    R = 2
    T = 1
    Busy = {0, 1}
    Shapes = {"inside", "split", "exact"}
    Links = {"last"}
    Depth = 2
    Failures = {"submit", "disk", "no_sqe"}
    MaxCount = 0
    MaxErrors = 1
CHECK_DEADLOCK FALSE
INVARIANTS TypeOK SlotsKeepResidue NewDataReachesDisk OnlyFinishedBlocksTaken
    TakenOnce EndTimeFresh DrainLeavesNothing NoBlockSkipped
PROPERTY NoUnsavedRecycled
