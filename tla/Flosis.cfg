SPECIFICATION Spec
CONSTANTS
    ChunkLen = 3  CountLen = 1  FinPackets = 2
    LenThreshold = 12  TimeThreshold = 1
    BlockSize = 5  BlockCount = 3
    Engines = {1, 2}  PoolBlocks = 16  DiskBlocks = 2
    Loads <- MCLoads
    Starts = {13}
\* after the stop the threads have returned
CHECK_DEADLOCK FALSE
INVARIANTS  FlowsInOrder DumpedAsFilled
