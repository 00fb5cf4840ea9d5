\* One capture thread, three flows, packets split in every way; one query.
SPECIFICATION Spec
CONSTANTS
    CellSize = 8  CellNum = 4  BlockCells = 2  MaxLen = 5
    Slice = 2  PortLen = 4  BloomLen = 4  SixLen = 5  Hashes = 2  Cols = 16
    Hash <- MCHash
    Readers = {r1}
    Flows <- MCFlows
    Lens = {1, 5}
    Threshold = 16
    ReadSize = 2
    Words <- MCWords
    Failures = {"index", "data"}
    MaxPackets = 3
    MaxTokens = 9
CONSTRAINT InCell
CHECK_DEADLOCK FALSE
INVARIANTS PacketsReadBack  LookupExact 
