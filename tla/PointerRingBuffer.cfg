\* 16 entries in 8 columns of 2, and the ring goes round twice.
SPECIFICATION FairSpec
CONSTANTS
    M = 2
    MaxPuts = 34
    Null = Null
    Indexes <- MCIndexes
    Stream <- MCStream
INVARIANT RingInv
PROPERTIES IsQueue PutReturns
