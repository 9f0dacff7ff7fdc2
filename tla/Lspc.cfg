SPECIFICATION FairSpec
CONSTANTS
    w1 = w1
    w2 = w2
    Writers = {w1, w2}
    Magics = {AUDI}
    NoChunk = NoChunk
    BufSize = 2
    MaxId = 1
    MaxData <- LongAndShort
    ReadSizes = {1, 3}
    MaxFailures = 1
INVARIANTS
    RefsExact
    WellFormed
    NothingLost
PROPERTIES
    ImplementsStreams
    CompleteAtEnd
    ReadReturns
CONSTRAINT
    Undamaged
CHECK_DEADLOCK FALSE
