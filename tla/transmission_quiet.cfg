SPECIFICATION QuietSpec
CONSTANTS
    Buff = 4
    Blk = 2
    Pointers <- MCPointers
    Counts <- LongCounts
    Chunks <- QuietChunks
    MaxW = 10
    MaxItems = 5
PROPERTIES
    KeepsThePromise
    TransmissionEnds
    ThreadCanBeJoined
