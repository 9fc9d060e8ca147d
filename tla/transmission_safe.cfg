SPECIFICATION Spec
CONSTANTS
    Buff = 4
    Blk = 2
    Pointers <- MCPointers
    Counts <- MCCounts
    Chunks <- LongChunks
    MaxW = 8
    MaxItems = 5
INVARIANTS
    LargeOverrunIsFlagged
    OnlyWrittenSamples
    CopiesInBounds
PROPERTIES
    StopIsFinal
