SPECIFICATION CarefulSpec
CONSTANTS
    BuffSize = 3
    Lookahead = 2
    RegShapes <- LongRegShapes
    RampShapes <- MCRampShapes
    Slip = 3
    MaxStep = 8
INVARIANTS
    FillsAreExclusive
    WindowMatchesPlayList
    PlaysThePlayList
PROPERTIES
    NeverCutShort
    SequenceEnds
    SkippedFromZeroAreFlagged
CHECK_DEADLOCK FALSE
