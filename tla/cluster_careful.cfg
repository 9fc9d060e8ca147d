SPECIFICATION CarefulSpec
CONSTANTS
    N = 2
    Setups <- AllSetups
    Burst = 2
    MaxWords = 3
INVARIANTS
    BurstsComplete
    InStep
PROPERTIES
    StartsFresh
    StopStops
