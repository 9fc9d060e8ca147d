SPECIFICATION Spec
CONSTANTS
    P = 3
    Unit = 8
    Incs <- MCIncs
    Hold = 5
    Gap = 8
INVARIANTS
    DoneStaysZero
PROPERTIES
    JumpsOnlyWhenItWraps
    WholeRamps
    RampDownWasAsked
