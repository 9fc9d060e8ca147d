SPECIFICATION CarefulSpec
CONSTANTS
    Full = 2
    Settable <- MCSettable
    Amplitudes = {0, 1}
    Writes <- MCWrites
    Reads <- MCReads
    FailsAgain = FALSE
INVARIANTS
    RestartChangesNothing
    OutputsAreInScale
PROPERTIES
    StoresAtomically
