SPECIFICATION CarefulSpec
CONSTANTS
    Mod = 12
    References <- MCReferences
    Presamples <- MCPresamples
    MinGap = 8
    MaxGap = 9
    WriteTime = 2
PROPERTIES
    FiresInPhase
    StaysFired
    ArmedFires
