SPECIFICATION CarefulSpec
CONSTANTS
    Order <- MCOrder
    Amplitudes <- MCAmplitudes
    Types <- MCTypes
PROPERTIES
    OnlyMeantChanges
    EndIsSilent
    NewClientFindsSilence
    LeavingSilences
