SPECIFICATION Spec
CONSTANTS
    Order <- MCOrder
    Amplitudes <- MCAmplitudes
    Types <- MCTypes
PROPERTY LostStepsStay
