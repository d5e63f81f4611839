SPECIFICATION Spec
CONSTANTS
    Length = 3
    Messages <- MCWithM13
    Foreign <- MCForeign
    Quiet = 20
    NoisyLastBit = FALSE
    MaxForeign = 1
    MaxNoise = 1
INVARIANT
    UndisturbedIsAcknowledged
