SPECIFICATION Spec
CONSTANTS
    Length = 3
    Messages <- MCMessages
    Foreign <- MCForeign
    Quiet = 20
    NoisyLastBit = FALSE
    MaxForeign = 1
    MaxNoise = 1
INVARIANTS
    TypeOK
    SendAssertionsHold
    UndisturbedIsAcknowledged
    HeardIsTrue
PROPERTIES
    WaitsEnd
