CONSTANTS
    Bits = 2
    Measured <- MCMeasured
    MaxNoise = 1
    MaxLost = 1
SPECIFICATION FairSpec
CHECK_DEADLOCK FALSE
INVARIANTS
    PigpioTypeOK
    PrintsWhatWasSent
    CleanReadingIsPrinted
PROPERTIES
    Ends
