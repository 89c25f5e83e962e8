CONSTANTS
    Counting <- MCIdle
    Modulus = 3
    Zone = TRUE
SPECIFICATION FairSpec
INVARIANTS
    MonitorTypeOK
    IdleIsMeasuredOnce
PROPERTIES
    SignalStops
    KeepsMeasuring
