CONSTANTS
    Numbers <- MCNumbers
    Modulus = 4
SPECIFICATION Spec
INVARIANTS
    StartupTypeOK
    MissingOptionsAreNoticedEarly
    PushesHaveADestination
