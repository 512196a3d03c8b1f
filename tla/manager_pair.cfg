SPECIFICATION FairSpec
CONSTANTS
    Refs = {a, b}
    InitialBackoff = 2
    MaxBackoffOption = 1
    MaxVersion = 1
    MaxFaults = 1
    MaxLost = 0
INVARIANTS ReadyMeansTried
PROPERTIES EventuallyInitialized ShutdownCompletes
