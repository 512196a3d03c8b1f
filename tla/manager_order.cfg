SPECIFICATION Spec
CONSTANTS
    Refs = {a}
    InitialBackoff = 1
    MaxBackoffOption = 1
    MaxVersion = 3
    MaxFaults = 0
    MaxLost = 0
PROPERTIES AppliedInOrder
