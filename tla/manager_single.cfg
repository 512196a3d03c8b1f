SPECIFICATION FairSpec
CONSTANTS
    Refs = {a}
    InitialBackoff = 2
    MaxBackoffOption = 3
    MaxVersion = 4
    MaxFaults = 2
    MaxLost = 1
INVARIANTS TypeOK CacheFaithful FollowsWatch BackoffBounded
PROPERTIES FailureKeepsState Converges ImplementsCache
