SPECIFICATION Spec
CONSTANTS
    Replicas = {g1, g2}
    Lagging = TRUE
    MaxVersion = 2
    MaxRestarts = 0
    NumTargets = 2
    MaxFailures = 0
    MaxCrashes = 1
INVARIANTS HostCoherent
