SPECIFICATION FairSpec
CONSTANTS
    Replicas = {g1, g2}
    Lagging = FALSE
    MaxVersion = 2
    MaxRestarts = 1
    NumTargets = 2
    MaxFailures = 1
    MaxCrashes = 1
PROPERTIES ImplementsForwardHost FilesNeverGoBack EventuallyNewest
