SPECIFICATION FairSpec
CONSTANTS
    NumTargets = 2
    MaxContent = 3
    Incomplete <- MCIncomplete
    Rollback = FALSE
    HasCommand = TRUE
    MaxFailures = 1
    MaxCrashes = 2
    MaxTampering = 1
INVARIANTS TypeOK HealthyIsCoherent TagNeverAhead CompleteOnly ReloadRetried
PROPERTIES ReloadsCoherent TagCommitsReload EventuallyInstalled
