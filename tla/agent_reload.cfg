SPECIFICATION Spec
CONSTANTS
    NumTargets = 2
    MaxContent = 1
    Incomplete = {}
    Rollback = FALSE
    HasCommand = TRUE
    MaxFailures = 1
    MaxCrashes = 0
    MaxTampering = 1
INVARIANTS ReloadNotForgotten
