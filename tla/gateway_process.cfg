SPECIFICATION ProcessSpec
CONSTANTS
    MetricsAuth = TRUE
    MaxRequests = 1
    MaxSerial = 2
INVARIANTS WatchersOutliveRequests CleanExit PairMatches
PROPERTIES NeverReadyAgain Terminates RenewalServed
