SPECIFICATION FairSpec
CONSTANTS
    Refs <- MCRefs
    Clients = {c1, c2}
    Exposures <- MCExposures
    Source <- MCSource
    AuthRef <- MCAuthRef
    Keys <- MCKeys
    Allowed <- OneAllowed
    Payloads <- AccessPayloads
    Empty = "empty"
    Credentials <- MCCredentials
    Requests <- AccessRequests
    MaxVersion <- AccessVersions
INVARIANTS TypeOK Indistinguishable
PROPERTIES CredentialsWereValid Answered
