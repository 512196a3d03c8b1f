SPECIFICATION Spec
CONSTANTS
    Refs <- MCRefs
    Clients = {c1, c2}
    Exposures <- MCExposures
    Source <- MCSource
    AuthRef <- MCAuthRef
    Keys <- MCKeys
    Allowed <- AllAllowed
    Payloads <- OrderPayloads
    Empty = "empty"
    Credentials <- MCCredentials
    Requests <- OrderRequests
    MaxVersion <- OrderVersions
PROPERTIES NeverOlder ConditionalExact
