SPECIFICATION FairSpec
CONSTANTS
    Endpoints = {p1}
    NoEndpoint = NoEndpoint
    MaxDatagrams = 0
    MaxSends = 1
    MaxErrors = 0
    InboxCapacity = 1
    SendCapacity = 1
CHECK_DEADLOCK FALSE
PROPERTIES
    RunReturns
