SPECIFICATION FairSpec
CONSTANTS
    Endpoints = {p1}
    NoEndpoint = NoEndpoint
    MaxDatagrams = 2
    MaxSends = 2
    MaxErrors = 1
    InboxCapacity = 1
    SendCapacity = 1
CHECK_DEADLOCK FALSE
PROPERTIES
    EveryDatagramServed
    EverySendReported
    ServesDatagrams
