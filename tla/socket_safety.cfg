SPECIFICATION Spec
CONSTANTS
    Endpoints = {p1, p2}
    NoEndpoint = NoEndpoint
    MaxDatagrams = 2
    MaxSends = 2
    MaxErrors = 1
    InboxCapacity = 1
    SendCapacity = 1
CHECK_DEADLOCK FALSE
SYMMETRY Symmetry
INVARIANTS
    TypeOK
    OneReceiver
    ReceiverAlive
    SendConservation
    SendsKeepOrder
    SendReportsTruthful
    RepliesGoToSender
PROPERTIES
    BufferStable
    ClosedIsSilent
