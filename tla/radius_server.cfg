SPECIFICATION FairSpec
CONSTANTS
    AttrCodes = {1, 2, 4, 31, 40, 258}
    AttrNames <- MCAttrNames
    VendorIds = {0, 10415}
    VendorNames = {1}
    ValueCodes = {0}
    ValueNames = {0}
    Types = {"string", "ipaddr", "integer"}
    NoName = NoName
    NoCode = NoCode
    NoType = NoType
    NoVendor = NoVendor
    Secret <- MCSecret
    Digest <- MCDigest
    BitXor <- MCBitXor
    Files <- MCFiles
    Wanted <- MCWanted
    ReplyContent <- MCReplyContent
    Datagrams <- MCDatagrams
    Room = 2
    MaxArrivals = 3
CHECK_DEADLOCK FALSE
INVARIANTS
    TypeOK
    ShownTruthful
    KeyedTruthful
PROPERTIES
    AnswersRequests
