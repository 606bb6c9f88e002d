SPECIFICATION Spec
CONSTANTS
    Secret <- MCSecret
    Digest <- MCDigest
    BitXor <- MCBitXor
    Requests <- MCRequests
    Answers <- MCAnswers
    Datagrams <- MCDatagrams
INVARIANTS
    TypeOK
    ParserInside
    RoundTrip
    Reencodes
    Signed
    Understood
    InvalidRefused
