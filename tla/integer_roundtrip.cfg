SPECIFICATION Spec
CONSTANTS
    Secret <- MCSecret
    Digest <- MCDigest
    BitXor <- MCBitXor
    Requests <- IntegerRequests
    Answers <- MCAnswers
    Datagrams <- Nothing
INVARIANT RoundTrip
