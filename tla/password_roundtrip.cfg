SPECIFICATION Spec
CONSTANTS
    Secret <- MCSecret
    Digest <- MCDigest
    BitXor <- MCBitXor
    Requests <- PasswordRequests
    Answers <- MCAnswers
    Datagrams <- Nothing
INVARIANT RoundTrip
