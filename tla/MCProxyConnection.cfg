SPECIFICATION FairSpec
CONSTANTS
    Kinds = {"direct", "managed"}
    Requests = {"socks5", "connect", "absolute", "local", "malformed", "foreign"}
    Head = 2
    MaxHeader = 2
    MaxPayload = 1
    MaxAnswer = 1
INVARIANTS NoTruncation
PROPERTIES HandlerEnds Answered
CHECK_DEADLOCK FALSE
