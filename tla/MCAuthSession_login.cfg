SPECIFICATION FairSpec
CONSTANTS
    MaxChain = 2
    MaxLogins = 3
INVARIANTS Answerable OwnCredentials
PROPERTIES LoginCallsEnd
