SPECIFICATION FairSpec
CONSTANTS
    MaxOpens = 2
    MaxOptions = 3
INVARIANTS
    TypeOK
    SignedWithLiveCredentials
    CredentialsAccounted
    ConnectionsAccounted
    OpenedOverItsStream
PROPERTY AnsweredRequestEnds
CHECK_DEADLOCK FALSE
