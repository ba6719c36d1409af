SPECIFICATION Spec
CONSTANTS
    AckLen = 2
    DEFAULT_RECV_BUFSIZE = 1
    MaxAcks = 3
    MaxCalls = 3
INVARIANTS
    TypeOK
    AcksOnceInOrder
    ErrorAckReported
PROPERTY DoWorkReturns
CHECK_DEADLOCK FALSE
