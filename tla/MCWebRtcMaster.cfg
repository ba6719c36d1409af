SPECIFICATION FairSpec
CONSTANTS
    Peers = {p, q}
    TricklingPeers = {p}
    MaxSessions = 2
    MaxCreated = 2
    MaxCandidates = 2
INVARIANTS
    TypeOK
    HashedSessionLive
    ListedSessionsLive
    KnownPeersDontWait
    CandidatesOnceInOrder
PROPERTIES
    TerminatedSessionFreed
    InterruptedEnds
CHECK_DEADLOCK FALSE
