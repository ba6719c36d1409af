SPECIFICATION Spec
CONSTANTS
    FrameId = {1, 2, 3}
    Timestamp = {1, 2}
    DataLen = {1}
    DeltaModulus = 2
    HasAudioTrack = FALSE
    Policies = {"STREAM_POLICY_NONE", "STREAM_POLICY_RING_BUFFER"}
    DefaultMemLimit = 1
    MemLimit = 0
    HeaderLen = 0
    MaxStreams = 1
CHECK_DEADLOCK FALSE
INVARIANTS
    TypeOK
    FrameInOnePlace
    
    BlocksDecodeExactly
    HeaderBeforeMedia
    PeekedFrameStays
