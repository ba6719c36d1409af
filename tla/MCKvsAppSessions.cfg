SPECIFICATION FairSpec
CONSTANTS
    FrameId = {1, 2}
    Timestamp = {1, 2}
    DataLen = {1}
    DeltaModulus = 4
    HasAudioTrack = TRUE
    Policies = {"STREAM_POLICY_NONE"}
    DefaultMemLimit = 1
    MemLimit = 0
    HeaderLen = 0
    MaxStreams = 2
CHECK_DEADLOCK FALSE
PROPERTY VideoDrains
