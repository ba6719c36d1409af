SPECIFICATION MkvSpec
CONSTANTS
    FrameId = {1, 2, 3}
    Timestamp = {0, 1, 5}
    DataLen = {1}
    DeltaModulus = 4
    Radix = 256
    TypeRadix = 32
    MaxNalus = 16
    Videos <- SmallVideos
    Audios <- SmallAudios
    TagsLists <- SmallTagsLists
INVARIANTS
    TypeOK
    PendingTimecodesCurrent
    ChunksReadBack
PROPERTY ImplementsQueue
CHECK_DEADLOCK FALSE
