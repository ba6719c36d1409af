SPECIFICATION Spec
CONSTANTS
    uCapacity = 3
    UINT16_MAX = 9
    FrameLen = {1, 2}
    MemLimit = {2, 3}
    MaxFrames = 10
INVARIANTS
    TypeOK
    LiveKeyFinds
    EachFrameDestroyedOnce
PROPERTY ImplementsDropOldest
CHECK_DEADLOCK FALSE
