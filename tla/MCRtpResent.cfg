SPECIFICATION Spec
CONSTANTS
    Radix = 16
    TypeRadix = 4
    MaxNalus = 2
    Mtu = 4
    Codec = "H264"
    FrameData <- AvccFrames
    SeqSize = 4
    Capacity = 3
    ValidIndexes = 2
    LiveFrames = 1
    Rtx = {TRUE, FALSE}
    SendResults = {"success", "failed", "error"}
    MaxFrames = 1
    MaxNacks = 1
    MaxNacked = 2
INVARIANTS
    ResentAsSent
CHECK_DEADLOCK FALSE
