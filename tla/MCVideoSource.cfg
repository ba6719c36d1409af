SPECIFICATION SourceSpec
CONSTANTS
    Radix = 16
    TypeRadix = 4
    MaxNalus = 2
    Mtu = 3
    Nalus <- SmallNalus
    MaxFileNalus = 2
    ExtraBufSize = 2
    Frames <- OtherFrames
    IFrame = 2
INVARIANTS
    SourceTypeOK
    ConvertedExactly
    NaluFound
    FrameArrivesWhole
