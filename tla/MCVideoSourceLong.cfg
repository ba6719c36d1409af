SPECIFICATION SourceSpec
CONSTANTS
    Radix = 16
    TypeRadix = 4
    MaxNalus = 2
    Mtu = 3
    Nalus <- LongNalus
    MaxFileNalus = 1
    ExtraBufSize = 2
    Frames <- NoFrames
    IFrame = 2
INVARIANTS
    AvccNotTakenForAnnexB
