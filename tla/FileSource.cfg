CONSTANTS
    W = 4
    B = 2
    LittleEndian = TRUE
    HeaderTotal = 8
    Extensions = {3, 5}
    Limits = {2, 5, 7, 8, 9, 12, 14, 15, 16, 18, 20, 1000}
    NoLimit = 10000
    FileSizes = {6, 9, 14, 15, 18, 22, 26}
    MaxSymbol = 4
    MaxBytes = 32
    Offsets = {2, 5}
    Chunks = {3, 5, 13}
    SourceLimit = 20
    MaxRead = 30
SPECIFICATION SourceSpec
CHECK_DEADLOCK FALSE
INVARIANTS
    TypeOK
    StreamIntact
    SegmentIsPrefix
    LostTailBounded
    ImageNeverLimited
    SourceReadsFile
    RefusedBehindFile
