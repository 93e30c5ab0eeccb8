SPECIFICATION Spec
CONSTANTS
    Frames <- MCFrames
    Bytes <- MCBytes
    Bases <- MCBases
    Wraps <- MCWraps
    Strays <- MCStrays
    BufCap = 6
    JpegCap = 612
    InOrder = FALSE
    None = None
INVARIANTS
    TypeOK
    ScanHangsTogether
    AcceptsJustRtp
    IntactFrameComesOut
    IntactFrameIsShown
PROPERTY QualityOrdersTables
