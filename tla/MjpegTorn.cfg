SPECIFICATION Spec
CONSTANTS
    Frames <- TwoFrames
    Bytes <- MCBytes
    Bases <- MCBases
    Wraps <- Plain
    Strays <- NoStrays
    BufCap = 6
    JpegCap = 612
    InOrder = TRUE
    None = None
INVARIANT OutOfOrderFragmentDropped
CHECK_DEADLOCK FALSE
