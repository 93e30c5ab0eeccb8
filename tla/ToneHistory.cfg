\* Debounce counts around the corner cases 0 and 1, runs of up to 7 frames.
CONSTANTS
    Debounces = {0, 1, 2, 3}
    MaxFrames = 7
SPECIFICATION Spec
INVARIANTS
    TypeOK
    FiresAsDefined
CHECK_DEADLOCK FALSE
