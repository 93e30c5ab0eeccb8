\* A queue of two events, so that a burst fills it; two debounce counts.
SPECIFICATION FairSpec
CONSTANTS
    QCap = 2
    Debounces = {0, 2}
INVARIANTS
    TypeOK
    ObserverInStep
PROPERTIES
    ImplementsCallFlow
    AcceptedErrorIsReported
    DoorTimeoutEndsRelease
    QueueMakesRoom
