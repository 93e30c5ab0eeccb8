\* One state task that keeps receiving, two posters, one slot to fight over.
CONSTANTS
    p1 = p1
    p2 = p2
    r1 = r1
    e0 = e0
    NoEvent = NoEvent
    NoThread = NoThread
    Posters = {p1, p2}
    Receivers = {r1}
    Events = {e0}
    ZeroEvent = e0
    Cap = 1
    SpuriousWakeups = FALSE
SPECIFICATION FairSpec
INVARIANT NoLostWakeup
PROPERTIES
    ImplementsEventQueue
    QueueDrains
    BlockedPostersProgress
