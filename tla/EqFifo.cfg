\* Two receivers that sleep on two events and overtake each other; two values
\* to tell the order by.
CONSTANTS
    p1 = p1
    r1 = r1
    r2 = r2
    e0 = e0
    e1 = e1
    NoEvent = NoEvent
    NoThread = NoThread
    Posters = {p1}
    Receivers = {r1, r2}
    Events = {e0, e1}
    ZeroEvent = e0
    Cap = 2
    SpuriousWakeups = TRUE
SYMMETRY ThreadSymmetry
SPECIFICATION Spec
INVARIANTS
    TypeOK
    RingConsistent
    MutexHeld
    NoLostWakeup
PROPERTY ImplementsEventQueue
