\* Two receivers after one event: a timed receive that never returns.
CONSTANTS
    p1 = p1
    r1 = r1
    r2 = r2
    e0 = e0
    NoEvent = NoEvent
    NoThread = NoThread
    Posters = {p1}
    Receivers = {r1, r2}
    Events = {e0}
    ZeroEvent = e0
    Cap = 1
    SpuriousWakeups = FALSE
SPECIFICATION FairSpec
PROPERTY TimedCallsReturn
