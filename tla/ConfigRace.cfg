\* Two tasks that open the store at once, one key is enough.
CONSTANTS
    t1 = t1
    t2 = t2
    k1 = k1
    v1 = v1
    Tasks = {t1, t2}
    Keys = {k1}
    Values = {v1}
    Nothing = Nothing
SPECIFICATION Spec
INVARIANT CommitsAreKept
