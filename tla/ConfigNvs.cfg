\* Two tasks, so that both can be on their way through ensure_nvs_init.
CONSTANTS
    t1 = t1
    t2 = t2
    k1 = k1
    k2 = k2
    v1 = v1
    v2 = v2
    Tasks = {t1, t2}
    Keys = {k1, k2}
    Values = {v1, v2}
    Nothing = Nothing
SYMMETRY StoreSymmetry
SPECIFICATION Spec
INVARIANTS
    TypeOK
    CommittedSurvives
    ErasedOnlyIfRefused
PROPERTY SettledStoreIsSafe
