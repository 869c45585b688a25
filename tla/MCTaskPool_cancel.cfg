\* tryCancel() lands between perform's isCancelled check and its CAS.
CONSTANTS
    Workers = {w1, w2}
    Runners = {}
    Tasks = {t1, t2}
    NoTask = NoTask
    NDEBUG = FALSE
    WeakCas = FALSE
SPECIFICATION Spec
PROPERTY GetResultReturns
CHECK_DEADLOCK FALSE
