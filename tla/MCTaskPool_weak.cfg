\* compare_exchange_weak fails spuriously, as on LL/SC machines.
CONSTANTS
    Workers = {w1, w2}
    Runners = {}
    Tasks = {t1, t2}
    NoTask = NoTask
    NDEBUG = FALSE
    WeakCas = TRUE
SPECIFICATION Spec
INVARIANT CancelSuccessMeansNeverRuns
CHECK_DEADLOCK FALSE
