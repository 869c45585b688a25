\* The application runs, or runs asynchronously, a task it submitted and then cancelled.
CONSTANTS
    Workers = {w1, w2}
    Runners = {r1}
    Tasks = {t1, t2}
    NoTask = NoTask
    NDEBUG = FALSE
    WeakCas = FALSE
SPECIFICATION Spec
INVARIANT PerformNeverAborts
CHECK_DEADLOCK FALSE
