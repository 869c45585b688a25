\* The scheduler is destroyed, as the static getInstance() one is at exit.
CONSTANTS
    Workers = {w1}
    Runners = {}
    Tasks = {t1, t2}
    NoTask = NoTask
    NDEBUG = FALSE
    WeakCas = FALSE
    Delays = {1, 2}
    SpuriousWakeups = FALSE
SPECIFICATION SchedSpec
PROPERTY DestructorReturns
CHECK_DEADLOCK FALSE
