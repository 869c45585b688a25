\* wait_for may return spuriously, as the standard allows.
CONSTANTS
    Workers = {w1}
    Runners = {}
    Tasks = {t1, t2}
    NoTask = NoTask
    NDEBUG = FALSE
    WeakCas = FALSE
    Delays = {1, 2}
    SpuriousWakeups = TRUE
SPECIFICATION SchedSpec
PROPERTY NoTaskRunsEarly
CHECK_DEADLOCK FALSE
