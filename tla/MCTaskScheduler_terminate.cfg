\* terminate() on a scheduler with nothing scheduled: doTerminate's
\* notify_one can come while the watcher is between the isTerminating()
\* test and its wait_for, and is lost.
CONSTANTS
    Workers = {w1}
    Runners = {}
    Tasks = {t1, t2}
    NoTask = NoTask
    NDEBUG = FALSE
    WeakCas = FALSE
    Delays = {1, 2}
    SpuriousWakeups = TRUE
SPECIFICATION SchedSpec
PROPERTY TerminateStopsWatcher
CHECK_DEADLOCK FALSE
