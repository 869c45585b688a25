\* One worker and two tasks, so that a second schedule() can come with a shorter
\* delay than the one the watcher waits for; a build with assert() enabled;
\* wait_for may return spuriously, as the standard allows.
CONSTANTS
    Workers = {w1}
    Runners = {}
    Tasks = {t1, t2}
    NoTask = NoTask
    NDEBUG = FALSE
    WeakCas = FALSE
    Delays = {1, 2}
    SpuriousWakeups = TRUE
SPECIFICATION SchedSpec
PROPERTY ScheduledEventuallyHanded
CHECK_DEADLOCK FALSE
