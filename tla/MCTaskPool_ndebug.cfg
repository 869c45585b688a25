\* A build with NDEBUG defined: assert() and its operand are compiled out.
CONSTANTS
    Workers = {w1, w2}
    Runners = {}
    Tasks = {t1, t2}
    NoTask = NoTask
    NDEBUG = TRUE
    WeakCas = FALSE
SPECIFICATION Spec
INVARIANT CompletedOnceResolved
CHECK_DEADLOCK FALSE
