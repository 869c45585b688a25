\* A build with assert() enabled (NDEBUG not defined), on a machine whose
\* CAS does not fail spuriously (x86's lock cmpxchg): one worker,
\* one thread of run()/runAsync() and two tasks, so that a task can be performed
\* by the pool and by the application. The pool idles once every task is
\* submitted and the workers wait.
CONSTANTS
    Workers = {w1}
    Runners = {r1}
    Tasks = {t1, t2}
    NoTask = NoTask
    NDEBUG = FALSE
    WeakCas = FALSE
SPECIFICATION Spec
INVARIANT CancelSuccessMeansNeverRuns
PROPERTY QueuedTaskEventuallyResolved TaskRefinesContract
CHECK_DEADLOCK FALSE
