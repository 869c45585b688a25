\* A container of three threads, each started or default-constructed, with
\* the application joining or detaching some of them before the scope ends.
CONSTANTS
    N = 3
SPECIFICATION Spec
INVARIANT JoinerLeavesNoJoinableThread
CHECK_DEADLOCK FALSE
