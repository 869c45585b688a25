\* One application thread sending two messages back to back: doSend starts
\* a second async_write while the first is still running.
CONSTANTS
    Threads = {t1}
    Msgs = {m1, m2}
    Reactor = r
    None = none
    MaxInbound = 0
SPECIFICATION Spec
INVARIANT SingleWriteInFlight
CHECK_DEADLOCK FALSE
