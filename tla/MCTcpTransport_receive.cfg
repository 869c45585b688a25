\* Two threads polling Session::receive while the peer sends one message.
CONSTANTS
    Threads = {t1, t2}
    Msgs = {m1, m2}
    Reactor = r
    None = none
    MaxInbound = 1
SPECIFICATION Spec
INVARIANT ReceiveNeverNull
CHECK_DEADLOCK FALSE
