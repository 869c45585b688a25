\* Two application threads sending concurrently, no inbound traffic: a
\* message can be left on the outgoing queue with no write to pick it up.
CONSTANTS
    Threads = {t1, t2}
    Msgs = {m1, m2}
    Reactor = r
    None = none
    MaxInbound = 0
SPECIFICATION Spec
PROPERTY SentEventuallyWritten
CHECK_DEADLOCK FALSE
