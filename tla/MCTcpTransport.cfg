\* Request correlation and the pending-request tables under two threads,
\* the reactor, the peer and removeExpiredRequests.
CONSTANTS
    Threads = {t1, t2}
    Msgs = {m1, m2}
    Reactor = r
    None = none
    MaxInbound = 3
SPECIFICATION Spec
INVARIANT TypeOK PendingTableSound NoReplyMisrouted
CHECK_DEADLOCK FALSE
