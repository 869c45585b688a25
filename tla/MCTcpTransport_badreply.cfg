\* A reply whose srcMsgId field is not of type MessageId.
CONSTANTS
    Threads = {t1}
    Msgs = {m1, m2}
    Reactor = r
    None = none
    MaxInbound = 2
SPECIFICATION Spec
INVARIANT DecodedMessagesDelivered
CHECK_DEADLOCK FALSE
