\* Instantiation of MessagingService for TLC: one session and two starts,
\* enough for a stop() that races the reactor thread's first statement
\* and for a start() after a stop().
\* Start, stop and restart against connects, terminations and the reactor.
\* The service may end idle: nothing calls start() or connect() again.
CONSTANTS
    MaxSessions = 1
    MaxStarts = 2
    Protocols = {"tcp", "udp"}
    AppFactories = {{"tcp", "udp"}}
    MaxFactories = 2
    MaxConnects = 2
    CallbackOutcomes = {"return", "throw"}
SPECIFICATION ServiceSpec
INVARIANT TypeOKService StoppedAfterStopReturns ConnectResultNamesCause
CHECK_DEADLOCK FALSE
