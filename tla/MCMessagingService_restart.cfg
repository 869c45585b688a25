\* Instantiation of MessagingService for TLC: one session and two starts,
\* enough for a stop() that races the reactor thread's first statement
\* and for a start() after a stop().

CONSTANTS
    MaxSessions = 1
    MaxStarts = 2
    Protocols = {"tcp", "udp"}
    AppFactories = {{"tcp", "udp"}}
    MaxFactories = 2
    MaxConnects = 2
    CallbackOutcomes = {"return"}
SPECIFICATION ServiceSpec
PROPERTY ReactorServesWhileStarted
CHECK_DEADLOCK FALSE
