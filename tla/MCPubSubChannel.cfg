\* Instantiation of PubSubChannel for TLC: two sessions, so that a
\* broadcast loop visits one subscriber while the other is terminated or
\* has its handlers run.
\* Broadcasts racing terminate, find, release and the reactor's handlers.
CONSTANTS
    MaxSessions = 2
    CallbackOutcomes = {"return", "throw"}
SPECIFICATION ChannelSpec
INVARIANT TypeOKChannel FanOutReachesActive
PROPERTY TerminatedSessionBecomesInactive
CHECK_DEADLOCK FALSE
