\* Instantiation of PubSubChannel for TLC: two sessions, so that a
\* broadcast loop visits one subscriber while the other is terminated or
\* has its handlers run.

CONSTANTS
    MaxSessions = 2
    CallbackOutcomes = {"return"}
SPECIFICATION ChannelSpec
INVARIANT NoSendToShutDownSession
