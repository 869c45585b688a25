\* Instantiation of SessionManager for TLC: two sessions are enough for a
\* null entry left by one termination to be met by an operation on the
\* map, and for terminateAll to run over more than one session.
CONSTANTS
    MaxSessions = 2
    CallbackOutcomes = {"return", "throw"}
SPECIFICATION Spec
INVARIANT FailedConnectLeavesNoSession
CHECK_DEADLOCK FALSE
