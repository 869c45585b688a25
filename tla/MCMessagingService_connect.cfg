\* A connect() on the application's thread racing stop() on another, with
\* callbacks that return, so that terminateAll erases every session it sees.
CONSTANTS
    MaxSessions = 1
    MaxStarts = 1
    CallbackOutcomes = {"return"}
    Protocols = {"tcp"}
    AppFactories = {}
    MaxFactories = 1
    MaxConnects = 1
SPECIFICATION ServiceSpec
PROPERTY NoSessionOutlivesStop
CHECK_DEADLOCK FALSE
