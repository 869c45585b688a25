\* publish<MessagingService>() and terminate(), with the application
\* starting and stopping the service in between or not at all.
CONSTANTS
    MaxSessions = 1
    MaxStarts = 1
    CallbackOutcomes = {"return"}
    Protocols = {"tcp"}
    AppFactories = {}
    MaxFactories = 1
    MaxConnects = 1
SPECIFICATION ManagerSpec
PROPERTY TerminatedServiceStopped
CHECK_DEADLOCK FALSE
