\* Two sessions, one key and one value: a lookup that visits a session
\* before the match, or finds none, and a forEach callback that throws.
CONSTANTS
    MaxSessions = 2
    CallbackOutcomes = {"return", "throw"}
    Keys = {"user"}
    Values = {"alice"}
SPECIFICATION PropsSpec
INVARIANT ContainsOnlyWhatWasSet
CHECK_DEADLOCK FALSE
