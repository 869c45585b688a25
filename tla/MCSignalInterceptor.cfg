\* Two signals, two raises and two run() calls: a second signal after the
\* first was handled, a signal raised between addHandler's two steps, and
\* a cancel racing a raise all happen.
CONSTANTS
    Signals = {2, 15}
    MaxRaises = 2
    MaxRuns = 2
SPECIFICATION Spec
PROPERTY SignalEventuallyHandled
CHECK_DEADLOCK FALSE
