\* Three listeners and a vector of up to three: room for a listener to
\* remove itself or another and for a push_back that reallocates.
\* A listener's method that adds or removes listeners during invoke().
CONSTANTS
    Listeners = {l1, l2, l3}
    MaxListeners = 3
SPECIFICATION Spec
INVARIANT EveryListenerNotified
