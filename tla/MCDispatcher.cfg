\* Two dispatchers that may delegate to each other or to themselves, two
\* message types, and one rule (it holds for m1), so that a filter of
\* each policy can admit one type and refuse the other.
\* Configuration and nested dispatch over two dispatchers.
CONSTANTS
    Dispatchers = {d1, d2}
    Types = {m1, m2}
    Rules = {{m1}}
    MaxDelegates = 1
    MaxFilters = 1
    MaxDepth = 2
SPECIFICATION Spec
PROPERTY HandlerOnlyForAdmitted
