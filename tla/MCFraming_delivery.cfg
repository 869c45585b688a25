\* MessageType 1 with one field and 2 with two, field values 1 and 2,
\* three messages written.
CONSTANTS
    Types = {1, 2}
    Values = {1, 2}
    MaxSends = 3
SPECIFICATION Spec
PROPERTY SentEventuallyDelivered
CHECK_DEADLOCK FALSE
