\* Three field names, the fewest for which inserting before the last
\* element moves a field off its place in a fresh message, and four
\* messages, enough for a clone of a clone.
CONSTANTS
    Names = {a, b, c}
    MaxMsgs = 4
SPECIFICATION Spec
INVARIANT PeerDecodesWhatWasSent
CHECK_DEADLOCK FALSE
