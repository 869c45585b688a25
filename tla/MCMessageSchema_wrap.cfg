\* generateId's counter at its width: with 2-bit ids the fourth message
\* constructed takes ++id = 0, as the 2^32-th does with a uint32_t.
CONSTANTS
    Types = {t1}
    Names = {"a"}
    ValueTypes = {"int"}
    IdBits = 2
    MaxFields = 1
    MaxMsgs = 4
SPECIFICATION Spec
INVARIANT MessageIdsUnique
