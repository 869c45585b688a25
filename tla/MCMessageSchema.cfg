\* Two message types, two field names of two value types, so that a
\* duplicate name with another type and a re-registration both happen.
\* Ids of 2 bits: the 3 messages built, cloned or moved take ids 1 to 3,
\* the last before the counter wraps.
CONSTANTS
    Types = {t1, t2}
    Names = {"a", "b"}
    ValueTypes = {"int", "string"}
    IdBits = 2
    MaxFields = 2
    MaxMsgs = 3
SPECIFICATION Spec
INVARIANT TypeOK MessageIdsUnique TypedAccessMatchesSchema
PROPERTY RegisteredSchemaImmutable
