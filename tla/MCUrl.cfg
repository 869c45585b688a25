\* The parse/print round trip over the URL surface's edge cases.
CONSTANT Inputs <- MCInputs
SPECIFICATION Spec
INVARIANT ParsePrintRoundTrip
CHECK_DEADLOCK FALSE
