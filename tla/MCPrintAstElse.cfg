\* Idempotent is stated as the tests state it; the code does not keep it.
SPECIFICATION RoundTrip

CONSTANTS
    Names <- MCNames
    Asts <- MCAsts

INVARIANT
    Idempotent

CHECK_DEADLOCK FALSE
