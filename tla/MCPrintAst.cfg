SPECIFICATION FairRoundTrip

CONSTANTS
    Names <- MCNames
    Asts <- MCAsts

INVARIANTS
    ReadsBack
    PrintsTheSameAgain
    BracesAlign
    DumpShowsTheTree

PROPERTY
    RoundTripEnds

\* The second run ends with its output.
CHECK_DEADLOCK FALSE
