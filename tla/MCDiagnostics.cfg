\* One message over every span of every file; the second message shows
\* that nothing of the first is left over.
CONSTANTS
    Char = {"a", "t", "c", "r", "n"}
    LF = "n"
    Tab = "t"
    CR = "r"
    Control = {"c"}
    TAB_WIDTH = 4
    ESCAPE_WIDTH = 6
    Levels = {"error", "warning"}
    MaxMessages = 2
    MaxLen = 4
    Files <- MCFiles
    None = None
SPECIFICATION FairSpec
INVARIANTS
    RowsAreTheLinesOfTheSpan
    UnderlineIsExact
    PanicOnlyAtFirstNewline
    ColoursAreKeptApart
PROPERTY
    EmitReturns
\* The program stops after its last message, or where it panics.
CHECK_DEADLOCK FALSE
