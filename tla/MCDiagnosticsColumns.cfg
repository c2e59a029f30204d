\* ColumnsAreMonotone is stated as the source states it; the code does not keep it.
CONSTANTS
    Char = {"a", "t", "c", "r", "n"}
    LF = "n"
    Tab = "t"
    CR = "r"
    Control = {"c"}
    TAB_WIDTH = 4
    ESCAPE_WIDTH = 6
    Levels = {"error", "warning"}
    MaxMessages = 1
    MaxLen = 3
    Files <- MCFiles
    None = None
SPECIFICATION Spec
INVARIANT ColumnsAreMonotone
CHECK_DEADLOCK FALSE
