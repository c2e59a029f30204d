\* All programs with a body of at most StatementLen tokens, of at most NestedLen
\* where statements only nest, and every wrong token in shorter ones.
SPECIFICATION ParseFairSpec

CONSTANTS
    StatementLen = 7
    WrongLen = 5
    NestedLen = 11
    WrongNestedLen = 7
    Files <- MCFiles
    Derivable <- MCDerivable

INVARIANTS
    BuildsTheProgram
    SyntaxErrorIsReal

PROPERTIES
    ReturnsConsume
    ParsingFileEnds

\* The parser stops when it has returned.
CHECK_DEADLOCK FALSE
