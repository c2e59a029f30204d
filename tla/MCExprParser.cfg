\* Every beginning of an expression of at most SyntaxLen tokens, and every
\* expression of at most OperatorLen tokens over all operator levels.
SPECIFICATION FairSpec

CONSTANTS
    SyntaxLen = 8
    OperatorLen = 7
    TokenLen = 3
    Files <- MCFiles
    Derivable <- MCDerivable

INVARIANTS
    AssertionsHold
    PrecedenceInv
    ProgressInv
    BuildsTheTree
    ErrorIsReal

PROPERTY
    ParsingEnds

\* The parser stops when it has returned.
CHECK_DEADLOCK FALSE
