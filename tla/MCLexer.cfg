\* Every file of the four alphabets of MCLexer up to these lengths.
CONSTANTS
    Letters = {"i", "f", "d", "o"}
    Digits1 = {"1"}
    Blanks = {" "}
    Keywords <- MCKeywords
    CommentLen = 7
    OperatorLen = 5
    WordLen = 5
    MixedLen = 4
    Files <- MCFiles
SPECIFICATION FairSpec
INVARIANTS
    Tiling
    MaximalMunch
    ErrorIsRight
    WarningsAreRight
    SymbolsAreTexts
PROPERTY
    LexingEnds
\* Lexing stops at the end of the file, at an error or in a panic.
CHECK_DEADLOCK FALSE
