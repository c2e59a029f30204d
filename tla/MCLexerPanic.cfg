\* NextCharacterExists is stated as the source states it; lex_comment calls
\* lex_while_multiple at the end of a file that ends in a comment opening.
CONSTANTS
    Letters = {"i", "f", "d", "o"}
    Digits1 = {"1"}
    Blanks = {" "}
    Keywords <- MCKeywords
    CommentLen = 3
    OperatorLen = 1
    WordLen = 1
    MixedLen = 1
    Files <- MCFiles
SPECIFICATION Spec
INVARIANT NextCharacterExists
CHECK_DEADLOCK FALSE
