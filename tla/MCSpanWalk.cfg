\* Files <- MCFiles: every file of at most MaxLen characters.
CONSTANTS
    Char = {"a", "n"}
    LF = "n"
    MaxLen = 7
    Files <- MCFiles
SPECIFICATION SpanSpec
INVARIANTS
    TypeOK
    PositionInv
    DoublyLinked
    GetLineIsTheLine
    AnswersAgree
PROPERTY ImplementsInterval
