\* Every file of up to five tokens of two kinds, with every mix of looking
\* one, two or three tokens ahead and consuming; peek_nth(2) is the longest
\* look ahead of the parser.
CONSTANTS
    Kind = {"id", "op"}
    EOF = EOF
    MaxTokens = 5
    MaxAhead = 2
SPECIFICATION Spec
INVARIANTS
    BufferInv
    PrevSpanInv
    LazyInv
PROPERTY
    ImplementsCursor
\* The stream stops with the process.
CHECK_DEADLOCK FALSE
