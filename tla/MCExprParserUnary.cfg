\* The order of several unary operators against the grammar.
SPECIFICATION Spec

CONSTANTS
    SyntaxLen = 3
    OperatorLen = 4
    TokenLen = 1
    Files <- MCFiles
    Derivable <- MCDerivable

INVARIANT
    NestsLikeTheGrammar

CHECK_DEADLOCK FALSE
