SPECIFICATION FairSpec

CONSTANTS
    MaxItems = 4
    Lookahead = 2
    Files <- MCFiles

INVARIANTS
    ExitStatusTells
    StdoutIsABeginning
    OneError

PROPERTY
    CommandEnds

\* The program ends with its exit status.
CHECK_DEADLOCK FALSE
