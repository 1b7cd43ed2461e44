SPECIFICATION FairSpec
CONSTANTS
    N = 3
    Fatal = {2}
    MaxLines = 2
INVARIANTS
    LinesInOrder
    NothingForgotten
PROPERTIES
    LinesSaved
CHECK_DEADLOCK FALSE
