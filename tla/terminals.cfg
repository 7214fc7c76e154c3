CONSTANTS
    NUM_TERMINALS = 2
    BUF_SIZE = 3
    NBYTES = 3
    TypeAhead = 3
    MaxWrites = 1
SPECIFICATION Spec
INVARIANT TypeOK
INVARIANT ReadWaitsForNewLine
PROPERTY ReadCompletes
PROPERTY ConsolesSpec
