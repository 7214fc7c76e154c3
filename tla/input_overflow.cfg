CONSTANTS
    NUM_TERMINALS = 2
    BUF_SIZE = 3
    NBYTES = 3
    TypeAhead = 4
SPECIFICATION Spec
INVARIANT KeyboardBufferBounded
