CONSTANTS
    p1 = p1
    p2 = p2
    Procs <- MCProcs
    BLOCK_SIZE = 2
    FileLengths <- MCFileLengths
    DATA_BLOCKS <- MCDataBlocks
    NUM_DIR_ENTRIES = 2
    MaxNbytes = 3
    MaxDirReads = 4
    NAME_LEN = 2
    NameChars = {1, 2}
    DIR_NAMES <- MCDirNames
    DIR_TYPES <- MCDirTypes
    SP = 32
    CMD_LEN = 5
    HEADER_LEN = 3
    MAGIC_LEN = 2
    Magics <- MCMagics
    ARGS_LEN = 4
    GARBAGE = GARBAGE
SPECIFICATION Spec
INVARIANT DirListingFromStart
