CONSTANTS
    MAX_PROCESSES = 5
    NUM_TERMINALS = 3
    FD_COUNT = 3
    Statuses <- MCStatuses
    StaleFds <- MCZeroedPcbs
    BOOTED = FALSE
    UserActsDuringBoot = FALSE
    SyscallsPreemptible = FALSE
SPECIFICATION Spec
INVARIANT TypeOK
INVARIANT ProcessTree
INVARIANT AddressSpace
PROPERTY ResumeFresh
PROPERTY TerminalsServed
PROPERTY AllTerminalsStart
PROPERTY ProgramStacksSpec
