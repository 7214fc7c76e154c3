CONSTANTS
    MAX_PROCESSES = 5
    NUM_TERMINALS = 3
    FD_COUNT = 3
    Statuses <- MCStatuses
    StaleFds <- MCZeroedPcbs
    BOOTED = FALSE
    UserActsDuringBoot = TRUE
    SyscallsPreemptible = FALSE
SPECIFICATION Spec
INVARIANT ProcessTree
