CONSTANTS
    MAX_PROCESSES = 5
    NUM_TERMINALS = 3
    FD_COUNT = 3
    Statuses <- MCStatuses
    StaleFds <- MCZeroedPcbs
    BOOTED = TRUE
    UserActsDuringBoot = FALSE
    SyscallsPreemptible = TRUE
SPECIFICATION Spec
PROPERTY ResumeFresh
