\* set_handler with a user handler and then with NULL, on every signal.
CONSTANTS
    NULL = NULL
    USER_HANDLER = USER_HANDLER
    KILL = KILL
    IGNORE = IGNORE
    USER_CS = USER_CS
    KERNEL_CS = KERNEL_CS
SPECIFICATION Spec
INVARIANT DefaultRestored
