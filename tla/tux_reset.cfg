CONSTANTS
    LedArgs <- MCLedArgs
    PressedSets <- MCPressedSets
    MaxCalls = 4
    MaxResets = 1
    MaxEvents = 1
SPECIFICATION Spec
INVARIANT QuietShowsWanted
CHECK_DEADLOCK FALSE
