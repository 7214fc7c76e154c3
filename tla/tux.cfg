CONSTANTS
    LedArgs <- MCLedArgs
    PressedSets <- MCPressedSets
    MaxCalls = 4
    MaxResets = 1
    MaxEvents = 1
SPECIFICATION Spec
INVARIANT TypeOK
INVARIANT ButtonsReported
PROPERTY LedSetShown
PROPERTY AckReturns
CHECK_DEADLOCK FALSE
