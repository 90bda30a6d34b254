\* Time ends with the model, and with it the system.
CHECK_DEADLOCK FALSE
SPECIFICATION WaitSpec
CONSTANTS
    TickValues = 64
    Window = 7
    MaxIteration = 3
    MaxUptime = 56
INVARIANTS
    WaitIsBounded
PROPERTIES
    WaitIsNotCutShort
