\* Time ends with the model, and with it the system.
CHECK_DEADLOCK FALSE
SPECIFICATION WaitSpec
CONSTANTS
    TickValues = 64
    Window = 7
    MaxIteration = 3
    MaxUptime = 80
INVARIANTS
    WaitIsBounded
