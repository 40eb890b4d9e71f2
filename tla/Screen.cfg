CONSTANTS
    W = 3
    H = 2
    ByteLimit = 4
    Messages <- Texts
    PanicMessage <- Alarm
    Ticks = {7}
    TimerX = 2
    Hello <- Greeting
    HelloX = 1
    HelloY = 0
    Moves <- Steps
    MaxCalls = 2
    MaxIrqs = 3
SPECIFICATION ScreenSpec
INVARIANTS
    TextIntact
    CursorRight
    PanicShown
CHECK_DEADLOCK FALSE
