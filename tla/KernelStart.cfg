\* The lines the kernel handles (the spurious ones have no handler), a page
\* fault, and an exception without a stub.
CONSTANTS
    Lines = {0, 6, 12}
    Fault = 99
    MAX_INTERRUPTS = 48
    TextStart = 1114100
    TssAddress = 1118208
    Exceptions = {14, 15}
SPECIFICATION StartSpec
INVARIANTS
    EveryEntryLands
    HandlersInTime
PROPERTIES
    StartEnds
CHECK_DEADLOCK FALSE
