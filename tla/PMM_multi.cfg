\* Clients that ask for two frames.
CONSTANTS
    FrameSize = 8
    FramesPerByte = 8
    AddressLimit = 192
    KernelSeg = 8
    KernelHimem = 96
    WordBits = 5
    LowEntries = 12
    PAGE_TABLE_ENTRIES = 16
    Machines <- SmallMachines
    dir = dir
    table = table
    Clients = {dir, table, c1, c2, c3, c4}
    Requests = {8, 16}
SPECIFICATION VMMSpec
INVARIANTS
    AreasDisjoint
CHECK_DEADLOCK FALSE
