\* VMM_init and clients that ask for at most one frame at a time, as it does.
CONSTANTS
    FrameSize = 8
    FramesPerByte = 8
    AddressLimit = 192
    KernelSeg = 8
    KernelHimem = 96
    WordBits = 5
    LowEntries = 12
    PAGE_TABLE_ENTRIES = 16
    Machines <- SmallMachines
    dir = dir
    table = table
    Clients = {dir, table, c1, c2, c3, c4}
    Requests = {0, 1, 8}
SYMMETRY Alike
SPECIFICATION VMMSpec
INVARIANTS
    UsedCountsMap
    MapAccounted
    BootMemoryMarked
    NothingOverwritten
    GrantsAreMapped
PROPERTIES
    ImplementsAllocator
CHECK_DEADLOCK FALSE
