CONSTANTS
    Codes = {k1, k2}
    NoCode = NoCode
    Size = 4
SPECIFICATION FairSpec
PROPERTIES
    ImplementsQueue
    SlotIntact
    WaitEnds
