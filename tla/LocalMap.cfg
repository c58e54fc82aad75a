SPECIFICATION Spec
CONSTANTS
    NumAxes = 2
    Size <- MCSize
    ChunkSize = 2
    Reach = 2
    Used <- MCUsed
    Values = {0, 1}
    Default = 0
    Void = Void
INVARIANTS
    OneCellPerSlot
PROPERTIES
    ImplementsMemory
    WriteBackSavesAll
