SPECIFICATION Spec
CONSTANTS
    Cells <- MCCells
    ChunkSize = 2
    NumChunks = 2
    Values = {0, 1}
    Default = 0
    Void = Void
INVARIANTS
    ActiveOnce
PROPERTIES
    ImplementsMemory
    WriteBackIsComplete
