SPECIFICATION Spec
CONSTANTS
    SplitFactor = 2
    Radius <- MCRadius
    MapResolution = 4
    MatrixResolution = 8
    WeightResolution = 4
    Tau = 6
    MaxWeight = 5
    DzPerDistance = 4
    Scans <- MCScans
    Olds <- MCOlds
INVARIANTS
    EntriesAreOffered
    SyncsEveryCellOnce
    MapStaysBetween
