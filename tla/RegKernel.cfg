SPECIFICATION RegSpec
CONSTANTS
    MapResolution = 4
    MapBounds <- MCMapBounds
    SplitFactor = 3
    MatrixResolution = 8
    Map <- MCMap
    Field <- MCField
    Scans <- MCScans
    ImuMotions <- MCImuMotions
    Motions <- MCMotions
    MaxIterations = 5
    WeightGradient = 1
    Epsilon = 1
    Prime = 31
    NaN = NaN
INVARIANTS
    ReductionKeepsVoxels
    MedianStaysOnRing
    LanesCoverCloud
    ReadsTheMap
    StopsOnHistory
    ScannerMoves
    SolverSolves
CHECK_DEADLOCK FALSE
