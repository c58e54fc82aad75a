SPECIFICATION SensorsSpec
CONSTANTS
    MaxTime = 3
    TicksPerMs = 2
    BufferSize = 2
    G = 2
    DegreesToRadians = 3
    GaussToTesla = 1
    Unknown = 99
    NaN = NaN
    RunWindow = 2
    Buckets = 2
    BucketSize = 2
    LineLength = 5
    Largest = 1000000
    Readings <- DeviceReadings
    FilterSize = 2
    MaxClouds = 3
    ReportEvery = 2
CHECK_DEADLOCK FALSE
INVARIANTS EveryMomentOnce FilteredIsMean TaskTimeIsOutside
PROPERTY TakesWhatWasBefore
