CONSTANTS
    Fractions = 2
    PerSecond = 2
    Stdev <- Deviations
    Rings = 16
    Resolution = 4
    Tau = 3
    Size <- WindowSize
    ThreadCount = 2
    Kinds = {"imu", "cloud", "tsdf", "transform", "imu back", "cloud back", "loam"}
    Measured <- Measurements
    Options <- Parameters
    MaxMessages <- Messages
    HighWater = 2
    RingSize = 1
    PathLimit = 4
    Recent = 2
    NoFile = NoFile
SPECIFICATION WireSpec
INVARIANTS PublishedIsMeasured PathShowsPoses FilesHoldPoses
CHECK_DEADLOCK FALSE
