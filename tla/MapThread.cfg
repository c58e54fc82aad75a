SPECIFICATION FairSpec
CONSTANTS
    NumClouds = 4
    Positions = {0, 1, 2}
    NaN = NaN
    Period = 2
    Threshold = 1
INVARIANTS
    JobIsPrivate
    EveryCloudOnce
PROPERTIES
    RegistersAgainstOneMap
    EveryCloudArrives
    StopReturns
