SPECIFICATION FairSpec
CONSTANTS
    NumClouds = 3
    BufferSize = 1
    Sources = {"driver", "receiver"}
    SendModes = {"none", "original", "preprocessed", "registered"}
    Scales = {TRUE, FALSE}
INVARIANTS
    ArriveInOrder
PROPERTY
    NewestIsRegistered
