SPECIFICATION LidarSends
CONSTANTS
    NumSessions = 2
    SocketSize = 1
    Sources = {"driver", "receiver"}
INVARIANTS
    ThreadsAreOrdered
    NoStaleClouds
PROPERTY
    SessionEnds
