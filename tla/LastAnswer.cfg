\* The socket is closed before the writer takes the last answer.
SPECIFICATION AppFairSpec
CONSTANTS
    Configs <- HeadlessTickless
    FrameBodies <- MCBodies
    FrameNames <- MCNames
    MaxFrames = 2
    PlayedCap = 3
    MaxConnections = 2
    MaxResets = 1
INVARIANT EveryAnswerReachesTheWire
