\* Two frames reach the loop: enough for a screenshot left behind by one
\* frame to be captured in a later one and asked for again by the second.
SPECIFICATION LoopFairSpec
CONSTANTS
    Configs <- AllConfigs
    FrameBodies <- MCBodies
    FrameNames <- MCNames
    MaxFrames = 2
    PlayedCap = 4
INVARIANTS
    LoopTypeOK
    FramesInReceiptOrder
    OneAnswerPerFrame
    TicklessAdvancesByCommand
PROPERTIES
    PassTicksRespected
    ScreenshotIsOfItsFrame
    ReceivedIsExecuted
    FrameServiceSpec
