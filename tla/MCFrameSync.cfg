SPECIFICATION FrameFairSpec
CONSTANTS
    FramesInFlight = 2
    MinImageCount = 2
    MaxImageCount = 0
    Sizes = {1, 2}
    Headless = {TRUE, FALSE}
    MaxSwapchains = 3
INVARIANTS
    FrameSyncTypeOK
    NoReuseInFlight
    AcquireSemaphoreFree
    ImagesAccounted
    PresentLayoutTrue
PROPERTIES
    DrawFrameReturns
    StagingNotInUse
