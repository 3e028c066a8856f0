\* A headless renderer with one object is enough: the last frames still execute
\* when the scene cleans up.
SPECIFICATION RenderSpec
CONSTANTS
    FramesInFlight = 2
    MinImageCount = 1
    MaxImageCount = 0
    Sizes = {1}
    Headless = {TRUE}
    MaxSwapchains = 1
    InitCapacity = 1
    MaxObjects = 1
    HasAtlas = TRUE
    Looks <- MCLooks
    Cameras = {1}
INVARIANT NothingInUseDestroyed
