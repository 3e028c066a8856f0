\* Two frames in flight.  A headless renderer orders two objects and grows and
\* shrinks their buffers; a windowed one recreates its swapchain once.
SPECIFICATION RenderSpec
CONSTANTS
    FramesInFlight = 2
    MinImageCount = 1
    MaxImageCount = 0
    Sizes = {1, 2}
    Headless = {TRUE, FALSE}
    MaxSwapchains = 2
    InitCapacity = 1
    MaxObjects = 2
    HasAtlas = TRUE
    Looks <- MCLooks
    Cameras = {1, 2}
CONSTRAINT FewObjects
INVARIANTS
    RenderTypeOK
    InFlightMemoryStable
PROPERTIES
    OnlyAtlasLeaks
    DrawnIsCurrent
    OrderAtMostOneFrameLate
