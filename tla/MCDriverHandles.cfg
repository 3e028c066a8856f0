\* Three threads, each of which may create a second renderer after its first: the
\* driver is destroyed and made again, in the same mode or in the other.
SPECIFICATION DriverFairSpec
CONSTANTS
    Renderers = {r1, r2, r3}
    NoOwner = NoOwner
    Gpus <- MCGpus
    DiscreteBias = 8
    FramesInFlight = 1
    MaxLives = 2
INVARIANTS
    DeviceOutlivesUse
    DeviceFitsUse
PROPERTY
    RendererProceeds
