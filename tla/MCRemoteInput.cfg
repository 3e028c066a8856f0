\* Three frames in five iterations, with and without a window.
SPECIFICATION InputSpec
CONSTANTS
    Windowed = {TRUE, FALSE}
    FrameInputs <- MCInputs
    Positions = {0, 64}
    Wheels <- MCWheels
    StrayWheels = {0, 1}
    HalfViewport = 32
    MinZoom = 1
    MaxZoom = 2
    Crates = {1, 2}
    MaxTicks = 5
    MaxInputs = 3
INVARIANTS
    InputTypeOK
    AimHolds
    DragHoldsPoint
PROPERTIES
    ScrollActsOnce
    HeldCrateStays
