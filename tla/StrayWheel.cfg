\* The wheel of a headless window is never set.
SPECIFICATION InputSpec
CONSTANTS
    Windowed = {TRUE, FALSE}
    FrameInputs <- MCInputs
    Positions = {0, 64}
    Wheels <- MCWheels
    StrayWheels = {0, 1}
    HalfViewport = 32
    MinZoom = 1
    MaxZoom = 2
    Crates = {1, 2}
    MaxTicks = 5
    MaxInputs = 3
PROPERTY WheelIsOfItsFrame
