CONSTANTS
    low = low
    high = high
    None = None
    Layers <- TwoLayers
    W = 6
    Start <- AtTheWrap
    MaxSent = 3
    Frame <- TwoFrames
    Keys = {2}
    Keep = 2
    MaxCame = 4
    MaxDelays = 1
SPECIFICATION Spec
INVARIANTS
    Numbering
    CleanSwitch
    ResendsRight
