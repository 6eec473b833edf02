\* Every upset of one bit of a frame, and of two bits if one is of a few.
CONSTANTS
    Frames <- SmallFrames
    FirstUpsets <- Corners
SPECIFICATION Spec
INVARIANTS
    DetectsUpsets
    ToolsAgree
    UpsetsAreLocated
CHECK_DEADLOCK FALSE
