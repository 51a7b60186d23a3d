SPECIFICATION SpansSpec
CONSTANTS
    Frames = {f, g}
    ApmFrame = apm
    HookFrames <- HookTops
    Options <- AllOptions
    MaxDepth = 3
    MaxCaptures = 2
    MaxUser = 1
    MaxClock = 2
SYMMETRY FrameSymmetry
INVARIANTS
    SpansFollowTrace
    ReportedSpansNest
CHECK_DEADLOCK FALSE
