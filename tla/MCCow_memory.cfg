SPECIFICATION Spec
CONSTANTS
    text = text
    stack = stack
    FrameCount = 9
    Page = {text, stack}
    Regions = 1
    Frame <- MCFrame
    RegionOf <- MCRegionOf
    Stack <- MCStack
    Images <- MCImages
    Value = {0, 1}
    Zero = 0
    MAX_TASKS = 2
    RefMod = 3
    Kernel = Kernel
    NULL = NULL
    Unmapped = Unmapped
INVARIANTS RefsExact FramesOwned TlbCurrent
PROPERTIES PrivateSpec
\* The machine stops after a panic.
CHECK_DEADLOCK FALSE
