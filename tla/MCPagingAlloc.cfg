\* Is every page of a successful allocation mapped?
CONSTANTS
    p1 = p1
    p2 = p2
    p3 = p3
    Unwritten = Unwritten
    RamFrames = 3
    SwapFrames = 2
    MaxPages = 3
    TableSize = 3
    Offset <- MCOffset
    Process <- MCProcess
    Value <- MCValue
SPECIFICATION Spec
INVARIANT
    AreaIsMapped
