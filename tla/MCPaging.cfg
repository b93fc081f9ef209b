\* Frames, swap frames and the replacement list under growth and page faults.
CONSTANTS
    p1 = p1
    p2 = p2
    p3 = p3
    Unwritten = Unwritten
    RamFrames = 3
    SwapFrames = 2
    MaxPages = 3
    TableSize = 2
    Offset <- MCOffset
    Process <- MCProcess
    Value <- MCValue
SPECIFICATION Spec
SYMMETRY MCSymmetry
INVARIANTS
    TypeOK
    FramesExclusive
    SwapExclusive
    FifoResident
    IsolatedUntilEviction
    RamAccountedFor
