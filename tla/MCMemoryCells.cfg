\* Every byte of a page has a place of its own?
CONSTANTS
    self = self
    other = other
    Self = self
    Unwritten = Unwritten
    Undefined = Undefined
    PageSize = 3
    OffsetRange = 2
    ByteRange = 4
    RegisterRange = 16
    IntRange = 16
    AddrRange = 48
    MaxPages = 2
    MaxBrk = 6
    TableSize = 2
    RamFrames = 3
    SwapFrames = 1
    Process <- MCProcess
    Rgid <- MCRgid
    Size <- MCSize
    Mine <- MCMine
    Theirs <- MCTheirs
SPECIFICATION MemorySpec
INVARIANT ReadsAsStored
