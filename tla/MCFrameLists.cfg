\* The free-frame lists one access at a time.
CONSTANTS
    c1 = c1
    c2 = c2
    Nobody = Nobody
    RamFrames = 2
    SwapFrames = 1
    MaxGrowth = 2
    MaxCalls = 3
    Cpu <- MCCpu
SPECIFICATION Spec
INVARIANTS
    TypeOK
    FramesHandedOnce
PROPERTIES
    CallsReturn
    CallsAreAtomic
