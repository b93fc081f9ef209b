\* Allocation and release of regions in one process.
CONSTANTS
    PageSize = 4
    IntRange = 32
    AddrRange = 64
    MaxBrk = 12
    Rgid <- MCRgid
    Size <- MCSize
SPECIFICATION Spec
INVARIANTS
    TypeOK
    RegionsSound
