\* The timer thread, its devices and main.
CONSTANTS
    c1 = c1
    c2 = c2
    loader = loader
    MaxTime = 1
    Device <- MCDevice
SPECIFICATION Spec
INVARIANTS
    TypeOK
    NoDataRace
PROPERTIES
    BarrierSpec
    NextSlotReturns
    Terminates
