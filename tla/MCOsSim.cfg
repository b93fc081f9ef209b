\* The CPU threads, the loader and the scheduler in time slots.
CONSTANTS
    c1 = c1
    c2 = c2
    NoProc = NoProc
    Loader = Loader
    NumProcesses = 3
    MAX_PRIO = 2
    MAX_QUEUE_SIZE = 3
    TIME_SLOT = 2
    MaxTime = 1
    Cpu <- MCCpu
    Proc <- MCProc
    Device <- MCDevice
    Prios <- MCPrios
    Sizes <- MCSizes
    StartTimes <- MCStartTimes
SPECIFICATION Spec
INVARIANTS
    OsTypeOK
    QuantumExact
    NoAbandonedProcess
    IdleCpuLeavesNoWork
PROPERTY
    EveryProcessFinishes
