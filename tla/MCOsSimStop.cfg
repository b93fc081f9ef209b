\* The claim that every CPU thread stops.
CONSTANTS
    c1 = c1
    c2 = c2
    NoProc = NoProc
    Loader = Loader
    NumProcesses = 2
    MAX_PRIO = 2
    MAX_QUEUE_SIZE = 2
    TIME_SLOT = 2
    MaxTime = 2
    Cpu <- MCCpu
    Proc <- MCProc
    Device <- MCDevice
    Prios <- MCPrios
    Sizes <- MCSizes
    StartTimes <- MCStartTimes
SPECIFICATION Spec
PROPERTY
    AllCpusStop
