\* The claim that the highest waiting priority always goes first.
CONSTANTS
    p1 = p1
    p2 = p2
    p3 = p3
    c1 = c1
    c2 = c2
    NoProc = NoProc
    MAX_PRIO = 3
    MAX_QUEUE_SIZE = 3
    Proc <- MCProc
    Cpu <- MCCpu
    Prios <- MCPrios
SPECIFICATION SchedSpec
PROPERTY
    HighestPriorityFirst
