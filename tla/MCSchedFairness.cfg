\* The scheduler alone: safety, fairness between levels, and refinement of the
\* process pool.
CONSTANTS
    p1 = p1
    p2 = p2
    p3 = p3
    c1 = c1
    c2 = c2
    NoProc = NoProc
    MAX_PRIO = 3
    MAX_QUEUE_SIZE = 3
    Proc <- MCProc
    Cpu <- MCCpu
    Prios <- MCPrios
SPECIFICATION FairSpec
INVARIANTS
    SchedTypeOK
    OnePlace
    BudgetOpen
    WorkConserving
    LookupExact
    BypassBounded
    BudgetRespected
PROPERTY
    PoolSpec
