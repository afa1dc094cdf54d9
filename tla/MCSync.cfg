SPECIFICATION SyncFairSpec
CONSTANTS
    t1 = t1
    t2 = t2
    t3 = t3
    idle = idle
    s1 = s1
    m1 = m1
    m2 = m2
    Tasks <- MCTasks
    First <- t1
    Idle <- idle
    NULL = NULL
    OS_TICK_MS = 10
    MsValues <- MCMs
    Sems = {s1}
    SEM_INIT <- MCSemInit
    Rank <- MCRank
    Mutexes = {m1, m2}
    TIME_SLICE = 1
    HeldOverWait = {m1}
    MaxCount = 1
    MaxDepth = 2
INVARIANTS
    OneWaitList
    NoUnitUnused
    OwnerCanRelease
PROPERTIES
    SchedSpec
    FirstComeFirstServed
    WaitersServed
    GoneForGood
