SPECIFICATION FairSpec
CONSTANTS
    t1 = t1
    t2 = t2
    t3 = t3
    idle = idle
    Tasks <- MCTasks
    First <- t1
    Idle <- idle
    TIME_SLICE = 2
    OS_TICK_MS = 10
    MsValues <- MCMs
INVARIANTS
    TypeOK
    SafetyInv
    NoLostTask
PROPERTIES
    NoOvertaking
    NoEarlyPreemption
    ReadyTaskRuns
    SleeperWakes
