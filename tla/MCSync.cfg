SPECIFICATION FairSpec
CONSTANTS
    idle_task = idle_task
    init_proc = init_proc
    Tasks = {idle_task, init_proc, t1}
    Prio = 1
    Locks = {1, 2}
    MaxOps = 3
INVARIANTS
    NoPanic
    MutualExclusion
    TagInOneList
    NoLostWakeup
PROPERTIES
    RefinesTask
    LockReleased
    ReadyRuns
