SPECIFICATION FairSpec
CONSTANTS
    idle_task = idle_task
    init_proc = init_proc
    Tasks = {idle_task, init_proc, t1, t2}
    Prio = 1
    Users = {t1, t2}
    Sectors = {1, 2}
    MidWriteIrq = FALSE
    TimeLimit = 3
INVARIANTS
    OwnInterrupt
PROPERTIES
    CommandEnds
