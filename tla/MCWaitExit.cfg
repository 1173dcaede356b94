SPECIFICATION Spec
CONSTANTS
    idle_task = idle_task
    init_proc = init_proc
    t1 = t1
    t2 = t2
    t3 = t3
    Tasks = {idle_task, init_proc, t1, t2, t3}
    Prio = 0
    Pages = {1, 2, 3}
    NPids = 5
    CloneFlags = {"fork"}
    Blocking = {"closing", "io"}
SYMMETRY TaskSymmetry
INVARIANTS
    NoPanic
    ParentAlive
    AllTasksExact
    NoMissedExit
