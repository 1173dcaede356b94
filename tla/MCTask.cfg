SPECIFICATION TaskSpec
CONSTANTS
    idle_task = idle_task
    init_proc = init_proc
    Tasks = {idle_task, init_proc, t1, t2}
    Prio = 1
INVARIANTS
    AssertsHold
    QueueOK
    IdleAvailable
PROPERTIES
    BoundedBypass
