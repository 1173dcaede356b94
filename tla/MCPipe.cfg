SPECIFICATION Spec
CONSTANTS
    idle_task = idle_task
    init_proc = init_proc
    Tasks = {idle_task, init_proc, t1, t2}
    Prio = 1
    bufsize = 3
    open_cnts_pos = 1
    Bytes = {0, 1, 2}
    Writers = {init_proc, t1}
    Readers = {t2}
    MaxCount = 3
INVARIANTS
    ReadNeverWaits
    WritesNotMixed
PROPERTIES
    QueueButForClone
