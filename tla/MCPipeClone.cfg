SPECIFICATION FairSpec
CONSTANTS
    idle_task = idle_task
    init_proc = init_proc
    Tasks = {idle_task, init_proc, t1}
    Prio = 0
    bufsize = 3
    open_cnts_pos = 0
    Bytes = {0, 1, 2}
    Writers = {init_proc}
    Readers = {t1}
    MaxCount = 1
PROPERTIES
    RefinesFifo
