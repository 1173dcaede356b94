SPECIFICATION MCSpec
CONSTANTS
    idle_task = idle_task
    init_proc = init_proc
    Tasks = {idle_task, init_proc, t1, t2}
    Prio = 1
    bufsize = 3
    Bytes = {a, b}
    Readers = {t1, t2}
    MaxCount = 2
    Keys = {2, 28, 38, 42, 54, 58, 57372, 57373}
    MaxEvents = 5
    Columns = 3
    Rows = 3
    TabWidth = 2
    count = 6
    MAX_ARG_NR = 2
    Typeable = {"a", " ", "BS", "HT", "ESC", "ctrl-l", "ctrl-u", "CR"}
    MaxTyped = 7
INVARIANTS
    SleeperReachable
    DecodesKeys
    LineShown
PROPERTIES
    RefinesFifo
