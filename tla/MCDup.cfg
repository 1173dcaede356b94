SPECIFICATION FileTableSpec
CONSTANTS
    init_proc = init_proc
    Procs = {init_proc, p1}
    MAX_FILES_OPEN_PER_PROC = 3
    FILE_TABLE_SIZE = 2
    Inodes = {}
    Pages = {11}
    MaxOpens = 0
    MaxPos = 4
    MaxDups = 1
    NULL = NULL
    console = console
INVARIANTS
    CloseFindsFile
