SPECIFICATION MCSpec
CONSTANTS
    init_proc = init_proc
    Procs = {init_proc, p1}
    MAX_FILES_OPEN_PER_PROC = 2
    FILE_TABLE_SIZE = 2
    Inodes = {1}
    Pages = {11, 12}
    MaxOpens = 2
    MaxPos = 4
    MaxDups = 1
    NULL = NULL
    console = console
    Tasks = {p1, p2}
    INos = {1, 2}
    Blocks = {11, 12, 13}
    Handles = {1, 2}
    NIL = NIL
INVARIANTS
    NoDangling
    PipesApart
    OneInodePerFile
    RefsCounted
    NoUseAfterFree
