SPECIFICATION MCSpec
CONSTANTS
    maker = maker
    Writers = {writer}
    Paths <- SmallPaths
    WriteSizes = {3}
    Inodes = {0, 1, 2, 3, 4, 5}
    NBlocks = 6
    NDIRECT = 2
    PerBlock = 3
    InodesPerBlock = 2
    w_no = 1
    v_no = 5
    NULL = NULL
    BlockSizes = {12, 16}
    InodeCounts = {1, 7, 8, 9, 16, 17}
    Starts = {1, 3}
    SectorCounts = {18, 19, 20, 21, 22, 23, 24}
    PG_SIZE = 64
    BitmapBits = 3
    PoolPages = 4
    DESC_CNT = 2
    Sizes = {16, 17}
    MaxRun = 3
INVARIANTS
    EntriesSound
    BlocksExact
    Durable
    NoLeak
    LayoutExact
    MemoryApart
    ArenasExact
    FirstFit
