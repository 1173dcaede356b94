SPECIFICATION KMemSpec
CONSTANTS
    PG_SIZE = 64
    BitmapBits = 3
    PoolPages = 4
    DESC_CNT = 2
    Sizes = {16, 17}
    MaxRun = 3
INVARIANT RunsInPool
