SPECIFICATION GSpec
CONSTANTS
    DC_NUM_SETS     = 2
    DC_SET_SIZE     = 3
    FewerWays       = 2
    DC_BLOCK_SIZE   = 2
    DC_WR_BUFF_SIZE = 2
    MemRdLatency    = 3
    HitdCLtcy       = 1
    WrMergLtcy      = 0
    AddBlk2WrBfLtcy = 0
    FlushWrBfLtcy   = 3
    Addrs           = {0, 4, 8, 12, 2}
    MaxAccess       = 5
    MaxGap          = 0
INVARIANTS
    TypeOK
    UniqueTags
    VictimDefined
    BufferSafe
    TrdyFollowsUse
    OneFlush
    NoLostWrite
    MoreWaysFewerMisses
PROPERTIES
    VictimNearLRU
