SPECIFICATION Spec
CONSTANTS
    DC_NUM_SETS     = 1
    DC_SET_SIZE     = 2
    DC_BLOCK_SIZE   = 2
    DC_WR_BUFF_SIZE = 2
    MemRdLatency    = 3
    HitdCLtcy       = 1
    WrMergLtcy      = 0
    AddBlk2WrBfLtcy = 0
    FlushWrBfLtcy   = 3
    Addrs           = {0, 2, 4}
    MaxAccess       = 5
    MaxGap          = 1
INVARIANTS
    LoadsAreCurrent
