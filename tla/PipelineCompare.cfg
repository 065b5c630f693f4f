SPECIFICATION CSpec
CONSTANTS
    DC_NUM_SETS     = 1
    DC_SET_SIZE     = 2
    DC_BLOCK_SIZE   = 8
    DC_WR_BUFF_SIZE = 2
    MemRdLatency    = 3
    HitdCLtcy       = 1
    WrMergLtcy      = 0
    AddBlk2WrBfLtcy = 0
    FlushWrBfLtcy   = 3
    Kinds          <- MixedKinds
    MaxCycle        = 120
    MaxInst         = 7
INVARIANTS
    CostIsWaits
