SPECIFICATION DrainSpec
CONSTANTS
    DC_NUM_SETS     = 1
    DC_SET_SIZE     = 2
    DC_BLOCK_SIZE   = 8
    DC_WR_BUFF_SIZE = 2
    MemRdLatency    = 3
    HitdCLtcy       = 1
    WrMergLtcy      = 0
    AddBlk2WrBfLtcy = 0
    FlushWrBfLtcy   = 3
    Kinds          <- MixedKinds
    MaxCycle        = 100
    MaxInst         = 6
INVARIANTS
    TypeOK
    InOrder
    AccessTimed
    Drained
PROPERTIES
    EachShown
    RepeatHits
    ImplementsTrace
    ChildProgresses
