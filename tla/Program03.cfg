SPECIFICATION ProgramSpec
CONSTANTS
    MEMSIZE = 96
    Entry = 16
    SP = 72
    Frame = 56
    FloatInit <- MCFloats
    DataFile <- MCData
    Programs = {}
    Garbage = {8}
    FloatResults <- MCResults
    MaxSteps = 13
    Files <- MCFiles
    BAD = BAD
    AddressSpace = 128
    TEXT_SZ = 2
    DC_NUM_SETS = 2
    DC_SET_SIZE = 2
    DC_BLOCK_SIZE = 8
    DC_WR_BUFF_SIZE = 2
    MemRdLatency = 3
    HitdCLtcy = 1
    WrMergLtcy = 0
    AddBlk2WrBfLtcy = 0
    FlushWrBfLtcy = 3
    MaxCycle = 50
INVARIANTS
    ImageIntact
    CacheSeesProgram
    CyclesExplained
PROPERTIES
    EndIsReported
    BadWordFloods
