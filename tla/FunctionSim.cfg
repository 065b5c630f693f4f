SPECIFICATION CSpec
CONSTANTS
    MEMSIZE = 64
    Entry = 16
    SP = 60
    Frame = 56
    FloatInit <- MCFloats
    DataFile <- MCData
    Programs <- MCPrograms
    Garbage = {0, 24}
    TestAddr = 48
    TestFloat = 1039516303
    FloatResults <- MCResults
    MaxSteps = 5
INVARIANTS
    TypeOK
    EndsWithTransfer
    AddressTraced
    SameMachine
PROPERTIES
    StoresTraced
    StoreReadsBack
