SPECIFICATION LeftoverSpec
CONSTANTS
    TEXT_SZ  = 2
    MaxInst  = 2
INVARIANTS
    CountComplete
