SPECIFICATION FairSpec
CONSTANTS
    TEXT_SZ = 2
    MaxInst = 6
INVARIANTS
    TypeOK
    RingSafe
    TalliedInOrder
    LossBounded
PROPERTIES
    Terminates
