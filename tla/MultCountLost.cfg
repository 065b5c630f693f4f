SPECIFICATION Spec
CONSTANTS
    TEXT_SZ = 2
    MaxInst = 3
INVARIANTS
    CountComplete
