\* Slabs of two, one and one rows: main accepts them, and ng = 2.
CONSTANTS
    NY = 4
    NRanks = 3
    NV = 1
    Stages = 1
SPECIFICATION Spec
INVARIANT GhostsFresh
CHECK_DEADLOCK FALSE
