\* The shortest program is two checkpoints with iterations between them.
CONSTANTS
    NY = 3
    NRanks = 3
    MaxCalls = 3
    NCv = 1
    NDv = 2
SPECIFICATION Spec
INVARIANT FileIsState
CHECK_DEADLOCK FALSE
