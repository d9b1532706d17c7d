CONSTANTS
    NXs = {2}
    NYs = {4}
    RankCounts = {2}
    YKinds = {"slip-wall"}
    XKinds = {"slip-wall"}
SPECIFICATION Spec
INVARIANTS OwnFaceVector
CHECK_DEADLOCK FALSE
