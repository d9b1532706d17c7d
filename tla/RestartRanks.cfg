\* Two columns and two ranks are the smallest case that goes wrong.
CONSTANTS
    MaxNX = 2
    MaxNY = 4
    MaxRanks = 2
    CvPlanes = 1
SPECIFICATION LayoutSpec
INVARIANT CellsRestored
CHECK_DEADLOCK FALSE
