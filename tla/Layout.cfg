\* Grids up to 3 by 9; the writers have slabs of two rows and more, on up to four
\* ranks, the readers slabs of any height; or the sides of the grid exchanged.
CONSTANTS
    MaxNX = 3
    MaxNY = 9
    MaxRanks = 4
    CvPlanes = 2
SPECIFICATION LayoutSpec
INVARIANTS SolutionRight ParityLossBounded RestartLossBounded DealtOut SerialRestored
CHECK_DEADLOCK FALSE
