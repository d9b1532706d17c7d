\* Ranges of grids of up to 13 rows, with more ranks than rows among them; up
\* to the residue, grids of two columns and up to four rows, of
\* which any three cells change.
CONSTANTS
    MaxNY = 13
    MaxRanks = 15
    NX = 2
    ReportRows = 4
    MaxChange = 2
    MostChanged = 3
SPECIFICATION ReportSpec
CHECK_DEADLOCK FALSE
INVARIANTS Tiling Covers Balanced LocationReported ForcesReported
