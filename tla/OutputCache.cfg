\* Every program of up to four calls on three ranks; a restart has fewer planes
\* than a solution.
CONSTANTS
    NY = 3
    NRanks = 3
    MaxCalls = 4
    NCv = 1
    NDv = 2
SPECIFICATION Spec
INVARIANTS FirstGatherWins
PROPERTY SingleGatherEnds
CHECK_DEADLOCK FALSE
